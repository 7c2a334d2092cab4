-------------------------- MODULE Conversions_proofs --------------------------
(***************************************************************************)
(* Proofs about the number conversions at the end of src/tcu.c: each pair  *)
(* undoes the other, for every number that fits and every pair of bytes.   *)
(*                                                                         *)
(* A recursive function is a CHOOSE; for the two or three bytes of a call, *)
(* a function with the same equation is written down, so that one exists   *)
(* and the equation may be unfolded.                                       *)
(***************************************************************************)
EXTENDS Conversions, TLAPS

-----------------------------------------------------------------------------
(* Decimal numbers.                                                        *)

\* The two digits of a byte.
Tens(b) == (b \div 16) * 10 + (b % 16)

LEMMA TensInNat ==
    ASSUME NEW b \in Nat
    PROVE  Tens(b) \in Nat
  BY SMT DEF Tens

\* A number of two digits survives being put into a byte.
LEMMA TensOfByte ==
    ASSUME NEW t \in Nat, t < 100
    PROVE  /\ (t \div 10) * 16 + (t % 10) \in Byte
           /\ Tens((t \div 10) * 16 + (t % 10)) = t
  <1>1. t \div 10 \in Nat /\ t \div 10 < 10 /\ t % 10 \in Nat /\ t % 10 < 10
    BY SMT
  <1>2. t = 10 * (t \div 10) + (t % 10)
    BY SMT
  <1> DEFINE h == t \div 10
             l == t % 10
  <1> HIDE DEF h, l
  <1>3. ASSUME NEW x \in Nat, x < 10, NEW y \in Nat, y < 10
        PROVE  /\ x * 16 + y \in Byte
               /\ (x * 16 + y) \div 16 = x
               /\ (x * 16 + y) % 16 = y
    BY <1>3, SMT DEF Byte
  <1>4. h \in Nat /\ h < 10 /\ l \in Nat /\ l < 10 /\ t = 10 * h + l
    BY <1>1, <1>2 DEF h, l
  <1>5. /\ h * 16 + l \in Byte
        /\ (h * 16 + l) \div 16 = h
        /\ (h * 16 + l) % 16 = l
    BY <1>3, <1>4
  <1>6. h * 16 + l \in Byte /\ h * 10 + l = t
    BY <1>4, <1>5
  <1>7. Tens(h * 16 + l) = t
    BY <1>5, <1>6, Zenon DEF Tens
  <1> QED
    BY <1>5, <1>7, Zenon DEF h, l

LEMMA PowersOfHundred ==
    /\ power(100, 0) = 1 /\ power(100, 1) = 100
    /\ power(100, 2) = 10000 /\ power(100, 3) = 1000000
    /\ \A k \in 0 .. 2 : power(100, k) \in Nat
  <1>1. power(100, 0) = 1
    BY DEF power
  <1>2. power(100, 1) = 100
    BY DEF power
  <1>3. power(100, 2) = 10000
    BY DEF power
  <1>4. power(100, 3) = 1000000
    BY DEF power
  <1>5. \A k \in 0 .. 2 : k = 0 \/ k = 1 \/ k = 2
    OBVIOUS
  <1> QED
    BY <1>1, <1>2, <1>3, <1>4, <1>5

\* What BCDtoDec computes for three bytes.
LEMMA BCDtoDecOfThree ==
    ASSUME NEW b \in [1 .. 3 -> Nat]
    PROVE  BCDtoDec(b, 3) = Tens(b[1]) * power(100, 2)
                             + Tens(b[2]) * power(100, 1)
                             + Tens(b[3]) * power(100, 0)
  <1> DEFINE T(i) == ((b[i] \div 16) * 10 + (b[i] % 16)) * power(100, 3 - i)
             F(f) == [i \in 0 .. 3 |-> IF i = 0 THEN 0 ELSE f[i - 1] + T(i)]
             d[i \in 0 .. 3] == IF i = 0 THEN 0 ELSE d[i - 1] + T(i)
             g == [i \in 0 .. 3 |-> IF i = 0 THEN 0
                                    ELSE IF i = 1 THEN T(1)
                                    ELSE IF i = 2 THEN T(1) + T(2)
                                    ELSE T(1) + T(2) + T(3)]
  <1>1. BCDtoDec(b, 3) = d[3]
    BY Zenon DEF BCDtoDec
  <1>2. power(100, 2) \in Nat /\ power(100, 1) \in Nat /\ power(100, 0) \in Nat
    BY PowersOfHundred
  <1>3. /\ T(1) = Tens(b[1]) * power(100, 2)
        /\ T(2) = Tens(b[2]) * power(100, 1)
        /\ T(3) = Tens(b[3]) * power(100, 0)
    <2>1. 3 - 1 = 2 /\ 3 - 2 = 1 /\ 3 - 3 = 0
      OBVIOUS
    <2> QED
      BY <2>1, Zenon DEF Tens
  <1>4. Tens(b[1]) \in Nat /\ Tens(b[2]) \in Nat /\ Tens(b[3]) \in Nat
    BY TensInNat
  <1> HIDE DEF T
  <1>5. T(1) \in Nat /\ T(2) \in Nat /\ T(3) \in Nat
    BY <1>2, <1>3, <1>4
  <1>6. g = F(g)
    BY <1>5
  <1> HIDE DEF g
  <1>7. \E f : f = F(f)
    BY <1>6, Zenon
  <1>8. d = F(d)
    BY <1>7, Zenon
  <1> HIDE DEF d
  <1>9. d[0] = 0 /\ d[1] = d[0] + T(1) /\ d[2] = d[1] + T(2) /\ d[3] = d[2] + T(3)
    BY <1>8
  <1>10. d[3] = T(1) + T(2) + T(3)
    BY <1>5, <1>9
  <1> QED
    BY <1>1, <1>3, <1>10

\* DectoBCD and BCDtoDec: every number of six digits comes back.
THEOREM DecimalComesBack ==
    ASSUME NEW n \in Nat, n < power(100, 3)
    PROVE  BCDtoDec(DectoBCD(n, 3), 3) = n
  <1> DEFINE P(i) == (n \div power(100, 3 - i)) % 100
             B(i) == (P(i) \div 10) * 16 + (P(i) % 10)
             bcd == DectoBCD(n, 3)
  <1>1. bcd = [i \in 1 .. 3 |-> B(i)]
    BY Zenon DEF DectoBCD
  <1>2. /\ P(1) = (n \div power(100, 2)) % 100
        /\ P(2) = (n \div power(100, 1)) % 100
        /\ P(3) = (n \div power(100, 0)) % 100
    OBVIOUS
  <1> HIDE DEF P
  <1>3. /\ P(1) \in Nat /\ P(1) < 100 /\ P(2) \in Nat /\ P(2) < 100
        /\ P(3) \in Nat /\ P(3) < 100
        /\ P(1) * power(100, 2) + P(2) * power(100, 1) + P(3) * power(100, 0) = n
    <2> DEFINE q2 == n \div 10000
               q1 == n \div 100
    <2>1. n < 1000000 /\ P(1) = q2 % 100 /\ P(2) = q1 % 100 /\ P(3) = n % 100
      BY <1>2, PowersOfHundred
    <2>2. /\ q1 \in Nat /\ n = 100 * q1 + (n % 100)
          /\ n % 100 \in Nat /\ n % 100 < 100 /\ q1 < 10000
      BY <2>1, SMT
    <2>3. q2 = q1 \div 100
      BY SMT
    <2>4. /\ q2 \in Nat /\ q1 = 100 * q2 + (q1 % 100)
          /\ q1 % 100 \in Nat /\ q1 % 100 < 100 /\ q2 < 100
      BY <2>2, <2>3, SMT
    <2>5. q2 % 100 = q2
      BY <2>4, SMT
    <2> HIDE DEF q1, q2
    <2>6. /\ P(1) \in Nat /\ P(1) < 100 /\ P(2) \in Nat /\ P(2) < 100
          /\ P(3) \in Nat /\ P(3) < 100
          /\ P(1) * 10000 + P(2) * 100 + P(3) * 1 = n
      BY <2>1, <2>2, <2>4, <2>5
    <2> QED
      BY <2>6, PowersOfHundred
  <1>4. ASSUME NEW i \in 1 .. 3 PROVE B(i) \in Byte /\ Tens(B(i)) = P(i)
    <2>1. P(i) \in Nat /\ P(i) < 100
      BY <1>3
    <2> QED
      BY <2>1, TensOfByte
  <1> HIDE DEF B, bcd
  <1>5. bcd \in [1 .. 3 -> Nat]
    BY <1>1, <1>4 DEF Byte
  <1>6. BCDtoDec(bcd, 3) = Tens(bcd[1]) * power(100, 2)
                             + Tens(bcd[2]) * power(100, 1)
                             + Tens(bcd[3]) * power(100, 0)
    BY <1>5, BCDtoDecOfThree
  <1>7. bcd[1] = B(1) /\ bcd[2] = B(2) /\ bcd[3] = B(3)
    BY <1>1
  <1>8. Tens(bcd[1]) = P(1) /\ Tens(bcd[2]) = P(2) /\ Tens(bcd[3]) = P(3)
    BY <1>4, <1>7
  <1> QED
    BY <1>3, <1>6, <1>8 DEF bcd

-----------------------------------------------------------------------------
(* Binary numbers.                                                         *)

\* What HextoDec computes for two bytes.
LEMMA HextoDecOfTwo ==
    ASSUME NEW h \in [1 .. 2 -> Nat]
    PROVE  HextoDec(h, 2) = h[1] * 256 + h[2]
  <1> DEFINE T(i) == h[i] * 256^(2 - i)
             F(f) == [i \in 0 .. 2 |-> IF i = 0 THEN 0 ELSE f[i - 1] + T(i)]
             rslt[i \in 0 .. 2] == IF i = 0 THEN 0 ELSE rslt[i - 1] + T(i)
             g == [i \in 0 .. 2 |-> IF i = 0 THEN 0
                                    ELSE IF i = 1 THEN T(1) ELSE T(1) + T(2)]
  <1>1. HextoDec(h, 2) = rslt[2]
    BY Zenon DEF HextoDec
  <1>2. T(1) = h[1] * 256 /\ T(2) = h[2]
    OBVIOUS
  <1> HIDE DEF T
  <1>3. T(1) \in Nat /\ T(2) \in Nat
    BY <1>2
  <1>4. g = F(g)
    BY <1>3
  <1> HIDE DEF g
  <1>5. \E f : f = F(f)
    BY <1>4, Zenon
  <1>6. rslt = F(rslt)
    BY <1>5, Zenon
  <1> HIDE DEF rslt
  <1>7. rslt[0] = 0 /\ rslt[1] = rslt[0] + T(1) /\ rslt[2] = rslt[1] + T(2)
    BY <1>6
  <1> QED
    BY <1>1, <1>2, <1>3, <1>7

LEMMA PowersOf256 ==
    power(256, 0) = 1 /\ power(256, 1) = 256 /\ power(256, 2) = 65536
  <1>1. power(256, 0) = 1
    BY DEF power
  <1>2. power(256, 1) = 256
    BY DEF power
  <1>3. power(256, 2) = 65536
    BY DEF power
  <1> QED
    BY <1>1, <1>2, <1>3

\* DectoHex and HextoDec: every number of two bytes comes back.
THEOREM BinaryComesBack ==
    ASSUME NEW n \in Nat, n < power(256, 2)
    PROVE  HextoDec(DectoHex(n, 2), 2) = n
  <1> DEFINE hex == DectoHex(n, 2)
  <1>1. hex = [i \in 1 .. 2 |-> (n \div power(256, 2 - i)) % 256]
    BY Zenon DEF DectoHex
  <1> HIDE DEF hex
  <1>2. hex[1] = (n \div 256) % 256 /\ hex[2] = n % 256
    <2>1. hex[1] = (n \div power(256, 1)) % 256 /\ hex[2] = (n \div power(256, 0)) % 256
      BY <1>1
    <2> QED
      BY <2>1, PowersOf256
  <1>3. /\ (n \div 256) % 256 \in Nat /\ n % 256 \in Nat
        /\ ((n \div 256) % 256) * 256 + (n % 256) = n
    <2>1. n < 65536
      BY PowersOf256
    <2>2. n \div 256 \in Nat /\ n \div 256 < 256 /\ n = 256 * (n \div 256) + (n % 256)
          /\ n % 256 \in Nat
      BY <2>1, SMT
    <2>3. (n \div 256) % 256 = n \div 256
      BY <2>2, SMT
    <2> QED
      BY <2>2, <2>3
  <1>4. hex[1] \in Nat /\ hex[2] \in Nat
    BY <1>2, <1>3
  <1>5. hex \in [1 .. 2 -> Nat]
    BY <1>1, <1>4
  <1>6. HextoDec(hex, 2) = hex[1] * 256 + hex[2]
    BY <1>5, HextoDecOfTwo
  <1> QED
    BY <1>2, <1>3, <1>6 DEF hex

\* convert: inverting the bits twice changes nothing, for any sequence of bytes.
THEOREM InvertedTwice ==
    ASSUME NEW s \in Seq(Byte)
    PROVE  convert(convert(s)) = s
  <1>1. \A i \in DOMAIN s : s[i] \in Byte
    OBVIOUS
  <1>2. \A b \in Byte : 255 - (255 - b) = b
    BY DEF Byte
  <1>3. s = [i \in DOMAIN s |-> s[i]]
    OBVIOUS
  <1>4. convert(s) = [i \in DOMAIN s |-> 255 - s[i]]
    BY DEF convert
  <1>5. convert(convert(s)) = [i \in DOMAIN s |-> 255 - (255 - s[i])]
    BY <1>4, Zenon DEF convert
  <1> QED
    BY <1>1, <1>2, <1>3, <1>5

-----------------------------------------------------------------------------
(* Strings of digits.                                                      *)

\* A byte of two decimal digits.
Decimal(b) == b \div 16 <= 9 /\ b % 16 <= 9

LEMMA DecimalDigits ==
    ASSUME NEW b \in Byte, Decimal(b)
    PROVE  /\ b \div 16 \in 0 .. 9 /\ b % 16 \in 0 .. 9
           /\ 16 * (b \div 16) + (b % 16) = b
  BY SMT DEF Byte, Decimal

\* A decimal digit is written as a character that is read as the same digit.
LEMMA DigitComesBack ==
    ASSUME NEW d \in 0 .. 9
    PROVE  IsDigit(Character(d)) /\ Value(Character(d)) = d
  <1>1. Character(d) = d + 48 /\ Character(d) \in 48 .. 57
    BY DEF Character
  <1>2. Value(Character(d)) = Character(d) - 48
    <2> DEFINE c == Character(d)
    <2>1. c \in 48 .. 57
      BY <1>1
    <2> HIDE DEF c
    <2>2. Value(c) = c - 48
      BY <2>1 DEF Value
    <2> QED
      BY <2>2 DEF c
  <1> QED
    BY <1>1, <1>2 DEF IsDigit

\* bcd2str and str2bcd: the digits of two bytes come back, the bytes swapped.
THEOREM DigitsComeBack ==
    ASSUME NEW a \in Byte, NEW b \in Byte, Decimal(a), Decimal(b)
    PROVE  str2bcd(bcd2str(<<a, b>>, 2), 2) = <<b, a>>
  <1> DEFINE s == bcd2str(<<a, b>>, 2)
             N(i) == IF i <= Len(s) /\ \A k \in 1 .. i : IsDigit(s[k])
                     THEN Value(s[i]) ELSE 0
             c1 == Character(b \div 16)
             c2 == Character(b % 16)
             c3 == Character(a \div 16)
             c4 == Character(a % 16)
  <1>1. s = [j \in 1 .. 4 |->
                IF j = 1 THEN c1 ELSE IF j = 2 THEN c2
                ELSE IF j = 3 THEN c3 ELSE c4]
    <2> DEFINE in == <<a, b>>
               E(j) == Character(IF j % 2 = 1 THEN in[2 - ((j - 1) \div 2)] \div 16
                                 ELSE in[2 - ((j - 1) \div 2)] % 16)
    <2>1. s = [j \in 1 .. 2 * 2 |-> E(j)]
      BY Zenon DEF bcd2str
    <2>2. /\ 2 - ((1 - 1) \div 2) = 2 /\ 2 - ((2 - 1) \div 2) = 2
          /\ 2 - ((3 - 1) \div 2) = 1 /\ 2 - ((4 - 1) \div 2) = 1
          /\ 1 % 2 = 1 /\ 2 % 2 # 1 /\ 3 % 2 = 1 /\ 4 % 2 # 1 /\ 2 * 2 = 4
      BY SMT
    <2>3. in[1] = a /\ in[2] = b
      OBVIOUS
    <2> HIDE DEF in
    <2>4. E(1) = c1 /\ E(2) = c2 /\ E(3) = c3 /\ E(4) = c4
      BY <2>2, <2>3, Zenon
    <2> HIDE DEF E, s, c1, c2, c3, c4
    <2> QED
      BY <2>1, <2>2, <2>4
  <1>2. /\ b \div 16 \in 0 .. 9 /\ b % 16 \in 0 .. 9 /\ 16 * (b \div 16) + (b % 16) = b
        /\ a \div 16 \in 0 .. 9 /\ a % 16 \in 0 .. 9 /\ 16 * (a \div 16) + (a % 16) = a
    BY DecimalDigits
  <1>3. /\ IsDigit(c1) /\ Value(c1) = b \div 16 /\ IsDigit(c2) /\ Value(c2) = b % 16
        /\ IsDigit(c3) /\ Value(c3) = a \div 16 /\ IsDigit(c4) /\ Value(c4) = a % 16
    BY <1>2, DigitComesBack
  <1>4. str2bcd(s, 2) = [m \in 1 .. 2 |-> 16 * N(2 * m - 1) + N(2 * m)]
    BY Zenon DEF str2bcd
  <1> HIDE DEF s, c1, c2, c3, c4
  <1>5. Len(s) = 4 /\ s[1] = c1 /\ s[2] = c2 /\ s[3] = c3 /\ s[4] = c4
    BY <1>1
  <1>6. \A k \in 1 .. 4 : IsDigit(s[k])
    BY <1>3, <1>5
  <1>7. \A i \in 1 .. 4 : N(i) = Value(s[i])
    <2>1. \A i \in 1 .. 4 : i <= Len(s) /\ \A k \in 1 .. i : k \in 1 .. 4
      BY <1>5
    <2> QED
      BY <1>6, <2>1, Zenon
  <1> HIDE DEF N
  <1>8. N(1) = b \div 16 /\ N(2) = b % 16 /\ N(3) = a \div 16 /\ N(4) = a % 16
    BY <1>3, <1>5, <1>7
  <1>9. 16 * N(1) + N(2) = b /\ 16 * N(3) + N(4) = a
    BY <1>2, <1>8, Zenon
  <1>10. [m \in 1 .. 2 |-> 16 * N(2 * m - 1) + N(2 * m)] = <<b, a>>
    BY <1>9
  <1> QED
    BY <1>4, <1>10 DEF s

=============================================================================
