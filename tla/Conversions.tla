----------------------------- MODULE Conversions -----------------------------
(***************************************************************************)
(* The number conversions at the end of src/tcu.c.  The program itself     *)
(* calls str2bcd only, for its version.  Bytes are numbers 0 .. 255,       *)
(* arrays are sequences, characters are their ASCII codes; the numbers are *)
(* not negative and small enough not to overflow an unsigned long.         *)
(***************************************************************************)
EXTENDS Naturals, Sequences

Byte == 0 .. 255

\* convert: every bit inverted.
convert(src) == [i \in DOMAIN src |-> 255 - src[i]]

power(base, times) == base^times

\* HextoDec: the bytes as a number, most significant first.
HextoDec(hex, length) ==
    LET rslt[i \in 0 .. length] ==
            IF i = 0 THEN 0 ELSE rslt[i - 1] + hex[i] * 256^(length - i)
    IN  rslt[length]

\* Mutant: the bytes come out least significant first.
DectoHexReversed(dec, length) ==
    [i \in 1 .. length |-> (dec \div power(256, i - 1)) % 256]

\* DectoHex: the low length bytes of a number, most significant first.
DectoHex(dec, length) ==
    [i \in 1 .. length |-> (dec \div power(256, length - i)) % 256]

\* BCDtoDec: two decimal digits in a byte.
BCDtoDec(bcd, length) ==
    LET dec[i \in 0 .. length] ==
            IF i = 0 THEN 0
            ELSE dec[i - 1]
                 + ((bcd[i] \div 16) * 10 + (bcd[i] % 16))
                   * power(100, length - i)
    IN  dec[length]

\* Mutant: the tens are not shifted.
DectoBCDUnshifted(Dec, length) ==
    [i \in 1 .. length |->
        LET temp == (Dec \div power(100, length - i)) % 100
        IN  (temp \div 10) + (temp % 10)]

\* DectoBCD: the low 2 * length decimal digits of a number.
DectoBCD(Dec, length) ==
    [i \in 1 .. length |->
        LET temp == (Dec \div power(100, length - i)) % 100
        IN  (temp \div 10) * 16 + (temp % 10)]

\* The character bcd2str writes for four bits; above 9 it adds the bits to 'A'
\* without taking the ten away.
Character(bits) == bits + IF bits <= 9 THEN 48 ELSE 65

\* bcd2str: the bytes last to first, in each the high digit first.
bcd2str(inBCD, len) ==
    [j \in 1 .. 2 * len |->
        LET b == inBCD[len - ((j - 1) \div 2)]
        IN  Character(IF j % 2 = 1 THEN b \div 16 ELSE b % 16)]

\* A hexadecimal digit, and its value; anything else ends the string.
IsDigit(c) == c \in 48 .. 57 \/ c \in 65 .. 70 \/ c \in 97 .. 102

\* Mutant: the character is taken for its value.
ValueCharacter(c) == c

Value(c) ==
    CASE c \in 48 .. 57  -> c - 48
      [] c \in 65 .. 70  -> c - 55
      [] c \in 97 .. 102 -> c - 87

\* Mutant: the low digit of a byte is read first.
str2bcdSwapped(pstr, len) ==
    LET Nibble(i) ==
            IF i <= Len(pstr) /\ \A k \in 1 .. i : IsDigit(pstr[k])
            THEN Value(pstr[i]) ELSE 0
    IN  [m \in 1 .. len |-> Nibble(2 * m - 1) + 16 * Nibble(2 * m)]

\* str2bcd: the string's leading digits packed into len bytes, from the left,
\* zero where the string has ended.
str2bcd(pstr, len) ==
    LET Nibble(i) ==
            IF i <= Len(pstr) /\ \A k \in 1 .. i : IsDigit(pstr[k])
            THEN Value(pstr[i]) ELSE 0
    IN  [m \in 1 .. len |-> 16 * Nibble(2 * m - 1) + Nibble(2 * m)]

\* sprintf("%d"): the decimal digits of a number below 10^6 as characters,
\* and the terminating zero.
TenTo == <<1, 10, 100, 1000, 10000, 100000>>

Digits(n) ==
    IF n < 10 THEN 1
    ELSE IF n < 100 THEN 2
    ELSE IF n < 1000 THEN 3
    ELSE IF n < 10000 THEN 4
    ELSE IF n < 100000 THEN 5
    ELSE 6

Printed(n) ==
    [i \in 1 .. Digits(n) + 1 |->
        IF i > Digits(n) THEN 0
        ELSE 48 + ((n \div TenTo[Digits(n) - i + 1]) % 10)]

=============================================================================
