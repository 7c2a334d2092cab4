-------------------------- MODULE PacketData_proofs --------------------------
(***************************************************************************)
(* Proofs about the packets' contents: for every version, port, reading,   *)
(* moment and command.                                                     *)
(***************************************************************************)
EXTENDS PacketData, Conversions_proofs, SequenceTheorems, TLAPS

\* Byte i is zero, but between the fill of packet p and the store after it.
ZeroButIn(i, p) == info[i] # 0 => tx = p /\ step = 2

\* The bytes that acknowledgements and comparisons rely on: the first of the
\* parameters, TRC's port, the heartbeat's status, the status of the stop's
\* acknowledgement and the port of the connection's.
ZerosKept ==
    /\ info[9] = 0
    /\ ZeroButIn(2, "TCP")
    /\ ZeroButIn(22, "THB")
    /\ ZeroButIn(34, "TRST")
    /\ ZeroButIn(35, "TRCT")

\* A comparison whose version stays complete has found the charger's bytes
\* equal as far as it has come.
Judging ==
    steady =>
        /\ rx # NoByte
        /\ Complete(info)
        /\ rx >= 1 => info[Offset.crcv] = 18
        /\ rx >= 2 => info[Offset.crcv + 1] = 16
        /\ rx >= 3 => info[Offset.crcp] # 0

\* A packet is in the frame only when all of its stores are done.
FrameLate ==
    /\ frame # <<>> => step >= 3
    /\ tx = NoPacket => frame = <<>>

Inv ==
    /\ TypeOK
    /\ ZerosKept
    /\ AcksSaySuccess
    /\ FrameLate
    /\ Judging

-----------------------------------------------------------------------------
(* The stores.                                                             *)

\* Store w, the k-th of packet p, keeps byte i zero but for p's own fill, and
\* the store after the fill clears it.
Clears(i, q, p, k, w) ==
    /\ i \in DOMAIN w => w[i] = 0 \/ (p = q /\ k = 1)
    /\ p = q /\ k = 2 => i \in DOMAIN w

\* A store as harmless as the invariant needs it.
Harmless(p, k, w) ==
    /\ \A i \in Memory \cap DOMAIN w : w[i] \in Byte /\ i < 44
    /\ 9 \in DOMAIN w => w[9] = 0
    /\ Clears(2, "TCP", p, k, w)
    /\ Clears(22, "THB", p, k, w)
    /\ Clears(34, "TRST", p, k, w)
    /\ Clears(35, "TRCT", p, k, w)

LEMMA FunctionIsSequence ==
    ASSUME NEW n \in Nat, NEW s \in [1 .. n -> Byte]
    PROVE  /\ s \in Seq(Byte)
           /\ Len(s) = n
  OBVIOUS

\* What At stores.
LEMMA AtStores ==
    ASSUME NEW o \in Nat, NEW n \in Nat, NEW s \in [1 .. n -> Byte]
    PROVE  /\ DOMAIN At(o, s) = o .. o + n - 1
           /\ \A i \in o .. o + n - 1 : At(o, s)[i] = s[i - o + 1]
           /\ \A i \in o .. o + n - 1 : At(o, s)[i] \in Byte
  <1>1. Len(s) = n
    BY FunctionIsSequence
  <1> QED
    BY <1>1 DEF At

\* sprintf prints characters, six at most, and the zero.
LEMMA PrintedIsString ==
    ASSUME NEW n \in Nat
    PROVE  /\ Digits(n) \in 1 .. 6
           /\ Printed(n) \in [1 .. Digits(n) + 1 -> Byte]
  <1>1. Digits(n) \in 1 .. 6
    BY SMT DEF Digits
  <1>2. ASSUME NEW i \in 1 .. Digits(n) + 1, i <= Digits(n)
        PROVE  48 + ((n \div TenTo[Digits(n) - i + 1]) % 10) \in Byte
    <2> DEFINE t == TenTo[Digits(n) - i + 1]
    <2>1. t \in {1, 10, 100, 1000, 10000, 100000}
      BY <1>1, <1>2, SMT DEF TenTo
    <2>2. n \div t \in Nat
      BY <2>1, SMT
    <2>3. \A k \in Nat : k % 10 \in 0 .. 9
      OBVIOUS
    <2> QED
      BY <2>2, <2>3 DEF Byte
  <1> QED
    BY <1>1, <1>2 DEF Printed, Byte

\* Within the documented ranges the energy needs five digits, the minutes four.
LEMMA PrintedLength ==
    ASSUME NEW m \in Readings
    PROVE  /\ m.energy \in Nat /\ Digits(m.energy) <= 5
           /\ m.minutes \in Nat /\ Digits(m.minutes) <= 4
  <1> DEFINE e == m.energy
             t == m.minutes
  <1>2. e \in 0 .. 10000 /\ t \in 0 .. 6000
    BY SMT DEF Readings
  <1> HIDE DEF e, t
  <1>3. e \in Nat /\ Digits(e) <= 5 /\ t \in Nat /\ Digits(t) <= 4
    BY <1>2, SMT DEF Digits
  <1> QED
    BY <1>3 DEF e, t

\* A packed version is two bytes, whatever the string.
LEMMA PackedIsBytes ==
    ASSUME NEW s
    PROVE  str2bcd(s, 2) \in [1 .. 2 -> Byte]
  <1> DEFINE Nibble(i) ==
            IF i <= Len(s) /\ \A k \in 1 .. i : IsDigit(s[k])
            THEN Value(s[i]) ELSE 0
  <1>1. ASSUME NEW c, IsDigit(c) PROVE Value(c) \in 0 .. 15
    BY <1>1 DEF IsDigit, Value
  <1>2. ASSUME NEW i \in Nat \ {0} PROVE Nibble(i) \in 0 .. 15
    <2>1. i \in 1 .. i
      OBVIOUS
    <2> QED
      BY <1>1, <2>1
  <1> HIDE DEF Nibble
  <1>3. ASSUME NEW m \in 1 .. 2
        PROVE  16 * Nibble(2 * m - 1) + Nibble(2 * m) \in Byte
    <2>1. Nibble(2 * m - 1) \in 0 .. 15 /\ Nibble(2 * m) \in 0 .. 15
      <3>1. 2 * m - 1 \in Nat \ {0} /\ 2 * m \in Nat \ {0}
        OBVIOUS
      <3> QED
        BY <1>2, <3>1
    <2> QED
      BY <2>1 DEF Byte
  <1>4. str2bcd(s, 2) = [m \in 1 .. 2 |->
                            16 * Nibble(2 * m - 1) + Nibble(2 * m)]
    BY DEF str2bcd, Nibble
  <1> QED
    BY <1>3, <1>4

LEMMA ClockFits ==
    ASSUME NEW t \in Moments
    PROVE  ClockBytes(t) \in [1 .. 8 -> Byte]
  <1>1. /\ t.sec \in 0 .. 60 /\ t.msec \in 0 .. 999 /\ t.min \in 0 .. 59
        /\ t.hour \in 0 .. 23 /\ t.wday \in 0 .. 6 /\ t.mday \in 1 .. 31
        /\ t.mon \in 0 .. 11 /\ t.year \in 100 .. 355
    BY SMT DEF Moments
  <1>2. \A k \in Nat : k % 256 \in Byte /\ (k \div 256) % 256 \in Byte
    BY SMT DEF Byte
  <1>3. t.sec * 1000 + t.msec \in Nat
    <2> DEFINE a == t.sec
               b == t.msec
    <2>1. a \in 0 .. 60 /\ b \in 0 .. 999
      BY <1>1
    <2> HIDE DEF a, b
    <2>2. a * 1000 + b \in Nat
      BY <2>1
    <2> QED
      BY <2>2 DEF a, b
  <1>4. ASSUME NEW day \in 1 .. 7
        PROVE  day * 32 + t.mday \in Byte
    BY <1>1, SMT DEF Byte
  <1>5. (IF t.wday = 0 THEN 7 ELSE t.wday) \in 1 .. 7
    BY <1>1, SMT
  <1>6. /\ 0 \in Byte /\ t.min \in Byte /\ t.hour \in Byte
        /\ t.mon + 1 \in Byte /\ t.year - 100 \in Byte
    BY <1>1, SMT DEF Byte
  <1> DEFINE mm == t.sec * 1000 + t.msec
             day == IF t.wday = 0 THEN 7 ELSE t.wday
  <1>7. mm % 256 \in Byte /\ (mm \div 256) % 256 \in Byte
    BY <1>2, <1>3
  <1>8. day * 32 + t.mday \in Byte
    BY <1>4, <1>5
  <1>9. ClockBytes(t) = << 0, mm % 256, (mm \div 256) % 256, t.min, t.hour,
                           day * 32 + t.mday, t.mon + 1, t.year - 100 >>
    BY DEF ClockBytes
  <1> HIDE DEF mm, day
  <1> QED
    BY <1>6, <1>7, <1>8, <1>9

\* What store k of packet p may write to n bytes from o on.
Allowed(i, q, p, k, o, n, zero) ==
    /\ o <= i /\ i < o + n => zero \/ (p = q /\ k = 1)
    /\ p = q /\ k = 2 => o <= i /\ i < o + n

\* A store of bytes is harmless when it stays before the charger's answers and
\* keeps the zeros.
LEMMA HarmlessAt ==
    ASSUME NEW p, NEW k \in Nat, NEW o \in Nat, NEW s \in Seq(Byte),
           o + Len(s) <= 44,
           o <= 9 /\ 9 < o + Len(s) => s[9 - o + 1] = 0,
           Allowed(2, "TCP", p, k, o, Len(s), s[2 - o + 1] = 0),
           Allowed(22, "THB", p, k, o, Len(s), s[22 - o + 1] = 0),
           Allowed(34, "TRST", p, k, o, Len(s), s[34 - o + 1] = 0),
           Allowed(35, "TRCT", p, k, o, Len(s), s[35 - o + 1] = 0)
    PROVE  Harmless(p, k, At(o, s))
  <1> DEFINE w == At(o, s)
             n == Len(s)
  <1>0. n \in Nat /\ s \in [1 .. n -> Byte]
    OBVIOUS
  <1>1. /\ DOMAIN w = o .. o + n - 1
        /\ \A i \in o .. o + n - 1 : w[i] = s[i - o + 1] /\ w[i] \in Byte
    BY <1>0, AtStores
  <1>a. o + n <= 44 /\ (o <= 9 /\ 9 < o + n => s[9 - o + 1] = 0)
    OBVIOUS
  <1>b. /\ Allowed(2, "TCP", p, k, o, n, s[2 - o + 1] = 0)
        /\ Allowed(22, "THB", p, k, o, n, s[22 - o + 1] = 0)
        /\ Allowed(34, "TRST", p, k, o, n, s[34 - o + 1] = 0)
        /\ Allowed(35, "TRCT", p, k, o, n, s[35 - o + 1] = 0)
    OBVIOUS
  <1> HIDE DEF w, n
  <1>2. \A i \in Memory \cap DOMAIN w : w[i] \in Byte /\ i < 44
    BY <1>0, <1>1, <1>a
  <1>3. 9 \in DOMAIN w => w[9] = 0
    BY <1>0, <1>1, <1>a
  <1>4. Clears(2, "TCP", p, k, w)
    BY <1>0, <1>1, <1>b DEF Clears, Allowed
  <1>5. Clears(22, "THB", p, k, w)
    BY <1>0, <1>1, <1>b DEF Clears, Allowed
  <1>6. Clears(34, "TRST", p, k, w)
    BY <1>0, <1>1, <1>b DEF Clears, Allowed
  <1>7. Clears(35, "TRCT", p, k, w)
    BY <1>0, <1>1, <1>b DEF Clears, Allowed
  <1>8. Harmless(p, k, w)
    BY <1>2, <1>3, <1>4, <1>5, <1>6, <1>7 DEF Harmless
  <1> QED
    BY <1>8 DEF w

\* A store beside all of these bytes.
Aside(o, n) ==
    /\ o + n <= 44
    /\ \A i \in {2, 9, 22, 34, 35} : i < o \/ o + n <= i

LEMMA HarmlessAside ==
    ASSUME NEW p, NEW k \in Nat, NEW o \in Nat, NEW s \in Seq(Byte),
           Aside(o, Len(s)),
           k # 2 \/ p \notin {"TCP", "THB", "TRST", "TRCT"}
    PROVE  Harmless(p, k, At(o, s))
  <1> DEFINE n == Len(s)
  <1>1. n \in Nat /\ o + n <= 44
    BY DEF Aside
  <1>2. /\ 2 < o \/ o + n <= 2
        /\ 9 < o \/ o + n <= 9
        /\ 22 < o \/ o + n <= 22
        /\ 34 < o \/ o + n <= 34
        /\ 35 < o \/ o + n <= 35
    BY DEF Aside
  <1>3. /\ Allowed(2, "TCP", p, k, o, n, s[2 - o + 1] = 0)
        /\ Allowed(22, "THB", p, k, o, n, s[22 - o + 1] = 0)
        /\ Allowed(34, "TRST", p, k, o, n, s[34 - o + 1] = 0)
        /\ Allowed(35, "TRCT", p, k, o, n, s[35 - o + 1] = 0)
    BY <1>1, <1>2 DEF Allowed
  <1>4. o <= 9 /\ 9 < o + n => s[9 - o + 1] = 0
    BY <1>1, <1>2
  <1> QED
    BY <1>1, <1>3, <1>4, HarmlessAt

\* A fill may write to the bytes of its own packet.
LEMMA HarmlessFill ==
    ASSUME NEW p, NEW o \in Nat, NEW n \in Nat, o + n <= 44,
           9 < o \/ o + n <= 9,
           2 < o \/ o + n <= 2 \/ p = "TCP",
           22 < o \/ o + n <= 22 \/ p = "THB",
           34 < o \/ o + n <= 34 \/ p = "TRST",
           35 < o \/ o + n <= 35 \/ p = "TRCT"
    PROVE  Harmless(p, 1, Fill(o, n))
  <1> DEFINE s == [i \in 1 .. n |-> INIT]
  <1>1. s \in [1 .. n -> Byte]
    BY DEF INIT, Byte
  <1> HIDE DEF s
  <1>2. s \in Seq(Byte) /\ Len(s) = n
    BY <1>1, FunctionIsSequence
  <1> DEFINE k == 1
  <1>k. k \in Nat /\ k = 1
    OBVIOUS
  <1> HIDE DEF k
  <1>3. /\ Allowed(2, "TCP", p, k, o, Len(s), s[2 - o + 1] = 0)
        /\ Allowed(22, "THB", p, k, o, Len(s), s[22 - o + 1] = 0)
        /\ Allowed(34, "TRST", p, k, o, Len(s), s[34 - o + 1] = 0)
        /\ Allowed(35, "TRCT", p, k, o, Len(s), s[35 - o + 1] = 0)
    BY <1>2, <1>k DEF Allowed
  <1>4. Harmless(p, k, At(o, s))
    BY <1>2, <1>3, <1>k, HarmlessAt
  <1> QED
    BY <1>4, <1>k DEF Fill, s

LEMMA OffsetsAre ==
    /\ Offset.tcv = 0 /\ Offset.tcp = 2 /\ Offset.trc = 9
    /\ Offset.tst = 11 /\ Offset.tts = 13 /\ Offset.thb = 21
    /\ Offset.trsf = 29 /\ Offset.trst = 32 /\ Offset.trct = 35
    /\ Offset.crcv = 44 /\ Offset.crcp = 46 /\ Offset.csf = 47
    /\ Offset.cst = 50 /\ Offset.cct = 53
  BY DEF Offset

\* The stores of a version: six of them, all beside.
LEMMA VersionHarmless ==
    /\ Len(Stores("TCV")) = 6
    /\ \A k \in 1 .. 6 : Harmless("TCV", k, Stores("TCV")[k])
  <1>1. Harmless("TCV", 1, Fill(Offset.tcv, 2))
    BY HarmlessFill, OffsetsAre
  <1>2. ASSUME NEW n \in 0 .. 4, NEW k \in 2 .. 6
        PROVE  Harmless("TCV", k, VersionStore(n))
    <2> DEFINE s == str2bcd(SubSeq(Version, 1, n), 2)
    <2>1. s \in [1 .. 2 -> Byte]
      BY PackedIsBytes
    <2> HIDE DEF s
    <2>2. s \in Seq(Byte) /\ Len(s) = 2
      BY <2>1, FunctionIsSequence
    <2> DEFINE o == Offset.tcv
    <2>3. o \in Nat /\ Aside(o, Len(s))
      BY <2>2, OffsetsAre DEF Aside
    <2> HIDE DEF o
    <2>5. k \in Nat
      OBVIOUS
    <2>6. "TCV" \notin {"TCP", "THB", "TRST", "TRCT"}
      OBVIOUS
    <2>4. Harmless("TCV", k, At(o, s))
      BY <2>2, <2>3, <2>5, <2>6, HarmlessAside
    <2> QED
      BY <2>4 DEF VersionStore, s, o
  <1> QED
    BY <1>1, <1>2 DEF Stores

\* Assigning one byte.
LEMMA HarmlessPut ==
    ASSUME NEW p, NEW k \in Nat, NEW o \in Nat, NEW b \in Byte, o < 44,
           o = 9 => b = 0,
           o \in {2, 22, 34, 35} => b = 0,
           k = 2 => /\ p = "TCP" => o = 2
                    /\ p = "TRCT" => o = 35
                    /\ p \notin {"THB", "TRST"}
    PROVE  Harmless(p, k, Put(o, b))
  <1> DEFINE s == <<b>>
  <1>1. s \in Seq(Byte) /\ Len(s) = 1 /\ s[1] = b
    OBVIOUS
  <1> HIDE DEF s
  <1>5. ASSUME NEW i \in {2, 9, 22, 34, 35}, o <= i, i < o + Len(s)
        PROVE  s[i - o + 1] = 0
    <2>1. i = o /\ i - o + 1 = 1
      BY <1>1, <1>5
    <2>2. b = 0
      BY <2>1
    <2> QED
      BY <1>1, <2>1, <2>2
  <1>6. /\ p = "TCP" /\ k = 2 => o <= 2 /\ 2 < o + Len(s)
        /\ ~(p = "THB" /\ k = 2)
        /\ ~(p = "TRST" /\ k = 2)
        /\ p = "TRCT" /\ k = 2 => o <= 35 /\ 35 < o + Len(s)
    BY <1>1
  <1>2. /\ Allowed(2, "TCP", p, k, o, Len(s), s[2 - o + 1] = 0)
        /\ Allowed(22, "THB", p, k, o, Len(s), s[22 - o + 1] = 0)
        /\ Allowed(34, "TRST", p, k, o, Len(s), s[34 - o + 1] = 0)
        /\ Allowed(35, "TRCT", p, k, o, Len(s), s[35 - o + 1] = 0)
    BY <1>5, <1>6 DEF Allowed
  <1>3. o <= 9 /\ 9 < o + Len(s) => s[9 - o + 1] = 0
    BY <1>5
  <1>7. o + Len(s) <= 44
    BY <1>1
  <1>4. Harmless(p, k, At(o, s))
    BY <1>1, <1>2, <1>3, <1>7, HarmlessAt
  <1> QED
    BY <1>4 DEF Put, s

\* The stores of the parameters: the fill, the first byte, the others.
LEMMA ParametersHarmless ==
    /\ Len(ParameterStores) = 8
    /\ \A k \in 1 .. 8 : Harmless("TCP", k, ParameterStores[k])
  <1>1. Harmless("TCP", 1, Fill(2, 7))
    BY HarmlessFill
  <1>5. {0, 1, 49, 50, 51} \subseteq Byte
    BY DEF Byte
  <1>2. Harmless("TCP", 2, Put(2, 0))
    BY <1>5, HarmlessPut
  <1>3. ASSUME NEW k \in 3 .. 8, NEW o \in 3 .. 8, NEW b \in Byte
        PROVE  Harmless("TCP", k, Put(o, b))
    BY HarmlessPut
  <1>4. ParameterStores =
           << Fill(2, 7), Put(2, 0), Put(3, 0), Put(4, 0), Put(5, 1),
              Put(6, 49), Put(7, 50), Put(8, 51) >>
    BY OffsetsAre DEF ParameterStores
  <1>6. /\ Harmless("TCP", 3, Put(3, 0)) /\ Harmless("TCP", 4, Put(4, 0))
        /\ Harmless("TCP", 5, Put(5, 1)) /\ Harmless("TCP", 6, Put(6, 49))
        /\ Harmless("TCP", 7, Put(7, 50)) /\ Harmless("TCP", 8, Put(8, 51))
    BY <1>3, <1>5
  <1> QED
    BY <1>1, <1>2, <1>4, <1>6

\* The heartbeat's: port and status follow the fill, the prints lie behind.
LEMMA HeartbeatHarmless ==
    ASSUME NEW m \in Readings
    PROVE  /\ Len(HeartbeatStores(m)) = 4
           /\ \A k \in 1 .. 4 : Harmless("THB", k, HeartbeatStores(m)[k])
  <1>1. Harmless("THB", 1, Fill(21, 8))
    BY HarmlessFill
  <1>2. Harmless("THB", 2, At(21, <<0, 0>>))
    <2> DEFINE s == <<0, 0>>
               k == 2
    <2>1. s \in Seq(Byte) /\ Len(s) = 2 /\ s[1] = 0 /\ s[2] = 0 /\ k = 2
      BY DEF Byte
    <2> HIDE DEF s, k
    <2> DEFINE o == 21
    <2>5. o \in Nat /\ o = 21
      OBVIOUS
    <2> HIDE DEF o
    <2>4. 22 - o + 1 = 2
      BY <2>5
    <2>2. /\ Allowed(2, "TCP", "THB", k, o, Len(s), s[2 - o + 1] = 0)
          /\ Allowed(22, "THB", "THB", k, o, Len(s), s[22 - o + 1] = 0)
          /\ Allowed(34, "TRST", "THB", k, o, Len(s), s[34 - o + 1] = 0)
          /\ Allowed(35, "TRCT", "THB", k, o, Len(s), s[35 - o + 1] = 0)
      BY <2>1, <2>4, <2>5 DEF Allowed
    <2>6. o + Len(s) <= 44 /\ ~(o <= 9)
      BY <2>1, <2>5
    <2>3. Harmless("THB", k, At(o, s))
      BY <2>1, <2>2, <2>5, <2>6, HarmlessAt
    <2> QED
      BY <2>1, <2>3 DEF s, o
  <1>3. ASSUME NEW k \in 3 .. 4, NEW o \in {24, 26}, NEW n \in Nat,
               o + Digits(n) <= 30
        PROVE  Harmless("THB", k, At(o, Printed(n)))
    <2> DEFINE l == Digits(n) + 1
               s == Printed(n)
    <2>6. Digits(n) \in 1 .. 6 /\ s \in [1 .. l -> Byte]
      BY PrintedIsString
    <2>7. l \in 2 .. 7 /\ o + l <= 31
      BY <1>3, <2>6
    <2>1. l \in 2 .. 7 /\ o + l <= 31 /\ s \in [1 .. l -> Byte]
      BY <2>6, <2>7
    <2> HIDE DEF l, s
    <2>2. s \in Seq(Byte) /\ Len(s) = l
      BY <2>1, FunctionIsSequence
    <2>3. Aside(o, Len(s)) /\ o \in Nat
      BY <2>1, <2>2 DEF Aside
    <2>5. k \in Nat /\ k # 2
      OBVIOUS
    <2>4. Harmless("THB", k, At(o, s))
      BY <2>2, <2>3, <2>5, HarmlessAside
    <2> QED
      BY <2>4 DEF s
  <1> DEFINE e == m.energy
             t == m.minutes
  <1>4. /\ e \in Nat /\ Digits(e) <= 5 /\ Digits(e) \in Nat
        /\ t \in Nat /\ Digits(t) <= 4 /\ Digits(t) \in Nat
    <2>1. e \in Nat /\ Digits(e) <= 5 /\ t \in Nat /\ Digits(t) <= 4
      BY PrintedLength
    <2> HIDE DEF e, t
    <2>2. Digits(e) \in 1 .. 6 /\ Digits(t) \in 1 .. 6
      BY <2>1, PrintedIsString
    <2> QED
      BY <2>1, <2>2
  <1>5. HeartbeatStores(m) =
           << Fill(21, 8), At(21, <<0, 0>>), At(24, Printed(e)),
              At(26, Printed(t)) >>
    BY OffsetsAre DEF HeartbeatStores
  <1> HIDE DEF e, t
  <1>6. Harmless("THB", 3, At(24, Printed(e)))
    BY <1>3, <1>4
  <1>7. Harmless("THB", 4, At(26, Printed(t)))
    BY <1>3, <1>4
  <1> QED
    BY <1>1, <1>2, <1>5, <1>6, <1>7

\* An assignment of a struct beside the bytes.
LEMMA HarmlessBeside ==
    ASSUME NEW p \in {"TRC", "TST", "TTS", "TRSF"}, NEW k \in Nat,
           NEW s \in Seq(Byte),
           NEW o \in {11, 13, 29},
           Len(s) = 2 \/ (o = 13 /\ Len(s) = 8) \/ (o = 29 /\ Len(s) = 3)
    PROVE  Harmless(p, k, At(o, s))
  <1> DEFINE n == Len(s)
  <1>3. n = 2 \/ (o = 13 /\ n = 8) \/ (o = 29 /\ n = 3)
    OBVIOUS
  <1> HIDE DEF n
  <1>4. /\ o \in Nat /\ n \in Nat
        /\ 11 <= o /\ o + n <= 32 /\ (22 < o \/ o + n <= 22)
    BY <1>3
  <1>0. /\ o \in Nat /\ Len(s) \in Nat
        /\ 11 <= o /\ o + Len(s) <= 32 /\ (22 < o \/ o + Len(s) <= 22)
    BY <1>4 DEF n
  <1>1. Aside(o, Len(s)) /\ o \in Nat
    BY <1>0 DEF Aside
  <1>2. p \notin {"TCP", "THB", "TRST", "TRCT"}
    OBVIOUS
  <1> QED
    BY <1>1, <1>2, HarmlessAside

\* The packets of a fill and an assignment.
LEMMA PairHarmless ==
    ASSUME clock \in Moments, NEW p \in {"TRC", "TST", "TTS", "TRSF", "TRST"}
    PROVE  /\ Len(Stores(p)) = 2
           /\ \A k \in 1 .. 2 : Harmless(p, k, Stores(p)[k])
  <1>1. ASSUME NEW q \in {"TRC", "TST"}
        PROVE  Harmless(q, 1, Fill(0, 2))
    BY HarmlessFill
  <1>2. CASE p = "TRC"
    <2> DEFINE s == <<0, 1>>
    <2>1. s \in Seq(Byte) /\ Len(s) = 2 /\ s[1] = 0
      BY DEF Byte
    <2>3. Stores("TRC") = << Fill(0, 2), At(9, s) >>
      BY OffsetsAre DEF Stores
    <2> HIDE DEF s
    <2> DEFINE o == 9
               k == 2
    <2>5. o \in Nat /\ o = 9 /\ k = 2
      OBVIOUS
    <2> HIDE DEF o, k
    <2>4. /\ Allowed(2, "TCP", "TRC", k, o, Len(s), s[2 - o + 1] = 0)
          /\ Allowed(22, "THB", "TRC", k, o, Len(s), s[22 - o + 1] = 0)
          /\ Allowed(34, "TRST", "TRC", k, o, Len(s), s[34 - o + 1] = 0)
          /\ Allowed(35, "TRCT", "TRC", k, o, Len(s), s[35 - o + 1] = 0)
      BY <2>1, <2>5 DEF Allowed
    <2>7. 9 - o + 1 = 1 /\ o + Len(s) <= 44
      BY <2>1, <2>5
    <2>6. o + Len(s) <= 44 /\ s[9 - o + 1] = 0
      BY <2>1, <2>7
    <2>2. Harmless("TRC", k, At(o, s))
      BY <2>1, <2>4, <2>5, <2>6, HarmlessAt
    <2> QED
      BY <1>1, <1>2, <2>2, <2>3, <2>5
  <1>3. CASE p = "TST"
    <2> DEFINE s == <<0, 1>>
    <2>1. s \in Seq(Byte) /\ Len(s) = 2
      BY DEF Byte
    <2>3. Stores("TST") = << Fill(0, 2), At(11, s) >>
      BY OffsetsAre DEF Stores
    <2> HIDE DEF s
    <2>2. Harmless("TST", 2, At(11, s))
      BY <2>1, HarmlessBeside
    <2> QED
      BY <1>1, <1>3, <2>2, <2>3
  <1>4. CASE p = "TTS"
    <2> DEFINE s == ClockBytes(clock)
    <2>1. s \in [1 .. 8 -> Byte]
      BY ClockFits
    <2>2. Stores("TTS") = << Fill(13, 8), At(13, s) >>
      BY OffsetsAre DEF Stores
    <2> HIDE DEF s
    <2>5. s \in Seq(Byte) /\ Len(s) = 8
      BY <2>1, FunctionIsSequence
    <2>3. Harmless("TTS", 2, At(13, s))
      BY <2>5, HarmlessBeside
    <2>4. Harmless("TTS", 1, Fill(13, 8))
      BY HarmlessFill
    <2> QED
      BY <1>4, <2>2, <2>3, <2>4
  <1>5. CASE p = "TRSF"
    <2> DEFINE s == <<0, 2, 0>>
    <2>1. s \in Seq(Byte) /\ Len(s) = 3
      BY DEF Byte
    <2>3. Stores("TRSF") = << Fill(29, 3), At(29, s) >>
      BY OffsetsAre DEF Stores
    <2> HIDE DEF s
    <2>2. Harmless("TRSF", 2, At(29, s))
      BY <2>1, HarmlessBeside
    <2>4. Harmless("TRSF", 1, Fill(29, 3))
      BY HarmlessFill
    <2> QED
      BY <1>5, <2>2, <2>3, <2>4
  <1>6. CASE p = "TRST"
    <2> DEFINE s == <<0, 1, 0>>
               k == 2
    <2>1. s \in Seq(Byte) /\ Len(s) = 3 /\ s[3] = 0 /\ k = 2
      BY DEF Byte
    <2>3. Stores("TRST") = << Fill(32, 3), At(32, s) >>
      BY OffsetsAre DEF Stores
    <2> DEFINE o == 32
    <2>6. o \in Nat /\ o = 32
      OBVIOUS
    <2> HIDE DEF s, k, o
    <2>7. 34 - o + 1 = 3 /\ o + Len(s) <= 44 /\ ~(o <= 9)
      BY <2>1, <2>6
    <2>5. /\ Allowed(2, "TCP", "TRST", k, o, Len(s), s[2 - o + 1] = 0)
          /\ Allowed(22, "THB", "TRST", k, o, Len(s), s[22 - o + 1] = 0)
          /\ Allowed(34, "TRST", "TRST", k, o, Len(s), s[34 - o + 1] = 0)
          /\ Allowed(35, "TRCT", "TRST", k, o, Len(s), s[35 - o + 1] = 0)
      BY <2>1, <2>6, <2>7 DEF Allowed
    <2>2. Harmless("TRST", k, At(o, s))
      BY <2>1, <2>5, <2>6, <2>7, HarmlessAt
    <2>4. Harmless("TRST", 1, Fill(32, 3))
      BY HarmlessFill
    <2> QED
      BY <1>6, <2>1, <2>2, <2>3, <2>4, <2>6
  <1> QED
    BY <1>2, <1>3, <1>4, <1>5, <1>6

\* The acknowledgement of the connection: fill, port, status.
LEMMA AckHarmless ==
    /\ Len(Stores("TRCT")) = 3
    /\ \A k \in 1 .. 3 : Harmless("TRCT", k, Stores("TRCT")[k])
  <1>1. Harmless("TRCT", 1, Fill(35, 2))
    BY HarmlessFill
  <1>2. 0 \in Byte
    BY DEF Byte
  <1>3. Harmless("TRCT", 2, Put(35, 0))
    BY <1>2, HarmlessPut
  <1>4. Harmless("TRCT", 3, Put(36, 0))
    BY <1>2, HarmlessPut
  <1>5. Stores("TRCT") = << Fill(35, 2), Put(35, 0), Put(36, 0) >>
    BY OffsetsAre DEF Stores
  <1> QED
    BY <1>1, <1>3, <1>4, <1>5

\* Every store of every packet is harmless.
LEMMA StoresAreHarmless ==
    ASSUME TypeOK, tx \in Packets
    PROVE  /\ Len(Stores(tx)) \in 2 .. 8
           /\ \A k \in 1 .. Len(Stores(tx)) : Harmless(tx, k, Stores(tx)[k])
  <1>1. meter \in Readings /\ clock \in Moments
    BY Zenon DEF TypeOK
  <1>2. tx \in {"TCV", "TCP", "TRC", "TST", "TTS", "THB", "TRSF", "TRST", "TRCT"}
    BY DEF Packets, StageOf
  <1>3. CASE tx = "TCV"
    BY <1>3, VersionHarmless
  <1>4. CASE tx = "TCP"
    <2>1. Stores("TCP") = ParameterStores
      BY DEF Stores
    <2> QED
      BY <1>4, <2>1, ParametersHarmless
  <1>5. CASE tx = "THB"
    <2>1. Stores("THB") = HeartbeatStores(meter)
      BY DEF Stores
    <2> QED
      BY <1>1, <1>5, <2>1, HeartbeatHarmless
  <1>6. CASE tx = "TRCT"
    BY <1>6, AckHarmless
  <1>7. CASE tx \in {"TRC", "TST", "TTS", "TRSF", "TRST"}
    <2>1. PICK p \in {"TRC", "TST", "TTS", "TRSF", "TRST"} : p = tx
      BY <1>7
    <2> QED
      BY <1>1, <2>1, PairHarmless
  <1> QED
    BY <1>2, <1>3, <1>4, <1>5, <1>6, <1>7

-----------------------------------------------------------------------------
(* The invariant.                                                          *)

LEMMA PacketTables ==
    /\ \A p \in Packets : Length[p] \in 2 .. 8
    /\ \A p \in Packets : Source[p] \in 0 .. 35
    /\ \A p \in Packets, i \in 1 .. 8 :
          i <= Length[p] => Source[p] + i - 1 \in 0 .. 37 /\ Source[p] + i - 1 \in Memory
    /\ NoPacket \notin Packets
  BY DEF Packets, StageOf, Length, Source, Offset, Memory, NoPacket

LEMMA PhaseTables ==
    /\ \A f \in Answers : Answer[f].next \in Phases
    /\ \A p \in {"TRCT", "TRSF"} : AfterSent(p) \in Phases
    /\ \A c \in {1, 2, 3, 4, 6} : CommandStage(c) \in Phases
    /\ {"INVALID", "CHECKVER", "STOP_END", "TIMEOUT"} \subseteq Phases
  <1>1. \A f \in Answers : Answer[f].next \in Phases
    BY DEF Answers, Answer, Phases
  <1>2. AfterSent("TRCT") \in Phases /\ AfterSent("TRSF") \in Phases
    BY DEF AfterSent, Phases
  <1>3. ASSUME NEW c \in {1, 2, 3, 4, 6} PROVE CommandStage(c) \in Phases
    <2>1. CASE c = 1
      BY <2>1 DEF CommandStage, Phases
    <2>2. CASE c = 2
      BY <2>2 DEF CommandStage, Phases
    <2>3. CASE c = 3
      BY <2>3 DEF CommandStage, Phases
    <2>4. CASE c = 4
      BY <2>4 DEF CommandStage, Phases
    <2>5. CASE c = 6
      BY <2>5 DEF CommandStage, Phases
    <2> QED
      BY <2>1, <2>2, <2>3, <2>4, <2>5
  <1>4. {"INVALID", "CHECKVER", "STOP_END", "TIMEOUT"} \subseteq Phases
    BY DEF Phases
  <1> QED
    BY <1>1, <1>2, <1>3, <1>4

LEMMA InitInv == Init => Inv
  <1> SUFFICES ASSUME Init PROVE Inv
    OBVIOUS
  <1>1. meter \in Readings
    BY SMT DEF Init, Readings
  <1>2. clock \in Moments
    BY SMT DEF Init, Moments
  <1>3. TypeOK
    <2>1. info \in [Memory -> Byte]
      BY DEF Init, Byte
    <2>2. tcu_stage \in Phases /\ tx \in Packets \cup {NoPacket}
      BY DEF Init, Phases
    <2>3. step \in 0 .. 9 /\ rx \in 0 .. NoByte
      BY DEF Init, NoByte
    <2>4. frame \in Seq(Byte)
      BY DEF Init
    <2>5. running \in BOOLEAN /\ steady \in BOOLEAN
      BY DEF Init
    <2> QED
      BY <1>1, <1>2, <2>1, <2>2, <2>3, <2>4, <2>5, Zenon DEF TypeOK
  <1>4. ZerosKept
    BY DEF Init, ZerosKept, ZeroButIn, Memory
  <1>5. AcksSaySuccess /\ FrameLate /\ Judging
    BY DEF Init, AcksSaySuccess, FrameLate, Judging
  <1> QED
    BY <1>3, <1>4, <1>5 DEF Inv

\* A byte that store k of packet p may fill, and the store after it clears.
LEMMA ZeroStored ==
    ASSUME NEW mem \in [Memory -> Byte], NEW i \in Memory, NEW q, NEW p,
           NEW k \in Nat, NEW w, Clears(i, q, p, k, w),
           mem[i] # 0 => p = q /\ k = 2
    PROVE  Stored(mem, w)[i] # 0 => p = q /\ k + 1 = 2
  <1>1. Stored(mem, w)[i] = IF i \in DOMAIN w THEN w[i] ELSE mem[i]
    BY DEF Stored
  <1>2. CASE i \in DOMAIN w
    BY <1>1, <1>2 DEF Clears
  <1>3. CASE i \notin DOMAIN w
    BY <1>1, <1>3 DEF Clears
  <1> QED
    BY <1>2, <1>3

\* A store keeps the memory's type and the charger's answers.
LEMMA HarmlessStored ==
    ASSUME NEW mem \in [Memory -> Byte], NEW p, NEW k, NEW w,
           Harmless(p, k, w)
    PROVE  /\ Stored(mem, w) \in [Memory -> Byte]
           /\ mem[9] = 0 => Stored(mem, w)[9] = 0
           /\ Stored(mem, w)[44] = mem[44]
           /\ Stored(mem, w)[45] = mem[45]
           /\ Stored(mem, w)[46] = mem[46]
  <1>1. {9, 44, 45, 46} \subseteq Memory
    BY DEF Memory
  <1>2. ASSUME NEW i \in Memory
        PROVE  Stored(mem, w)[i] = IF i \in DOMAIN w THEN w[i] ELSE mem[i]
    BY DEF Stored
  <1>3. ASSUME NEW i \in Memory PROVE Stored(mem, w)[i] \in Byte
    BY <1>2 DEF Harmless
  <1>4. Stored(mem, w) \in [Memory -> Byte]
    BY <1>3 DEF Stored
  <1>5. 44 \notin DOMAIN w /\ 45 \notin DOMAIN w /\ 46 \notin DOMAIN w
    BY <1>1 DEF Harmless
  <1> QED
    BY <1>1, <1>2, <1>4, <1>5 DEF Harmless

\* Storing the charger's bytes touches nothing before them.
LEMMA AnswerStored ==
    ASSUME NEW mem \in [Memory -> Byte], NEW o \in 44 .. 53,
           NEW s \in Seq(Byte), o + Len(s) <= 54
    PROVE  /\ Stored(mem, At(o, s)) \in [Memory -> Byte]
           /\ \A i \in 0 .. 43 : Stored(mem, At(o, s))[i] = mem[i]
  <1> DEFINE n == Len(s)
  <1>1. n \in Nat /\ s \in [1 .. n -> Byte]
    OBVIOUS
  <1> HIDE DEF n
  <1>3. o \in Nat
    OBVIOUS
  <1>4. /\ DOMAIN At(o, s) = o .. o + n - 1
        /\ \A i \in o .. o + n - 1 : At(o, s)[i] \in Byte
    BY <1>1, <1>3, AtStores
  <1>5. ASSUME NEW i \in Memory
        PROVE  Stored(mem, At(o, s))[i] =
                 IF i \in DOMAIN At(o, s) THEN At(o, s)[i] ELSE mem[i]
    BY DEF Stored
  <1>6. Stored(mem, At(o, s)) \in [Memory -> Byte]
    BY <1>4, <1>5 DEF Stored
  <1>7. 0 .. 43 \subseteq Memory
    BY DEF Memory
  <1>8. \A i \in 0 .. 43 : i \notin DOMAIN At(o, s)
    BY <1>1, <1>4
  <1> QED
    BY <1>5, <1>6, <1>7, <1>8

\* Steps that leave the memory, the frame and the comparison alone.
LEMMA QuietStep ==
    ASSUME Inv, tcu_stage' \in Phases, running' \in BOOLEAN,
           UNCHANGED <<info, writeThread, readThread>>
    PROVE  Inv'
  <1>1. /\ info' = info /\ tx' = tx /\ step' = step /\ frame' = frame
        /\ meter' = meter /\ clock' = clock /\ rx' = rx /\ steady' = steady
    BY DEF writeThread, readThread
  <1>2. TypeOK'
    BY <1>1, Zenon DEF Inv, TypeOK, NoByte, Memory
  <1>3. ZerosKept' /\ AcksSaySuccess' /\ FrameLate'
    BY <1>1, Zenon DEF Inv, ZerosKept, ZeroButIn, AcksSaySuccess, FrameLate
  <1>4. Judging'
    BY <1>1, Zenon DEF Inv, Judging, Complete
  <1> QED
    BY <1>2, <1>3, <1>4, Zenon DEF Inv

\* Between packets, and when all stores are done, the bytes are zero.
LEMMA ZerosOutside ==
    ASSUME Inv, tx = NoPacket \/ step >= 3
    PROVE  /\ info[9] = 0 /\ info[2] = 0 /\ info[22] = 0
           /\ info[34] = 0 /\ info[35] = 0
  <1>1. step \in 0 .. 9
    BY Zenon DEF Inv, TypeOK
  <1>2. tx \notin {"TCP", "THB", "TRST", "TRCT"} \/ step # 2
    BY <1>1 DEF NoPacket
  <1> QED
    BY <1>2 DEF Inv, ZerosKept, ZeroButIn

LEMMA BeginInv ==
    ASSUME Inv, NEW p \in Packets, Begin(p)
    PROVE  Inv'
  <1>1. /\ info' = info /\ frame' = frame /\ rx' = rx /\ steady' = steady
        /\ tcu_stage' = tcu_stage /\ running' = running
        /\ tx = NoPacket /\ tx' = p /\ step' = 1
    BY DEF Begin, readThread
  <1>2. meter' \in Readings
    BY InputsAssumption, Zenon DEF Begin, Inv, TypeOK
  <1>3. clock' \in Moments
    BY InputsAssumption, Zenon DEF Begin, Inv, TypeOK
  <1>4. step' \in 0 .. 9
    BY <1>1
  <1>5. TypeOK'
    BY <1>1, <1>2, <1>3, <1>4, Zenon DEF Inv, TypeOK, NoByte, Memory
  <1>6. frame' = <<>>
    BY <1>1, Zenon DEF Inv, FrameLate
  <1>7. AcksSaySuccess' /\ FrameLate'
    BY <1>6 DEF AcksSaySuccess, FrameLate
  <1>8. ZerosKept'
    BY <1>1, ZerosOutside DEF ZerosKept, ZeroButIn
  <1>9. Judging'
    BY <1>1, Zenon DEF Inv, Judging, Complete
  <1> QED
    BY <1>5, <1>7, <1>8, <1>9, Zenon DEF Inv

LEMMA StoreInv ==
    ASSUME Inv, Store
    PROVE  Inv'
  <1>1. /\ tx' = tx /\ frame' = frame /\ rx' = rx
        /\ tcu_stage' = tcu_stage /\ running' = running
        /\ meter' = meter /\ clock' = clock /\ step' = step + 1
        /\ info' = Stored(info, Stores(tx)[step])
        /\ steady' = (steady /\ Complete(info'))
        /\ tx # NoPacket /\ step \in 1 .. Len(Stores(tx))
    BY Zenon DEF Store
  <1>2. TypeOK /\ tx \in Packets
    BY <1>1, Zenon DEF Inv, TypeOK
  <1> DEFINE w == Stores(tx)[step]
  <1>3. /\ Len(Stores(tx)) \in 2 .. 8
        /\ Harmless(tx, step, w)
    BY <1>1, <1>2, StoresAreHarmless, Zenon
  <1>4. step \in Nat /\ step' \in 0 .. 9
    BY <1>1, <1>3
  <1>5. info \in [Memory -> Byte]
    BY Zenon DEF Inv, TypeOK
  <1>a. info' = Stored(info, w)
    BY <1>1
  <1> HIDE DEF w
  <1>6. /\ info' \in [Memory -> Byte]
        /\ info[9] = 0 => info'[9] = 0
        /\ info'[44] = info[44] /\ info'[45] = info[45]
        /\ info'[46] = info[46]
    BY <1>a, <1>3, <1>5, HarmlessStored
  <1>7. TypeOK'
    <2>1. steady' \in BOOLEAN
      BY <1>1, Zenon
    <2> QED
      BY <1>1, <1>2, <1>4, <1>6, <2>1, Zenon DEF TypeOK, NoByte, Memory
  <1>8. ZerosKept'
    <2>1. ASSUME NEW i \in Memory, NEW q, ZeroButIn(i, q),
                 Clears(i, q, tx, step, w)
          PROVE  ZeroButIn(i, q)'
      <3>1. info[i] # 0 => tx = q /\ step = 2
        BY <2>1 DEF ZeroButIn
      <3>2. Stored(info, w)[i] # 0 => tx = q /\ step + 1 = 2
        BY <1>4, <1>5, <2>1, <3>1, ZeroStored
      <3> QED
        BY <1>1, <1>a, <3>2 DEF ZeroButIn
    <2>2. /\ Clears(2, "TCP", tx, step, w) /\ Clears(22, "THB", tx, step, w)
          /\ Clears(34, "TRST", tx, step, w) /\ Clears(35, "TRCT", tx, step, w)
      BY <1>3 DEF Harmless
    <2>3. {2, 22, 34, 35} \subseteq Memory
      BY DEF Memory
    <2>4. /\ ZeroButIn(2, "TCP") /\ ZeroButIn(22, "THB")
          /\ ZeroButIn(34, "TRST") /\ ZeroButIn(35, "TRCT") /\ info[9] = 0
      BY Zenon DEF Inv, ZerosKept
    <2>5. /\ ZeroButIn(2, "TCP")' /\ ZeroButIn(22, "THB")'
          /\ ZeroButIn(34, "TRST")' /\ ZeroButIn(35, "TRCT")'
      <3>1. 2 \in Memory /\ 22 \in Memory /\ 34 \in Memory /\ 35 \in Memory
        BY <2>3
      <3> QED
        BY <2>1, <2>2, <2>4, <3>1, Zenon
    <2> QED
      BY <1>6, <2>4, <2>5, Zenon DEF ZerosKept
  <1>9. AcksSaySuccess' /\ FrameLate'
    <2>1. FrameLate /\ step \in 0 .. 9
      BY Zenon DEF Inv, TypeOK
    <2>2. FrameLate'
      BY <1>1, <2>1 DEF FrameLate
    <2> QED
      BY <1>1, <2>2, Zenon DEF Inv, AcksSaySuccess
  <1>10. Judging'
    <2>1. Offset.crcv = 44 /\ Offset.crcv + 1 = 45 /\ Offset.crcp = 46
      BY DEF Offset
    <2>2. steady' => steady /\ Complete(info')
      BY <1>1, Zenon
    <2>3. steady => /\ rx # NoByte
                    /\ rx >= 1 => info[44] = 18
                    /\ rx >= 2 => info[45] = 16
                    /\ rx >= 3 => info[46] # 0
      BY <2>1 DEF Inv, Judging
    <2>4. steady' => /\ rx' # NoByte
                     /\ Complete(info')
                     /\ rx' >= 1 => info'[44] = 18
                     /\ rx' >= 2 => info'[45] = 16
                     /\ rx' >= 3 => info'[46] # 0
      BY <1>1, <1>6, <2>2, <2>3, Zenon
    <2> QED
      BY <2>1, <2>4 DEF Judging, NoByte, Complete
  <1> QED
    BY <1>7, <1>8, <1>9, <1>10, Zenon DEF Inv

LEMMA CopyInv ==
    ASSUME Inv, Copy
    PROVE  Inv'
  <1>1. /\ tx' = tx /\ step' = step /\ rx' = rx /\ steady' = steady
        /\ tcu_stage' = tcu_stage /\ running' = running /\ info' = info
        /\ meter' = meter /\ clock' = clock /\ tx # NoPacket
        /\ step = Len(Stores(tx)) + 1
        /\ frame' = [i \in 1 .. Length[tx] |-> info[Source[tx] + i - 1]]
    BY Zenon DEF Copy, readThread
  <1>2. TypeOK /\ tx \in Packets
    BY <1>1, Zenon DEF Inv, TypeOK
  <1>9. step >= 3
    <2>1. Len(Stores(tx)) \in 2 .. 8
      BY <1>2, StoresAreHarmless
    <2> QED
      BY <1>1, <2>1
  <1>3. Length[tx] \in 2 .. 8
    BY <1>2, PacketTables, Zenon
  <1>4. ASSUME NEW i \in 1 .. Length[tx]
        PROVE  info[Source[tx] + i - 1] \in Byte
    <2>1. i \in 1 .. 8 /\ i <= Length[tx]
      BY <1>3
    <2>2. Source[tx] + i - 1 \in Memory
      BY <1>2, <2>1, PacketTables, Zenon
    <2> QED
      BY <1>2, <2>2 DEF TypeOK
  <1>5. frame' \in Seq(Byte)
    <2>1. frame' \in [1 .. Length[tx] -> Byte]
      BY <1>1, <1>4, Zenon
    <2>2. Length[tx] \in Nat
      BY <1>3
    <2> QED
      BY <2>1, <2>2, FunctionIsSequence
  <1>6. TypeOK'
    BY <1>1, <1>2, <1>5, Zenon DEF TypeOK, NoByte, Memory
  <1>7. AcksSaySuccess'
    <2>1. info[22] = 0 /\ info[34] = 0
      BY <1>9, ZerosOutside
    <2>2. ASSUME tx = "TRCT" PROVE frame'[2] = 0
      <3>1. Length[tx] = 2 /\ Source[tx] = 21
        BY <2>2 DEF Length, Source, Offset
      <3> QED
        BY <1>1, <2>1, <3>1
    <2>4. ASSUME tx = "TRST" PROVE frame'[3] = 0
      <3>1. Length[tx] = 3 /\ Source[tx] = 32
        BY <2>4 DEF Length, Source, Offset
      <3> QED
        BY <1>1, <2>1, <3>1
    <2> QED
      BY <1>1, <2>2, <2>4 DEF AcksSaySuccess
  <1>8. ZerosKept' /\ Judging'
    BY <1>1, Zenon DEF Inv, ZerosKept, ZeroButIn, Judging, Complete
  <1>10. FrameLate'
    BY <1>1, <1>9, Zenon DEF FrameLate
  <1> QED
    BY <1>6, <1>7, <1>8, <1>10, Zenon DEF Inv

LEMMA ReleaseInv ==
    ASSUME Inv, Release, tcu_stage' \in Phases
    PROVE  Inv'
  <1>1. /\ tx' = NoPacket /\ step' = 0 /\ frame' = <<>> /\ frame # <<>>
        /\ running' = running /\ info' = info /\ meter' = meter
        /\ clock' = clock /\ rx' = rx /\ steady' = steady
    BY DEF Release, readThread
  <1>2. step' \in 0 .. 9 /\ frame' \in Seq(Byte)
    BY <1>1
  <1>3. TypeOK'
    BY <1>1, <1>2, Zenon DEF Inv, TypeOK, NoByte, Memory
  <1>4. AcksSaySuccess' /\ FrameLate'
    BY <1>1 DEF AcksSaySuccess, FrameLate
  <1>5. ZerosKept'
    <2>1. step >= 3
      BY <1>1, Zenon DEF Inv, FrameLate
    <2> QED
      BY <1>1, <2>1, ZerosOutside DEF ZerosKept, ZeroButIn
  <1>6. Judging'
    BY <1>1, Zenon DEF Inv, Judging, Complete
  <1> QED
    BY <1>3, <1>4, <1>5, <1>6, Zenon DEF Inv

\* The answers do not touch the bytes that stay zero.
LEMMA AnswersAreElsewhere ==
    ASSUME ZerosKept, \A i \in 0 .. 43 : info'[i] = info[i],
           tx' = tx, step' = step
    PROVE  ZerosKept'
  <1>1. /\ info'[2] = info[2] /\ info'[9] = info[9] /\ info'[22] = info[22]
        /\ info'[34] = info[34] /\ info'[35] = info[35]
    OBVIOUS
  <1> QED
    BY <1>1, Zenon DEF ZerosKept, ZeroButIn

LEMMA VersionTakenInv ==
    ASSUME Inv, NEW v \in Versions, VersionTaken(v)
    PROVE  Inv'
  <1>1. /\ tx' = tx /\ step' = step /\ frame' = frame
        /\ tcu_stage' = tcu_stage /\ running' = running
        /\ meter' = meter /\ clock' = clock
        /\ info' = Stored(info, At(Offset.crcv, <<v[1], v[2]>>))
        /\ rx' = 0 /\ steady' = Complete(info)
    BY DEF VersionTaken, writeThread
  <1>2. Offset.crcv \in 44 .. 53 /\ Offset.crcv + 2 <= 54 /\ Offset.tcv = 0
    BY DEF Offset
  <1> DEFINE s == <<v[1], v[2]>>
             o == Offset.crcv
  <1>3. s \in Seq(Byte) /\ Len(s) = 2
    <2>1. v \in Byte \X Byte
      BY InputsAssumption
    <2>2. v[1] \in Byte /\ v[2] \in Byte
      BY <2>1
    <2> QED
      BY <2>2
  <1>4. info \in [Memory -> Byte]
    BY Zenon DEF Inv, TypeOK
  <1>a. info' = Stored(info, At(o, s)) /\ o \in 44 .. 53 /\ o + Len(s) <= 54
    BY <1>1, <1>2, <1>3
  <1> HIDE DEF s, o
  <1>5. /\ info' \in [Memory -> Byte]
        /\ \A i \in 0 .. 43 : info'[i] = info[i]
    BY <1>a, <1>3, <1>4, AnswerStored
  <1>6. TypeOK'
    <2>1. rx' \in 0 .. NoByte /\ steady' \in BOOLEAN
      BY <1>1 DEF NoByte, Complete
    <2> QED
      BY <1>1, <1>5, <2>1, Zenon DEF Inv, TypeOK, NoByte, Memory
  <1>7. ZerosKept'
    BY <1>1, <1>5, AnswersAreElsewhere DEF Inv
  <1>8. Judging'
    <2>1. info'[0] = info[0] /\ info'[1] = info[1]
      BY <1>5
    <2>2. Complete(info') = Complete(info)
      BY <1>2, <2>1 DEF Complete
    <2>3. rx' # NoByte /\ ~(rx' >= 1) /\ ~(rx' >= 2) /\ ~(rx' >= 3)
      BY <1>1 DEF NoByte
    <2> QED
      BY <1>1, <2>2, <2>3, Zenon DEF Judging
  <1>9. AcksSaySuccess' /\ FrameLate'
    BY <1>1, Zenon DEF Inv, AcksSaySuccess, FrameLate
  <1> QED
    BY <1>6, <1>7, <1>8, <1>9, Zenon DEF Inv

\* The port of TRC ends the unit's string at the latest.
LEMMA ComparisonEnds ==
    ASSUME Inv, rx # NoByte, Ours # 0
    PROVE  rx \in 0 .. 8
  <1>1. rx \in 0 .. 9
    BY DEF Inv, TypeOK, NoByte
  <1>2. info[9] = 0
    BY DEF Inv, ZerosKept
  <1> QED
    BY <1>1, <1>2 DEF Ours, Offset

LEMMA VersionSameInv ==
    ASSUME Inv, VersionSame
    PROVE  Inv'
  <1>1. /\ tx' = tx /\ step' = step /\ frame' = frame
        /\ tcu_stage' = tcu_stage /\ running' = running
        /\ meter' = meter /\ clock' = clock
        /\ info' = info /\ steady' = steady /\ rx' = rx + 1
        /\ rx # NoByte /\ Ours = Theirs /\ Ours # 0
    BY DEF VersionSame, VersionEnds, writeThread
  <1>2. rx \in 0 .. 8
    BY <1>1, ComparisonEnds
  <1>3. TypeOK'
    <2>1. rx' \in 0 .. NoByte
      BY <1>1, <1>2 DEF NoByte
    <2> QED
      BY <1>1, <2>1, Zenon DEF Inv, TypeOK, NoByte, Memory
  <1>4. Judging'
    <2> SUFFICES ASSUME steady'
                 PROVE  Judging'
      BY DEF Judging
    <2>1. /\ info[0] = 18 /\ info[1] = 16
          /\ rx >= 1 => info[44] = 18
          /\ rx >= 2 => info[45] = 16
          /\ rx >= 3 => info[46] # 0
      BY <1>1 DEF Inv, Judging, Complete, VersionBytes, Offset
    <2>2. Complete(info')
      BY <1>1 DEF Inv, Judging, Complete
    <2>3. info[rx] = info[44 + rx] /\ info[rx] # 0
      BY <1>1, <1>2 DEF Ours, Theirs, Offset
    <2>7. /\ rx = 0 => info[44] = 18
          /\ rx = 1 => info[45] = 16
          /\ rx = 2 => info[46] # 0
      BY <2>1, <2>3
    <2>4. /\ rx' >= 1 => info[44] = 18
          /\ rx' >= 2 => info[45] = 16
          /\ rx' >= 3 => info[46] # 0
      BY <1>1, <1>2, <2>1, <2>7
    <2>5. rx' # NoByte
      BY <1>1, <1>2 DEF NoByte
    <2>6. Offset.crcv = 44 /\ Offset.crcv + 1 = 45 /\ Offset.crcp = 46
      BY DEF Offset
    <2> QED
      BY <1>1, <2>2, <2>4, <2>5, <2>6 DEF Judging, NoByte, Complete
  <1>5. ZerosKept' /\ AcksSaySuccess' /\ FrameLate'
    BY <1>1, Zenon DEF Inv, ZerosKept, ZeroButIn, AcksSaySuccess, FrameLate
  <1> QED
    BY <1>3, <1>4, <1>5, Zenon DEF Inv

LEMMA VerdictInv ==
    ASSUME Inv, VersionAccepted \/ VersionRefused
    PROVE  Inv'
  <1>1. /\ tx' = tx /\ step' = step /\ frame' = frame /\ running' = running
        /\ meter' = meter /\ clock' = clock
        /\ info' = info /\ steady' = FALSE /\ rx' = NoByte
    BY DEF VersionAccepted, VersionRefused, writeThread
  <1>2. tcu_stage' \in Phases
    <2>1. CASE VersionAccepted
      BY <2>1, PhaseTables DEF VersionAccepted, Answers, Answer
    <2>2. CASE VersionRefused
      BY <2>2 DEF VersionRefused, Inv, TypeOK
    <2> QED
      BY <2>1, <2>2
  <1>3. rx' \in 0 .. NoByte
    BY <1>1 DEF NoByte
  <1>4. TypeOK'
    BY <1>1, <1>2, <1>3, Zenon DEF Inv, TypeOK, NoByte, Memory
  <1>5. ZerosKept' /\ AcksSaySuccess' /\ FrameLate'
    BY <1>1, Zenon DEF Inv, ZerosKept, ZeroButIn, AcksSaySuccess, FrameLate
  <1>6. Judging'
    BY <1>1 DEF Judging
  <1> QED
    BY <1>4, <1>5, <1>6, Zenon DEF Inv

\* Storing an answer when no version is being compared.
LEMMA ReportedInv ==
    ASSUME Inv, NEW o \in 44 .. 53, NEW s \in Seq(Byte), o + Len(s) <= 54,
           Reported(o, s), tcu_stage' \in Phases
    PROVE  Inv'
  <1>1. /\ tx' = tx /\ step' = step /\ frame' = frame
        /\ running' = running /\ rx' = rx /\ steady' = steady
        /\ meter' = meter /\ clock' = clock
        /\ info' = Stored(info, At(o, s))
        /\ rx = NoByte
    BY DEF Reported, writeThread, readThread
  <1>2. info \in [Memory -> Byte]
    BY Zenon DEF Inv, TypeOK
  <1>3. /\ info' \in [Memory -> Byte]
        /\ \A i \in 0 .. 43 : info'[i] = info[i]
    BY <1>1, <1>2, AnswerStored
  <1>4. TypeOK'
    BY <1>1, <1>3, Zenon DEF Inv, TypeOK, NoByte, Memory
  <1>5. ZerosKept'
    BY <1>1, <1>3, AnswersAreElsewhere DEF Inv
  <1>6. Judging'
    BY <1>1, Zenon DEF Inv, Judging
  <1>7. AcksSaySuccess' /\ FrameLate'
    BY <1>1, Zenon DEF Inv, AcksSaySuccess, FrameLate
  <1> QED
    BY <1>4, <1>5, <1>6, <1>7, Zenon DEF Inv

LEMMA ReportIsSequence ==
    ASSUME NEW report \in Reports
    PROVE  report \in Seq(Byte) /\ Len(report) = 3
  <1>1. report \in Byte \X Byte \X Byte
    BY InputsAssumption
  <1>2. PICK a \in Byte, b \in Byte, c \in Byte : report = <<a, b, c>>
    BY <1>1
  <1> QED
    BY <1>2

\* The four answers that are stored.
LEMMA AnswersInv ==
    ASSUME Inv,
           \/ \E status \in Statuses : ParametersAnswered(status)
           \/ \E port \in Ports : Connected(port)
           \/ \E report \in Reports : Started(report) \/ RecvCST(report)
    PROVE  Inv'
  <1>s. tcu_stage \in Phases
    BY Zenon DEF Inv, TypeOK
  <1>o. /\ Offset.crcp \in 44 .. 53 /\ Offset.crcp + 1 <= 54
        /\ Offset.cct \in 44 .. 53 /\ Offset.cct + 1 <= 54
        /\ Offset.csf \in 44 .. 53 /\ Offset.csf + 3 <= 54
        /\ Offset.cst \in 44 .. 53 /\ Offset.cst + 3 <= 54
    BY DEF Offset
  <1>n. /\ Answer["CRCP"].next \in Phases /\ Answer["CCT"].next \in Phases
        /\ Answer["CSF"].next \in Phases /\ "STOP_END" \in Phases
    BY PhaseTables DEF Answers, Answer
  <1>1. ASSUME NEW status \in Statuses, ParametersAnswered(status)
        PROVE  Inv'
    <2> DEFINE s == <<status>>
               o == Offset.crcp
    <2>1. s \in Seq(Byte) /\ o \in 44 .. 53 /\ o + Len(s) <= 54
      BY <1>o, InputsAssumption
    <2>2. Reported(o, s) /\ tcu_stage' \in Phases
      BY <1>s, <1>n, <1>1 DEF ParametersAnswered
    <2> HIDE DEF o, s
    <2> QED
      BY <2>1, <2>2, ReportedInv
  <1>2. ASSUME NEW port \in Ports, Connected(port)
        PROVE  Inv'
    <2> DEFINE s == <<port>>
               o == Offset.cct
    <2>1. s \in Seq(Byte) /\ o \in 44 .. 53 /\ o + Len(s) <= 54
      BY <1>o, InputsAssumption
    <2>2. Reported(o, s) /\ tcu_stage' \in Phases
      BY <1>s, <1>n, <1>2 DEF Connected
    <2> HIDE DEF o, s
    <2> QED
      BY <2>1, <2>2, ReportedInv
  <1>3. ASSUME NEW report \in Reports
        PROVE  report \in Seq(Byte) /\ Len(report) = 3
    BY ReportIsSequence
  <1>4. ASSUME NEW report \in Reports, Started(report)
        PROVE  Inv'
    <2> DEFINE o == Offset.csf
    <2>1. report \in Seq(Byte) /\ o \in 44 .. 53 /\ o + Len(report) <= 54
      BY <1>o, <1>3
    <2>2. Reported(o, report) /\ tcu_stage' \in Phases
      BY <1>s, <1>n, <1>4 DEF Started
    <2> HIDE DEF o
    <2> QED
      BY <2>1, <2>2, ReportedInv
  <1>5. ASSUME NEW report \in Reports, RecvCST(report)
        PROVE  Inv'
    <2> DEFINE o == Offset.cst
    <2>1. report \in Seq(Byte) /\ o \in 44 .. 53 /\ o + Len(report) <= 54
      BY <1>o, <1>3
    <2>2. Reported(o, report) /\ tcu_stage' \in Phases
      BY <1>s, <1>n, <1>5 DEF RecvCST
    <2> HIDE DEF o
    <2> QED
      BY <2>1, <2>2, ReportedInv
  <1> QED
    BY <1>1, <1>2, <1>4, <1>5

LEMMA NextInv == Inv /\ [Next]_vars => Inv'
  <1> SUFFICES ASSUME Inv, [Next]_vars
               PROVE  Inv'
    OBVIOUS
  <1>s. tcu_stage \in Phases /\ running \in BOOLEAN
    BY Zenon DEF Inv, TypeOK
  <1>1. CASE WriteThread
    <2>1. CASE EventInit
      BY <2>1, QuietStep, PhaseTables DEF EventInit
    <2>2. ASSUME NEW p \in Packets, Begin(p) PROVE Inv'
      BY <2>2, BeginInv
    <2>3. CASE Store
      BY <2>3, StoreInv
    <2>4. CASE Copy
      BY <2>4, CopyInv
    <2>5. CASE Sent
      <3>1. Release /\ tcu_stage' \in Phases
        BY <1>s, <2>5, PhaseTables DEF Sent
      <3> QED
        BY <3>1, ReleaseInv
    <2>6. CASE Fails
      BY <1>s, <2>6, ReleaseInv DEF Fails
    <2>7. CASE Cancelled
      BY <1>s, <2>7, ReleaseInv DEF Cancelled
    <2> QED
      BY <1>1, <2>1, <2>2, <2>3, <2>4, <2>5, <2>6, <2>7 DEF WriteThread
  <1>2. CASE ReadThread
    <2>1. ASSUME NEW v \in Versions, VersionTaken(v) PROVE Inv'
      BY <2>1, VersionTakenInv
    <2>2. CASE VersionSame
      BY <2>2, VersionSameInv
    <2>3. CASE VersionAccepted \/ VersionRefused
      BY <2>3, VerdictInv
    <2>4. CASE \/ \E status \in Statuses : ParametersAnswered(status)
               \/ \E port \in Ports : Connected(port)
               \/ \E report \in Reports : Started(report) \/ RecvCST(report)
      BY <2>4, AnswersInv
    <2>5. ASSUME NEW f \in {"CRTR", "CRST"}, Accepted(f) PROVE Inv'
      <3>1. Answer[f].next \in Phases
        BY PhaseTables DEF Answers, Answer
      <3> QED
        BY <1>s, <2>5, <3>1, QuietStep DEF Accepted
    <2> QED
      BY <1>2, <2>1, <2>2, <2>3, <2>4, <2>5 DEF ReadThread
  <1>3. CASE TimesOut
    BY <1>s, <1>3, QuietStep, PhaseTables DEF TimesOut
  <1>4. ASSUME NEW c \in Commands, Command(c) PROVE Inv'
    <2>1. CommandStage(c) \in Phases
      BY PhaseTables, InputsAssumption
    <2> QED
      BY <1>s, <1>4, <2>1, QuietStep DEF Command
  <1>5. CASE Stop
    BY <1>5, QuietStep, PhaseTables DEF Stop
  <1>6. CASE UNCHANGED vars
    BY <1>s, <1>6, QuietStep DEF vars
  <1> QED
    BY <1>1, <1>2, <1>3, <1>4, <1>5, <1>6 DEF Next

THEOREM Invariance == Spec => []Inv
  BY InitInv, NextInv, PTL DEF Spec

\* The memory, the frame and the threads stay in their types, whatever is
\* measured, answered or typed: no print runs out of the structs, and no
\* comparison of the version leaves the answers.
THEOREM TypeCorrect == Spec => []TypeOK
  <1>1. Inv => TypeOK
    BY DEF Inv
  <1> QED
    BY <1>1, Invariance, PTL

\* The acknowledgements of the connection and of the stop report success
\* whatever heartbeats were sent before.
THEOREM AcknowledgementsSaySuccess == Spec => []AcksSaySuccess
  <1>1. Inv => AcksSaySuccess
    BY DEF Inv
  <1> QED
    BY <1>1, Invariance, PTL

\* No heartbeat within the documented ranges reaches the connection's
\* acknowledgement: its port is not 0 only while it is being filled.
THEOREM PortSurvives == Spec => []PortSurvivesHeartbeat
  <1>1. Inv => PortSurvivesHeartbeat
    BY DEF Inv, ZerosKept, ZeroButIn, PortSurvivesHeartbeat, Offset
  <1> QED
    BY <1>1, Invariance, PTL

\* A version check that is not disturbed decides rightly, but for a refusal
\* that an answer to the parameters, or their fill, causes.
THEOREM VersionIsJudged == Spec => VersionVerdict
  <1> DEFINE Right ==
        steady =>
          /\ VersionAccepted => Answered = VersionBytes
          /\ VersionRefused =>
                \/ Answered # VersionBytes
                \/ info[Offset.crcp] # 0
                \/ ParametersFilled
  <1>1. ASSUME Inv
        PROVE  Right
    <2> SUFFICES ASSUME steady
                 PROVE  /\ VersionAccepted => Answered = VersionBytes
                        /\ VersionRefused =>
                              \/ Answered # VersionBytes
                              \/ info[Offset.crcp] # 0
                              \/ ParametersFilled
      OBVIOUS
    <2>1. /\ info[0] = 18 /\ info[1] = 16
          /\ info[2] # 0 => tx = "TCP" /\ step = 2
          /\ rx >= 1 => info[44] = 18
          /\ rx >= 2 => info[45] = 16
          /\ rx >= 3 => info[46] # 0
          /\ rx \in 0 .. 9
      BY <1>1 DEF Inv, TypeOK, Judging, ZerosKept, ZeroButIn, Complete,
                 VersionBytes, Offset, NoByte
    <2>2. /\ Ours = info[rx] /\ Theirs = info[44 + rx]
          /\ Answered = <<info[44], info[45]>>
          /\ info[Offset.crcp] = info[46]
      BY <2>1 DEF Ours, Theirs, Answered, Offset
    <2>3. ASSUME VersionAccepted PROVE Answered = VersionBytes
      <3>1. info[rx] = 0
        BY <2>2, <2>3 DEF VersionAccepted, VersionEnds
      <3>2. rx >= 2
        BY <2>1, <3>1
      <3> QED
        BY <2>1, <2>2, <3>2 DEF VersionBytes
    <2>4. ASSUME VersionRefused, Answered = VersionBytes,
                 info[Offset.crcp] = 0, ~ParametersFilled
          PROVE  FALSE
      <3>1. info[rx] # info[44 + rx]
        BY <2>2, <2>4 DEF VersionRefused
      <3>2. info[44] = 18 /\ info[45] = 16 /\ info[46] = 0 /\ info[2] = 0
        BY <2>1, <2>2, <2>4 DEF VersionBytes, ParametersFilled
      <3>3. rx \in 0 .. 2
        BY <2>1, <3>2
      <3>4. rx # 0 /\ rx # 1 /\ rx # 2
        BY <2>1, <3>1, <3>2
      <3> QED
        BY <3>3, <3>4
    <2> QED
      BY <2>3, <2>4
  <1>2. Right <=>
          ( steady =>
              /\ VersionAccepted => Answered = VersionBytes
              /\ VersionRefused =>
                    \/ Answered # VersionBytes
                    \/ info[Offset.crcp] # 0
                    \/ ParametersFilled )
    OBVIOUS
  <1> HIDE DEF Right
  <1> QED
    BY <1>1, <1>2, Invariance, PTL DEF VersionVerdict

-----------------------------------------------------------------------------
(* What the clock packet and the heartbeat carry.                          *)

\* When the last store has been made the struct holds the packet's contents,
\* and so does the frame; the energy is in its place before the minutes are.
ClockKept ==
    /\ tx = "TTS" /\ step = 3 =>
          \A i \in 1 .. 8 : info[12 + i] = ClockBytes(clock)[i]
    /\ tx = "TTS" /\ frame # <<>> =>
          \A i \in 1 .. 8 : frame[i] = ClockBytes(clock)[i]

EnergyKept ==
    /\ tx = "THB" /\ step \in 4 .. 5 =>
          /\ info[24] = Printed(meter.energy)[1]
          /\ info[25] = Printed(meter.energy)[2]
    /\ tx = "THB" /\ frame # <<>> =>
          /\ frame[4] = Printed(meter.energy)[1]
          /\ frame[5] = Printed(meter.energy)[2]

MinutesKept ==
    /\ tx = "THB" /\ step = 5 =>
          /\ info[26] = Printed(meter.minutes)[1]
          /\ info[27] = Printed(meter.minutes)[2]
    /\ tx = "THB" /\ frame # <<>> =>
          /\ frame[6] = Printed(meter.minutes)[1]
          /\ frame[7] = Printed(meter.minutes)[2]

Kept == ClockKept /\ EnergyKept /\ MinutesKept

\* What a store writes, and what it leaves.
LEMMA StoredBytes ==
    ASSUME NEW mem \in [Memory -> Byte], NEW o \in Nat, NEW n \in Nat,
           NEW s \in [1 .. n -> Byte]
    PROVE  \A i \in Memory :
              /\ i \in o .. o + n - 1 => Stored(mem, At(o, s))[i] = s[i - o + 1]
              /\ i \notin o .. o + n - 1 => Stored(mem, At(o, s))[i] = mem[i]
  <1>1. /\ DOMAIN At(o, s) = o .. o + n - 1
        /\ \A i \in o .. o + n - 1 : At(o, s)[i] = s[i - o + 1]
    BY AtStores
  <1>2. ASSUME NEW i \in Memory
        PROVE  Stored(mem, At(o, s))[i] =
                 IF i \in DOMAIN At(o, s) THEN At(o, s)[i] ELSE mem[i]
    BY DEF Stored
  <1> QED
    BY <1>1, <1>2

LEMMA ClockStored ==
    ASSUME Inv, Store, tx = "TTS", step' = 3
    PROVE  \A i \in 1 .. 8 : info'[12 + i] = ClockBytes(clock)[i]
  <1> DEFINE s == ClockBytes(clock)
  <1>1. step = 2
    BY DEF Store, Inv, TypeOK
  <1>2. info' = Stored(info, At(13, s))
    <2>1. Stores("TTS")[2] = At(13, s)
      BY OffsetsAre DEF Stores
    <2> QED
      BY <1>1, <2>1, Zenon DEF Store
  <1>3. s \in [1 .. 8 -> Byte] /\ info \in [Memory -> Byte]
    BY ClockFits, Zenon DEF Inv, TypeOK
  <1> HIDE DEF s
  <1>4. \A i \in Memory : i \in 13 .. 13 + 8 - 1 => info'[i] = s[i - 13 + 1]
    <2>1. PICK o \in Nat, n \in Nat : o = 13 /\ n = 8
      OBVIOUS
    <2>2. s \in [1 .. n -> Byte] /\ info' = Stored(info, At(o, s))
      BY <1>2, <1>3, <2>1, Zenon
    <2>3. \A i \in Memory :
              i \in o .. o + n - 1 => info'[i] = s[i - o + 1]
      BY <1>3, <2>2, StoredBytes, Zenon
    <2> QED
      BY <2>1, <2>3
  <1>5. ASSUME NEW i \in 1 .. 8 PROVE info'[12 + i] = s[i]
    <2>1. 12 + i \in Memory /\ 12 + i \in 13 .. 13 + 8 - 1
      BY DEF Memory
    <2>2. (12 + i) - 13 + 1 = i
      OBVIOUS
    <2> QED
      BY <1>4, <2>1, <2>2
  <1> QED
    BY <1>5 DEF s

\* The minutes are printed behind the energy's first two characters.
LEMMA HeartbeatStored ==
    ASSUME Inv, EnergyKept, Store, tx = "THB"
    PROVE  /\ step' \in 4 .. 5 => /\ info'[24] = Printed(meter.energy)[1]
                                  /\ info'[25] = Printed(meter.energy)[2]
           /\ step' = 5 => /\ info'[26] = Printed(meter.minutes)[1]
                           /\ info'[27] = Printed(meter.minutes)[2]
  <1> DEFINE e == meter.energy
             t == meter.minutes
  <1>1. /\ e \in Nat /\ t \in Nat /\ Digits(e) \in 1 .. 6 /\ Digits(t) \in 1 .. 6
        /\ Printed(e) \in [1 .. Digits(e) + 1 -> Byte]
        /\ Printed(t) \in [1 .. Digits(t) + 1 -> Byte]
    BY PrintedLength, PrintedIsString DEF Inv, TypeOK
  <1>2. info \in [Memory -> Byte] /\ step \in Nat /\ step' = step + 1
    BY DEF Store, Inv, TypeOK
  <1>3. {24, 25, 26, 27} \subseteq Memory
    BY DEF Memory
  <1>s. /\ Stores("THB")[3] = At(24, Printed(e))
        /\ Stores("THB")[4] = At(26, Printed(t))
    BY OffsetsAre DEF Stores, HeartbeatStores
  <1>4. step = 3 => info' = Stored(info, At(24, Printed(e)))
    BY <1>s, Zenon DEF Store
  <1>5. step = 4 => info' = Stored(info, At(26, Printed(t)))
    BY <1>s, Zenon DEF Store
  <1>6. step \in 4 .. 5 => info[24] = Printed(e)[1] /\ info[25] = Printed(e)[2]
    BY DEF EnergyKept
  <1> HIDE DEF e, t
  <1>7. CASE step = 3
    <2> DEFINE n == Digits(e) + 1
    <2>1. n \in 2 .. 7 /\ Printed(e) \in [1 .. n -> Byte]
      BY <1>1
    <2> HIDE DEF n
    <2>2. \A i \in Memory : i \in 24 .. 24 + n - 1 =>
              info'[i] = Printed(e)[i - 24 + 1]
      BY <1>2, <1>4, <1>7, <2>1, StoredBytes
    <2>3. info'[24] = Printed(e)[1] /\ info'[25] = Printed(e)[2]
      BY <1>3, <2>1, <2>2
    <2> QED
      BY <1>2, <1>7, <2>3 DEF e
  <1>8. CASE step = 4
    <2> DEFINE n == Digits(t) + 1
    <2>1. n \in 2 .. 7 /\ Printed(t) \in [1 .. n -> Byte]
      BY <1>1
    <2> HIDE DEF n
    <2>2. \A i \in Memory :
              /\ i \in 26 .. 26 + n - 1 => info'[i] = Printed(t)[i - 26 + 1]
              /\ i \notin 26 .. 26 + n - 1 => info'[i] = info[i]
      BY <1>2, <1>5, <1>8, <2>1, StoredBytes
    <2>3. /\ info'[24] = info[24] /\ info'[25] = info[25]
          /\ info'[26] = Printed(t)[1] /\ info'[27] = Printed(t)[2]
      BY <1>3, <2>1, <2>2
    <2> QED
      BY <1>6, <1>8, <2>3 DEF e, t
  <1>9. CASE step \notin 3 .. 4
    BY <1>2, <1>9
  <1> QED
    BY <1>2, <1>7, <1>8, <1>9

LEMMA InitKept == Init => Kept
  <1> SUFFICES ASSUME Init PROVE Kept
    OBVIOUS
  <1>1. tx = NoPacket /\ NoPacket # "TTS" /\ NoPacket # "THB"
    BY DEF Init, NoPacket
  <1> QED
    BY <1>1 DEF Kept, ClockKept, EnergyKept, MinutesKept

\* A step that leaves the write thread and its structs alone.
LEMMA KeptOtherwise ==
    ASSUME Kept, UNCHANGED writeThread, \A i \in 0 .. 43 : info'[i] = info[i]
    PROVE  Kept'
  <1>1. /\ tx' = tx /\ step' = step /\ frame' = frame
        /\ meter' = meter /\ clock' = clock
    BY DEF writeThread
  <1>2. \A i \in 1 .. 8 : info'[12 + i] = info[12 + i]
    <2>1. \A i \in 1 .. 8 : 12 + i \in 0 .. 43
      OBVIOUS
    <2> QED
      BY <2>1
  <1>3. ClockKept'
    BY <1>1, <1>2, Zenon DEF Kept, ClockKept
  <1>4. /\ info'[24] = info[24] /\ info'[25] = info[25]
        /\ info'[26] = info[26] /\ info'[27] = info[27]
    OBVIOUS
  <1>5. EnergyKept' /\ MinutesKept'
    BY <1>1, <1>4 DEF Kept, EnergyKept, MinutesKept
  <1> QED
    BY <1>3, <1>5 DEF Kept

\* Storing an answer.
LEMMA AnswerKept ==
    ASSUME Inv, Kept, NEW o \in 44 .. 53, NEW s \in Seq(Byte),
           o + Len(s) <= 54, info' = Stored(info, At(o, s)),
           UNCHANGED writeThread
    PROVE  Kept'
  <1>1. info \in [Memory -> Byte]
    BY Zenon DEF Inv, TypeOK
  <1>2. \A i \in 0 .. 43 : info'[i] = info[i]
    BY <1>1, AnswerStored
  <1> QED
    BY <1>2, KeptOtherwise

LEMMA BeginKept ==
    ASSUME Inv, NEW p \in Packets, Begin(p)
    PROVE  Kept'
  <1>1. step' = 1 /\ frame' = <<>>
    BY Zenon DEF Begin, Inv, FrameLate
  <1> QED
    BY <1>1 DEF Kept, ClockKept, EnergyKept, MinutesKept

LEMMA ReleaseKept ==
    ASSUME Release
    PROVE  Kept'
  <1>1. tx' = NoPacket /\ NoPacket # "TTS" /\ NoPacket # "THB"
    BY DEF Release, NoPacket
  <1> QED
    BY <1>1 DEF Kept, ClockKept, EnergyKept, MinutesKept

LEMMA StoreKept ==
    ASSUME Inv, Kept, Store
    PROVE  Kept'
  <1>1. /\ tx' = tx /\ frame' = frame /\ meter' = meter /\ clock' = clock
    BY DEF Store
  <1>2. ClockKept'
    <2>1. tx = "TTS" /\ step' = 3 =>
            \A i \in 1 .. 8 : info'[12 + i] = ClockBytes(clock)[i]
      BY ClockStored
    <2> QED
      BY <1>1, <2>1, Zenon DEF Kept, ClockKept
  <1>3. CASE tx = "THB"
    <2>1. /\ step' \in 4 .. 5 => /\ info'[24] = Printed(meter.energy)[1]
                                 /\ info'[25] = Printed(meter.energy)[2]
          /\ step' = 5 => /\ info'[26] = Printed(meter.minutes)[1]
                          /\ info'[27] = Printed(meter.minutes)[2]
      BY <1>3, HeartbeatStored, Zenon DEF Kept
    <2> QED
      BY <1>1, <1>2, <2>1, Zenon DEF Kept, EnergyKept, MinutesKept
  <1>4. CASE tx # "THB"
    BY <1>1, <1>2, <1>4 DEF Kept, EnergyKept, MinutesKept
  <1> QED
    BY <1>3, <1>4

LEMMA CopyKept ==
    ASSUME Inv, Kept, Copy
    PROVE  Kept'
  <1>1. /\ tx' = tx /\ step' = step /\ meter' = meter /\ clock' = clock
        /\ info' = info
    BY DEF Copy
  <1>2. CASE tx = "TTS"
    <2>1. step = 3
      BY <1>2 DEF Copy, Stores
    <2>2. frame' = [i \in 1 .. 8 |-> info[13 + i - 1]]
      BY <1>2 DEF Copy, Length, Source, Offset
    <2>3. \A i \in 1 .. 8 : frame'[i] = info[12 + i]
      <3>1. \A i \in 1 .. 8 : 13 + i - 1 = 12 + i
        OBVIOUS
      <3> QED
        BY <2>2, <3>1
    <2>4. \A i \in 1 .. 8 : frame'[i] = ClockBytes(clock)[i]
      BY <1>2, <2>1, <2>3, Zenon DEF Kept, ClockKept
    <2> QED
      BY <1>1, <1>2, <2>4 DEF Kept, ClockKept, EnergyKept, MinutesKept
  <1>3. CASE tx = "THB"
    <2>1. step = 5
      BY <1>3 DEF Copy, Stores, HeartbeatStores
    <2>2. frame' = [i \in 1 .. 8 |-> info[21 + i - 1]]
      BY <1>3 DEF Copy, Length, Source, Offset
    <2>3. /\ frame'[4] = info[24] /\ frame'[5] = info[25]
          /\ frame'[6] = info[26] /\ frame'[7] = info[27]
      BY <2>2
    <2>4. ClockKept'
      BY <1>1, <1>3 DEF ClockKept
    <2>5. /\ info[24] = Printed(meter.energy)[1]
          /\ info[25] = Printed(meter.energy)[2]
          /\ info[26] = Printed(meter.minutes)[1]
          /\ info[27] = Printed(meter.minutes)[2]
      BY <1>3, <2>1 DEF Kept, EnergyKept, MinutesKept
    <2> QED
      BY <1>1, <1>3, <2>3, <2>4, <2>5, Zenon DEF Kept, EnergyKept, MinutesKept
  <1>4. CASE tx \notin {"TTS", "THB"}
    BY <1>1, <1>4 DEF Kept, ClockKept, EnergyKept, MinutesKept
  <1> QED
    BY <1>2, <1>3, <1>4

LEMMA NextKept == Inv /\ Kept /\ [Next]_vars => Kept'
  <1> SUFFICES ASSUME Inv, Kept, [Next]_vars
               PROVE  Kept'
    OBVIOUS
  <1>q. ASSUME UNCHANGED info, UNCHANGED writeThread
        PROVE  Kept'
    BY <1>q, KeptOtherwise
  <1>1. CASE WriteThread
    <2>1. CASE EventInit
      BY <1>q, <2>1 DEF EventInit
    <2>2. ASSUME NEW p \in Packets, Begin(p) PROVE Kept'
      BY <2>2, BeginKept
    <2>3. CASE Store
      BY <2>3, StoreKept
    <2>4. CASE Copy
      BY <2>4, CopyKept
    <2>5. CASE Sent \/ Fails \/ Cancelled
      BY <2>5, ReleaseKept DEF Sent, Fails, Cancelled
    <2> QED
      BY <1>1, <2>1, <2>2, <2>3, <2>4, <2>5 DEF WriteThread
  <1>2. CASE ReadThread
    <2>o. /\ Offset.crcp \in 44 .. 53 /\ Offset.crcp + 1 <= 54
          /\ Offset.cct \in 44 .. 53 /\ Offset.cct + 1 <= 54
          /\ Offset.csf \in 44 .. 53 /\ Offset.csf + 3 <= 54
          /\ Offset.cst \in 44 .. 53 /\ Offset.cst + 3 <= 54
          /\ Offset.crcv \in 44 .. 53 /\ Offset.crcv + 2 <= 54
      BY DEF Offset
    <2>1. ASSUME NEW v \in Versions, VersionTaken(v) PROVE Kept'
      <3> DEFINE s == <<v[1], v[2]>>
                 o == Offset.crcv
      <3>1. v \in Byte \X Byte
        BY InputsAssumption
      <3>2. s \in Seq(Byte) /\ o \in 44 .. 53 /\ o + Len(s) <= 54
        BY <2>o, <3>1
      <3>3. info' = Stored(info, At(o, s)) /\ UNCHANGED writeThread
        BY <2>1, Zenon DEF VersionTaken
      <3> HIDE DEF s, o
      <3> QED
        BY <3>2, <3>3, AnswerKept
    <2>2. CASE VersionSame \/ VersionAccepted \/ VersionRefused
      BY <1>q, <2>2 DEF VersionSame, VersionAccepted, VersionRefused
    <2>3. ASSUME NEW status \in Statuses, ParametersAnswered(status) PROVE Kept'
      <3> DEFINE s == <<status>>
                 o == Offset.crcp
      <3>1. s \in Seq(Byte) /\ o \in 44 .. 53 /\ o + Len(s) <= 54
        BY <2>o, InputsAssumption
      <3>2. info' = Stored(info, At(o, s)) /\ UNCHANGED writeThread
        BY <2>3, Zenon DEF ParametersAnswered, Reported
      <3> HIDE DEF s, o
      <3> QED
        BY <3>1, <3>2, AnswerKept
    <2>4. ASSUME NEW port \in Ports, Connected(port) PROVE Kept'
      <3> DEFINE s == <<port>>
                 o == Offset.cct
      <3>1. s \in Seq(Byte) /\ o \in 44 .. 53 /\ o + Len(s) <= 54
        BY <2>o, InputsAssumption
      <3>2. info' = Stored(info, At(o, s)) /\ UNCHANGED writeThread
        BY <2>4, Zenon DEF Connected, Reported
      <3> HIDE DEF s, o
      <3> QED
        BY <3>1, <3>2, AnswerKept
    <2>5. ASSUME NEW report \in Reports, Started(report) \/ RecvCST(report)
          PROVE  Kept'
      <3>1. report \in Seq(Byte) /\ Len(report) = 3
        BY ReportIsSequence
      <3>2. \/ Reported(Offset.csf, report)
            \/ Reported(Offset.cst, report)
        BY <2>5 DEF Started, RecvCST
      <3>3. PICK o \in 44 .. 53 : o + 3 <= 54 /\ Reported(o, report)
        BY <2>o, <3>2
      <3>4. info' = Stored(info, At(o, report)) /\ UNCHANGED writeThread
        BY <3>3, Zenon DEF Reported
      <3>5. o + Len(report) <= 54
        BY <3>1, <3>3
      <3> QED
        BY <3>1, <3>4, <3>5, AnswerKept
    <2>6. ASSUME NEW f \in {"CRTR", "CRST"}, Accepted(f) PROVE Kept'
      BY <1>q, <2>6 DEF Accepted
    <2> QED
      BY <1>2, <2>1, <2>2, <2>3, <2>4, <2>5, <2>6 DEF ReadThread
  <1>3. CASE TimesOut
    BY <1>q, <1>3 DEF TimesOut
  <1>4. ASSUME NEW c \in Commands, Command(c) PROVE Kept'
    BY <1>q, <1>4 DEF Command
  <1>5. CASE Stop
    BY <1>q, <1>5 DEF Stop
  <1>6. CASE UNCHANGED vars
    BY <1>q, <1>6 DEF vars
  <1> QED
    BY <1>1, <1>2, <1>3, <1>4, <1>5, <1>6 DEF Next

LEMMA Contents == Spec => []Kept
  BY InitKept, NextKept, Invariance, PTL DEF Spec

\* The bounds by name: the provers expand a range between literals.
LEMMA ReadingBounds ==
    \A m \in Readings : /\ m.energy \in Nat /\ m.energy <= 10000
                        /\ m.minutes \in Nat /\ m.minutes <= 6000
  <1> DEFINE E == 10000
             M == 6000
  <1>1. Readings = [energy : 0 .. E, minutes : 0 .. M]
    BY DEF Readings
  <1>2. E \in Nat /\ M \in Nat
    OBVIOUS
  <1> HIDE DEF E, M
  <1>3. \A m \in Readings : /\ m.energy \in Nat /\ m.energy <= E
                            /\ m.minutes \in Nat /\ m.minutes <= M
    BY <1>1, <1>2, SMT
  <1> QED
    BY <1>3 DEF E, M

\* The first two characters of a printed number: one digit and the zero, or
\* two digits.
LEMMA FirstCharacters ==
    ASSUME NEW n \in Nat
    PROVE  /\ n < 10 => Printed(n)[1] = 48 + n /\ Printed(n)[2] = 0
           /\ n >= 10 => Printed(n)[1] \in 48 .. 57 /\ Printed(n)[2] \in 48 .. 57
           /\ n \in 10 .. 99 => /\ Printed(n)[1] = 48 + (n \div 10)
                                /\ Printed(n)[2] = 48 + (n % 10)
  <1> DEFINE d == Digits(n)
  <1>1. /\ d \in 1 .. 6
        /\ n < 10 => d = 1
        /\ n >= 10 => d >= 2
        /\ n \in 10 .. 99 => d = 2
    BY SMT DEF Digits
  <1>2. Printed(n) = [i \in 1 .. d + 1 |->
                        IF i > d THEN 0
                        ELSE 48 + ((n \div TenTo[d - i + 1]) % 10)]
    BY DEF Printed
  <1> HIDE DEF d
  <1>3. CASE n < 10
    <2>1. Printed(n)[1] = 48 + ((n \div 1) % 10) /\ Printed(n)[2] = 0
      BY <1>1, <1>2, <1>3, SMT DEF TenTo
    <2> QED
      BY <1>3, <2>1, SMT
  <1>4. CASE n >= 10
    <2>1. /\ Printed(n)[1] = 48 + ((n \div TenTo[d]) % 10)
          /\ Printed(n)[2] = 48 + ((n \div TenTo[d - 1]) % 10)
      BY <1>1, <1>2, <1>4
    <2>2. /\ TenTo[d] \in {1, 10, 100, 1000, 10000, 100000}
          /\ TenTo[d - 1] \in {1, 10, 100, 1000, 10000, 100000}
      BY <1>1, <1>4, SMT DEF TenTo
    <2>3. ASSUME NEW q \in {1, 10, 100, 1000, 10000, 100000}
          PROVE  48 + ((n \div q) % 10) \in 48 .. 57
      BY SMT
    <2>4. ASSUME n \in 10 .. 99
          PROVE  /\ Printed(n)[1] = 48 + (n \div 10)
                 /\ Printed(n)[2] = 48 + (n % 10)
      <3>1. TenTo[d] = 10 /\ TenTo[d - 1] = 1
        BY <1>1, <2>4 DEF TenTo
      <3>2. (n \div 10) % 10 = n \div 10 /\ n \div 1 = n
        BY <2>4, SMT
      <3> QED
        BY <2>1, <3>1, <3>2
    <2> QED
      BY <1>4, <2>1, <2>2, <2>3, <2>4
  <1> QED
    BY <1>3, <1>4

\* One or two printed digits are read as they were meant.
LEMMA ReadPrinted ==
    ASSUME NEW n \in Nat, n < 100
    PROVE  Read(Printed(n)[1], Printed(n)[2]) = n
  <1>1. CASE n < 10
    BY <1>1, FirstCharacters DEF Read
  <1>2. CASE n >= 10
    <2>1. n \in 10 .. 99
      BY <1>2
    <2>2. n = 10 * (n \div 10) + (n % 10) /\ n % 10 \in 0 .. 9 /\ n \div 10 \in Nat
      BY <2>1, SMT
    <2>3. /\ Printed(n)[1] = 48 + (n \div 10)
          /\ Printed(n)[2] = 48 + (n % 10)
      BY <2>1, FirstCharacters
    <2> QED
      BY <2>2, <2>3 DEF Read
  <1> QED
    BY <1>1, <1>2

\* Two characters are never the number they print, as 48 * 256 is beyond what
\* a heartbeat may say.
LEMMA TextIsNoNumber ==
    ASSUME NEW n \in Nat, n <= 10000
    PROVE  /\ n # Number(Printed(n)[1], Printed(n)[2])
           /\ n # Number(Printed(n)[2], Printed(n)[1])
  <1> DEFINE a == Printed(n)[1]
             b == Printed(n)[2]
  <1>1. /\ n < 10 => a = 48 + n /\ b = 0
        /\ n >= 10 => a \in 48 .. 57 /\ b \in 48 .. 57
    BY FirstCharacters
  <1> HIDE DEF a, b
  <1>2. n # Number(a, b) /\ n # Number(b, a)
    BY <1>1, SMT DEF Number
  <1> QED
    BY <1>2 DEF a, b

\* Whatever the other number is and however often heartbeats were sent, a
\* number of two digits arrives in the heartbeat as text, and none arrives as
\* the number src/tcu.h documents.
THEOREM HeartbeatIsTrue == Spec => []HeartbeatIsText
  <1>1. Inv /\ Kept => HeartbeatIsText
    <2> SUFFICES ASSUME Inv, Kept, tx = "THB", frame # <<>>
                 PROVE  HeartbeatIsText
      BY Zenon DEF HeartbeatIsText
    <2> DEFINE e == meter.energy
               t == meter.minutes
    <2>1. /\ frame[4] = Printed(e)[1] /\ frame[5] = Printed(e)[2]
          /\ frame[6] = Printed(t)[1] /\ frame[7] = Printed(t)[2]
      BY Zenon DEF Kept, EnergyKept, MinutesKept
    <2>2. e \in Nat /\ e <= 10000 /\ t \in Nat /\ t <= 6000
      <3>1. meter \in Readings
        BY Zenon DEF Inv, TypeOK
      <3> QED
        BY <3>1, ReadingBounds
    <2> HIDE DEF e, t
    <2>3. /\ e < 100 => Read(frame[4], frame[5]) = e
          /\ t < 100 => Read(frame[6], frame[7]) = t
      BY <2>1, <2>2, ReadPrinted
    <2>4. t <= 10000
      BY <2>2
    <2>5. /\ e # Number(frame[4], frame[5]) /\ e # Number(frame[5], frame[4])
          /\ t # Number(frame[6], frame[7]) /\ t # Number(frame[7], frame[6])
      BY <2>1, <2>2, <2>4, TextIsNoNumber
    <2> QED
      BY <2>3, <2>5 DEF HeartbeatIsText, e, t
  <1> QED
    BY <1>1, Contents, Invariance, PTL

\* A number of one byte is its own packed BCD below ten only.
LEMMA BinaryIsNoBCD ==
    ASSUME NEW n \in Nat, n < 256
    PROVE  IsBCD(n, n) <=> n < 10
  <1> DEFINE r == n % 100
             h == r \div 10
             l == r % 10
  <1>1. DectoBCD(n, 1)[1] = h * 16 + l
    <2>1. power(100, 0) = 1 /\ 1 - 1 = 0
      BY PowersOfHundred
    <2>2. n \div 1 = n
      BY SMT
    <2> QED
      BY <2>1, <2>2 DEF DectoBCD
  <1>2. /\ r \in 0 .. 99 /\ n = 100 * (n \div 100) + r
        /\ n \div 100 \in 0 .. 2
    BY SMT
  <1> HIDE DEF r
  <1>3. h \in 0 .. 9 /\ l \in 0 .. 9 /\ r = 10 * h + l
    BY <1>2, SMT
  <1> DEFINE q == n \div 100
  <1>4. q \in 0 .. 2 /\ n = 100 * q + 10 * h + l
    BY <1>2, <1>3
  <1> HIDE DEF h, l, q
  <1>5. n = h * 16 + l <=> n < 10
    BY <1>3, <1>4
  <1> QED
    BY <1>1, <1>5 DEF IsBCD

\* A number of two bytes is what its bytes say.
LEMMA ByteIsItself ==
    ASSUME NEW q \in Nat, q < 256
    PROVE  q % 256 = q
  BY SMT

LEMMA TwoBytes ==
    ASSUME NEW n \in Nat, n < 61000
    PROVE  (n % 256) + 256 * ((n \div 256) % 256) = n
  <1>1. n \div 256 \in Nat /\ n \div 256 < 256
    BY SMT
  <1>2. (n \div 256) % 256 = n \div 256
    BY <1>1, ByteIsItself
  <1>3. n = 256 * (n \div 256) + (n % 256)
    BY SMT
  <1>4. n % 256 \in Nat
    OBVIOUS
  <1> QED
    BY <1>1, <1>2, <1>3, <1>4

LEMMA Milliseconds ==
    ASSUME NEW s \in Nat, s <= 60, NEW m \in Nat, m <= 999
    PROVE  /\ s * 1000 + m \in Nat /\ s * 1000 + m < 61000
           /\ (s * 1000 + m) \div 1000 = s
           /\ (s * 1000 + m) % 1000 = m
  <1>1. s * 1000 + m \in Nat /\ s * 1000 + m < 61000
    BY SMT
  <1>2. (s * 1000 + m) \div 1000 = s
    BY SMT
  <1>3. (s * 1000 + m) % 1000 = m
    BY SMT
  <1> QED
    BY <1>1, <1>2, <1>3

\* The bytes of the clock packet, read as numbers.
LEMMA ClockUnpacks ==
    ASSUME NEW t \in Moments, NEW b,
           \A i \in 1 .. 8 : b[i] = ClockBytes(t)[i]
    PROVE  /\ Weekday(b) \in 1 .. 7
           /\ t = Unpacked(b)
  <1> DEFINE sec == t.sec
             msec == t.msec
             wday == t.wday
             mday == t.mday
             mon == t.mon
             year == t.year
             day == IF wday = 0 THEN 7 ELSE wday
             mm == sec * 1000 + msec
  <1>1. /\ sec \in 0 .. 60 /\ msec \in 0 .. 999 /\ t.min \in 0 .. 59
        /\ t.hour \in 0 .. 23 /\ wday \in 0 .. 6 /\ mday \in 1 .. 31
        /\ mon \in 0 .. 11 /\ year \in 100 .. 355
    BY SMT DEF Moments
  <1>2. ClockBytes(t) = << 0, mm % 256, (mm \div 256) % 256, t.min, t.hour,
                           day * 32 + mday, mon + 1, year - 100 >>
    BY DEF ClockBytes
  <1>3. t = [ sec |-> sec, msec |-> msec, min |-> t.min, hour |-> t.hour,
              wday |-> wday, mday |-> mday, mon |-> mon, year |-> year ]
    BY SMT DEF Moments
  <1> HIDE DEF sec, msec, wday, mday, mon, year
  <1>4. mm \in Nat /\ mm < 61000 /\ mm \div 1000 = sec /\ mm % 1000 = msec
    <2>1. sec \in Nat /\ sec <= 60 /\ msec \in Nat /\ msec <= 999
      BY <1>1
    <2> QED
      BY <2>1, Milliseconds
  <1>5. day \in 1 .. 7 /\ day % 7 = wday
    BY <1>1, SMT
  <1> HIDE DEF mm, day
  <1>7. /\ b[2] = mm % 256 /\ b[3] = (mm \div 256) % 256 /\ b[4] = t.min
        /\ b[5] = t.hour /\ b[6] = day * 32 + mday /\ b[7] = mon + 1
        /\ b[8] = year - 100
    BY <1>2
  <1>8. b[2] + 256 * b[3] = mm
    <2>1. (mm % 256) + 256 * ((mm \div 256) % 256) = mm
      BY <1>4, TwoBytes
    <2> QED
      BY <1>7, <2>1, Zenon
  <1> DEFINE s1 == (b[2] + 256 * b[3]) \div 1000
             s2 == (b[2] + 256 * b[3]) % 1000
             s3 == (b[6] \div 32) % 7
             s4 == b[6] % 32
             s5 == b[7] - 1
             s6 == b[8] + 100
  <1>9. s1 = sec /\ s2 = msec
    BY <1>4, <1>8
  <1>10. b[6] \div 32 = day /\ s4 = mday
    BY <1>1, <1>5, <1>7, SMT
  <1>11. s3 = wday
    BY <1>5, <1>10
  <1>12. s5 = mon /\ s6 = year
    BY <1>1, <1>7, SMT
  <1> HIDE DEF s1, s2, s3, s4, s5, s6
  <1>13. t = [ sec |-> s1, msec |-> s2, min |-> b[4], hour |-> b[5],
               wday |-> s3, mday |-> s4, mon |-> s5, year |-> s6 ]
    BY <1>3, <1>7, <1>9, <1>10, <1>11, <1>12, Zenon
  <1>14. b[6] \div 32 \in 1 .. 7
    BY <1>5, <1>10
  <1> QED
    BY <1>13, <1>14, Zenon DEF Weekday, Unpacked, s1, s2, s3, s4, s5, s6

LEMMA MomentBounds ==
    ASSUME NEW t \in Moments
    PROVE  /\ t.min \in Nat /\ t.min < 256
           /\ t.hour \in Nat /\ t.hour < 256
           /\ t.mon + 1 \in Nat /\ t.mon + 1 < 256
           /\ t.year - 100 \in Nat /\ t.year - 100 < 256
  <1> DEFINE min == t.min
             hour == t.hour
             mon == t.mon
             year == t.year
  <1>1. /\ min \in 0 .. 59 /\ hour \in 0 .. 23
        /\ mon \in 0 .. 11 /\ year \in 100 .. 355
    BY SMT DEF Moments
  <1> HIDE DEF min, hour, mon, year
  <1>2. /\ min \in Nat /\ min < 256
        /\ hour \in Nat /\ hour < 256
    BY <1>1
  <1>3. mon + 1 \in Nat /\ mon + 1 < 256
    BY <1>1
  <1>4. year - 100 \in Nat /\ year - 100 < 256
    BY <1>1
  <1> QED
    BY <1>2, <1>3, <1>4 DEF min, hour, mon, year

\* Every moment can be unpacked from the packet filled from it, its bytes read
\* as binary numbers.
THEOREM ClockIsTold == Spec => []ClockIsBinary
  <1>1. Inv /\ Kept => ClockIsBinary
    <2> SUFFICES ASSUME Inv, Kept, tx = "TTS", frame # <<>>
                 PROVE  ClockIsBinary
      BY Zenon DEF ClockIsBinary
    <2>1. \A i \in 1 .. 8 : frame[i] = ClockBytes(clock)[i]
      BY Zenon DEF Kept, ClockKept
    <2>2. clock \in Moments
      BY Zenon DEF Inv, TypeOK
    <2>3. Weekday(frame) \in 1 .. 7 /\ clock = Unpacked(frame)
      BY <2>1, <2>2, ClockUnpacks, Zenon
    <2> DEFINE min == clock.min
               hour == clock.hour
               mon == clock.mon + 1
               year == clock.year - 100
    <2>4. /\ min \in Nat /\ min < 256 /\ hour \in Nat /\ hour < 256
          /\ mon \in Nat /\ mon < 256 /\ year \in Nat /\ year < 256
      BY <2>2, MomentBounds
    <2>5. /\ frame[4] = min /\ frame[5] = hour
          /\ frame[7] = mon /\ frame[8] = year
      BY <2>1 DEF ClockBytes
    <2> HIDE DEF min, hour, mon, year
    <2>6. /\ IsBCD(min, min) <=> min < 10
          /\ IsBCD(hour, hour) <=> hour < 10
          /\ IsBCD(mon, mon) <=> mon < 10
          /\ IsBCD(year, year) <=> year < 10
      BY <2>4, BinaryIsNoBCD
    <2>7. /\ IsBCD(frame[4], min) <=> min < 10
          /\ IsBCD(frame[5], hour) <=> hour < 10
          /\ IsBCD(frame[7], mon) <=> mon < 10
          /\ IsBCD(frame[8], year) <=> year < 10
      BY <2>5, <2>6, Zenon
    <2> QED
      BY <2>3, <2>7, Zenon DEF ClockIsBinary, min, hour, mon, year
  <1> QED
    BY <1>1, Contents, Invariance, PTL

\* Whatever the meter shows and whatever version the charger has answered with,
\* the conversions at the end of src/tcu.c take each other back.
THEOREM ConversionsAreInverse == Spec => []ConversionsInverse
  <1>1. Inv => ConversionsInverse
    <2> SUFFICES ASSUME Inv PROVE ConversionsInverse
      OBVIOUS
    <2> DEFINE e == meter.energy
               t == meter.minutes
               a == info[Offset.crcv]
               b == info[Offset.crcv + 1]
    <2>1. e \in Nat /\ e <= 10000 /\ t \in Nat /\ t <= 6000
      <3>a. meter \in Readings
        BY Zenon DEF Inv, TypeOK
      <3> QED
        BY <3>a, ReadingBounds
    <2>2. a \in Byte /\ b \in Byte
      <3>1. Offset.crcv = 44 /\ 44 \in Memory /\ 45 \in Memory /\ 44 + 1 = 45
        BY DEF Offset, Memory
      <3> QED
        BY <3>1 DEF Inv, TypeOK
    <2> HIDE DEF e, t, a, b
    <2>3. e < power(100, 3) /\ t < power(256, 2)
      BY <2>1, PowersOfHundred, PowersOf256
    <2>4. BCDtoDec(DectoBCD(e, 3), 3) = e
      BY <2>1, <2>3, DecimalComesBack
    <2>5. HextoDec(DectoHex(t, 2), 2) = t
      BY <2>1, <2>3, BinaryComesBack
    <2>6. Answered = <<a, b>>
      BY DEF Answered, a, b
    <2>7. <<a, b>> \in Seq(Byte) /\ <<a, b>>[1] = a /\ <<a, b>>[2] = b
      BY <2>2
    <2>8. convert(convert(<<a, b>>)) = <<a, b>>
      BY <2>7, InvertedTwice
    <2>9. Decimal(a) /\ Decimal(b) =>
            str2bcd(bcd2str(<<a, b>>, 2), 2) = <<b, a>>
      BY <2>2, DigitsComeBack
    <2> QED
      BY <2>4, <2>5, <2>6, <2>7, <2>8, <2>9, Zenon
         DEF ConversionsInverse, Decimal, e, t
  <1> QED
    BY <1>1, Invariance, PTL

=============================================================================
