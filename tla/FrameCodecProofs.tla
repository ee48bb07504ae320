-------------------------- MODULE FrameCodecProofs --------------------------
(***************************************************************************)
(* Proofs about FrameCodec, for any frames a client may send, any number   *)
(* of them and reads of any size.                                          *)
(***************************************************************************)
EXTENDS FrameCodec, NumberLemmas, SequenceTheorems, FiniteSetTheorems, TLAPS

-----------------------------------------------------------------------------
(* A frame as bytes. *)

\* A function on the first numbers is a sequence.
LEMMA AsSequence ==
    ASSUME NEW n \in Nat, NEW S, NEW f \in [1..n -> S]
    PROVE  f \in Seq(S) /\ Len(f) = n
  OBVIOUS

\* What the three or four digits of a number are.
LEMMA DigitsAre ==
    ASSUME NEW n \in Nat
    PROVE  /\ Digits(n, 3) \in Seq(Byte) /\ Len(Digits(n, 3)) = 3
           /\ Digits(n, 3)[1] = (n \div 2^16) % 256
           /\ Digits(n, 3)[2] = (n \div 256) % 256
           /\ Digits(n, 3)[3] = n % 256
           /\ Digits(n, 4) \in Seq(Byte) /\ Len(Digits(n, 4)) = 4
           /\ Digits(n, 4)[1] = (n \div 2^24) % 256
           /\ Digits(n, 4)[2] = (n \div 2^16) % 256
           /\ Digits(n, 4)[3] = (n \div 256) % 256
           /\ Digits(n, 4)[4] = n % 256
<1>1. 256^0 = 1 /\ 256^1 = 256 /\ 256^2 = 2^16 /\ 256^3 = 2^24
  BY SMT
<1>2. /\ (n \div 256^0) % 256 = n % 256
      /\ (n \div 256^1) % 256 = (n \div 256) % 256
      /\ (n \div 256^2) % 256 = (n \div 2^16) % 256
      /\ (n \div 256^3) % 256 = (n \div 2^24) % 256
  BY <1>1
<1> DEFINE g(i) == (n \div 256^i) % 256
<1>3. /\ g(0) = n % 256 /\ g(1) = (n \div 256) % 256
      /\ g(2) = (n \div 2^16) % 256 /\ g(3) = (n \div 2^24) % 256
  BY <1>2
<1>4. /\ Digits(n, 3) = [i \in 1..3 |-> g(3 - i)]
      /\ Digits(n, 4) = [i \in 1..4 |-> g(4 - i)]
  BY DEF Digits
<1> HIDE DEF g
<1>5. g(0) \in Byte /\ g(1) \in Byte /\ g(2) \in Byte /\ g(3) \in Byte
  BY <1>3 DEF Byte
<1>6. /\ \A i \in 1..3 : g(3 - i) \in Byte
      /\ \A i \in 1..4 : g(4 - i) \in Byte
  <2>1. \A i \in 1..3 : 3 - i \in {0, 1, 2}
    OBVIOUS
  <2>2. \A i \in 1..4 : 4 - i \in {0, 1, 2, 3}
    OBVIOUS
  <2>3. \A j \in {0, 1, 2, 3} : g(j) \in Byte
    BY <1>5
  <2>4. QED
    BY <2>1, <2>2, <2>3
<1>7. /\ Digits(n, 3) \in [1..3 -> Byte]
      /\ Digits(n, 4) \in [1..4 -> Byte]
  BY <1>4, <1>6
<1>8. /\ Digits(n, 3) \in Seq(Byte) /\ Len(Digits(n, 3)) = 3
      /\ Digits(n, 4) \in Seq(Byte) /\ Len(Digits(n, 4)) = 4
  BY <1>7, AsSequence
<1>9. /\ Digits(n, 3)[1] = g(2) /\ Digits(n, 3)[2] = g(1) /\ Digits(n, 3)[3] = g(0)
      /\ Digits(n, 4)[1] = g(3) /\ Digits(n, 4)[2] = g(2)
      /\ Digits(n, 4)[3] = g(1) /\ Digits(n, 4)[4] = g(0)
  BY <1>4
<1>10. QED
  BY <1>3, <1>8, <1>9

\* Three bytes are enough for a length, and it can be read back from them.
LEMMA LengthReadsBack ==
    ASSUME NEW n \in Nat, n < 2^24
    PROVE  Digits(n, 3)[1] * 2^16 + Digits(n, 3)[2] * 2^8 + Digits(n, 3)[3] = n
<1>1. Digits(n, 3)[1] = (n \div 2^16) % 256
  BY DigitsAre, Zenon
<1>2. Digits(n, 3)[2] = (n \div 256) % 256
  BY DigitsAre, Zenon
<1>3. Digits(n, 3)[3] = n % 256
  BY DigitsAre, Zenon
<1>4. ((n \div 2^16) % 256) * 2^16 + ((n \div 256) % 256) * 2^8 + (n % 256) = n
  BY SMT
<1>5. QED
  BY <1>1, <1>2, <1>3, <1>4, Zenon

\* Four bytes with the highest bit free are enough for the number of a stream.
LEMMA WordReadsBack ==
    ASSUME NEW n \in Nat, n \div 2^24 < 2^7
    PROVE  /\ Digits(n, 4)[1] < 2^7
           /\ Digits(n, 4)[1] * 2^24 + Digits(n, 4)[2] * 2^16
                + Digits(n, 4)[3] * 2^8 + Digits(n, 4)[4] = n
<1>1. Digits(n, 4)[1] = (n \div 2^24) % 256
  BY DigitsAre, Zenon
<1>2. Digits(n, 4)[2] = (n \div 2^16) % 256
  BY DigitsAre, Zenon
<1>3. Digits(n, 4)[3] = (n \div 256) % 256
  BY DigitsAre, Zenon
<1>4. Digits(n, 4)[4] = n % 256
  BY DigitsAre, Zenon
<1>5. /\ (n \div 2^24) % 256 < 2^7
      /\ ((n \div 2^24) % 256) * 2^24 + ((n \div 2^16) % 256) * 2^16
            + ((n \div 256) % 256) * 2^8 + (n % 256) = n
  BY SMT
<1>6. QED
  BY <1>1, <1>2, <1>3, <1>4, <1>5, Zenon

\* The elements of two sequences put together.
LEMMA Joined ==
    ASSUME NEW S, NEW p \in Seq(S), NEW q \in Seq(S)
    PROVE  /\ p \o q \in Seq(S) /\ Len(p \o q) = Len(p) + Len(q)
           /\ \A i \in 1..Len(p) : (p \o q)[i] = p[i]
           /\ \A i \in 1..Len(q) : (p \o q)[Len(p) + i] = q[i]
  OBVIOUS

\* The elements of a sequence of four.
LEMMA FourElements ==
    ASSUME NEW S, NEW p \in Seq(S), Len(p) = 4
    PROVE  p[1] \in S /\ p[2] \in S /\ p[3] \in S /\ p[4] \in S
<1>1. \A i \in 1..4 : p[i] \in S
  BY ElementOfSeq
<1>2. 1 \in 1..4 /\ 2 \in 1..4 /\ 3 \in 1..4 /\ 4 \in 1..4
  OBVIOUS
<1>3. QED
  BY <1>1, <1>2

\* The five bytes of a priority.
Five(priority) ==
    LET bit == IF priority.exclusive THEN 2^7 ELSE 0
        dep == Digits(priority.dependency, 4)
    IN  <<bit + dep[1], dep[2], dep[3], dep[4], priority.weight - 1>>

\* A priority can be read back from them.
LEMMA FiveReadsBack ==
    ASSUME NEW x \in AnyPriority, x.dependency \div 2^24 < 2^7
    PROVE  /\ Five(x) \in Seq(Byte) /\ Len(Five(x)) = 5
           /\ Five(x)[1] >= 2^7 <=> x.exclusive
           /\ (Five(x)[1] % 2^7) * 2^24 + Five(x)[2] * 2^16 + Five(x)[3] * 2^8
                  + Five(x)[4] = x.dependency
           /\ Five(x)[5] + 1 = x.weight
<1> DEFINE d == Digits(x.dependency, 4)
           bit == IF x.exclusive THEN 2^7 ELSE 0
<1>1. x.exclusive \in BOOLEAN /\ x.dependency \in Nat /\ x.weight \in 1..256
  BY DEF AnyPriority
<1>2. /\ d[1] < 2^7
      /\ d[1] * 2^24 + d[2] * 2^16 + d[3] * 2^8 + d[4] = x.dependency
  BY <1>1, WordReadsBack, Zenon
<1>3. d[1] \in Byte /\ d[2] \in Byte /\ d[3] \in Byte /\ d[4] \in Byte
  <2>1. d \in Seq(Byte) /\ Len(d) = 4
    BY <1>1, DigitsAre, Zenon
  <2>2. QED
    BY <2>1, FourElements, Zenon
<1>4. Five(x) = <<bit + d[1], d[2], d[3], d[4], x.weight - 1>>
  BY DEF Five
<1> DEFINE d1 == d[1]
           d2 == d[2]
           d3 == d[3]
           d4 == d[4]
<1>5. /\ bit + d1 \in Byte /\ x.weight - 1 \in Byte
      /\ bit + d1 >= 2^7 <=> x.exclusive
      /\ (bit + d1) % 2^7 = d1
      /\ (x.weight - 1) + 1 = x.weight
  <2>1. d1 \in Byte /\ d1 < 2^7
    BY <1>2, <1>3
  <2> HIDE DEF d1
  <2>2. QED
    BY <1>1, <2>1 DEF Byte
<1> HIDE DEF bit, d
<1>6. /\ Five(x) \in Seq(Byte) /\ Len(Five(x)) = 5
      /\ Five(x)[1] = bit + d1 /\ Five(x)[2] = d2 /\ Five(x)[3] = d3
      /\ Five(x)[4] = d4 /\ Five(x)[5] = x.weight - 1
  <2> DEFINE w == x.weight - 1
             b == bit + d1
  <2>1. b \in Byte /\ d2 \in Byte /\ d3 \in Byte /\ d4 \in Byte /\ w \in Byte
    BY <1>3, <1>5
  <2>2. Five(x) = <<b, d2, d3, d4, w>>
    BY <1>4
  <2> HIDE DEF w, b, d2, d3, d4
  <2>3. /\ Five(x) \in Seq(Byte) /\ Len(Five(x)) = 5
        /\ Five(x)[1] = b /\ Five(x)[2] = d2 /\ Five(x)[3] = d3
        /\ Five(x)[4] = d4 /\ Five(x)[5] = w
    BY <2>1, <2>2
  <2>4. QED
    BY <2>3 DEF w, b
<1>7. QED
  BY <1>2, <1>5, <1>6, Zenon

\* What is assumed of a frame.
LEMMA SendableAre ==
    ASSUME NEW f \in Sendable
    PROVE  /\ f.type \in Byte \ {PUSH_PROMISE_FRAME} /\ f.flags \in Byte
           /\ f.sid \in Nat /\ f.sid \div 2^24 < 2^7
           /\ f.fragment \in Seq(Byte)
           /\ Len(Payload(f)) < 2^24
           /\ f.pad \in Byte \union {None}
           /\ f.priority \in AnyPriority \union {None}
           /\ f.priority # None => f.priority.dependency \div 2^24 < 2^7
           /\ f.pad # None <=> /\ HasFlag(f.flags, PADDED)
                               /\ f.type \in {DATA_FRAME, HEADERS_FRAME}
           /\ f.priority # None <=> /\ HasFlag(f.flags, PRIORITY)
                                    /\ f.type = HEADERS_FRAME
  BY SendableAssumption, Zenon

\* The bytes of the length of the padding and of the priority, and the padding.
Start(f) == IF f.pad = None THEN 0 ELSE 1
Extra(f) == IF f.priority = None THEN 0 ELSE 5
Pad(f)   == IF f.pad = None THEN 0 ELSE f.pad

\* What stands before the fragment.
LEMMA FieldsAre ==
    ASSUME NEW f \in Sendable
    PROVE  /\ Fields(f) \in Seq(Byte) /\ Len(Fields(f)) = Start(f) + Extra(f)
           /\ f.pad # None => Fields(f)[1] = f.pad
           /\ f.priority # None =>
                  \A i \in 1..5 : Fields(f)[Start(f) + i] = Five(f.priority)[i]
<1> DEFINE a == IF f.pad = None THEN <<>> ELSE <<f.pad>>
           b == IF f.priority = None THEN <<>> ELSE Five(f.priority)
<1>1. Fields(f) = a \o b
  BY Zenon DEF Fields, Five
<1>2. /\ a \in Seq(Byte) /\ Len(a) = Start(f) /\ Start(f) \in {0, 1}
      /\ f.pad # None => a[1] = f.pad /\ Start(f) = 1
  <2>1. f.pad \in Byte \union {None}
    BY SendableAre, Zenon
  <2>2. CASE f.pad = None
    BY <2>2 DEF Start
  <2>3. CASE f.pad # None
    <3> DEFINE pad == f.pad
    <3>1. pad \in Byte /\ a = <<pad>> /\ Start(f) = 1
      BY <2>1, <2>3 DEF Start
    <3> HIDE DEF pad, a
    <3>2. a \in Seq(Byte) /\ Len(a) = 1 /\ a[1] = pad
      BY <3>1
    <3>3. QED
      BY <3>1, <3>2 DEF pad
  <2>4. QED
    BY <2>2, <2>3
<1>3. /\ b \in Seq(Byte) /\ Len(b) = Extra(f)
      /\ f.priority # None => b = Five(f.priority) /\ Len(b) = 5
  <2>1. CASE f.priority = None
    BY <2>1 DEF Extra
  <2>2. CASE f.priority # None
    <3>1. f.priority \in AnyPriority /\ f.priority.dependency \div 2^24 < 2^7
      BY <2>2, SendableAre, Zenon
    <3>2. Five(f.priority) \in Seq(Byte) /\ Len(Five(f.priority)) = 5
      BY <3>1, FiveReadsBack, Zenon
    <3>3. QED
      BY <2>2, <3>2, Zenon DEF Extra
  <2>3. QED
    BY <2>1, <2>2
<1> HIDE DEF a, b
<1>4. /\ a \o b \in Seq(Byte) /\ Len(a \o b) = Len(a) + Len(b)
      /\ \A i \in 1..Len(a) : (a \o b)[i] = a[i]
      /\ \A i \in 1..Len(b) : (a \o b)[Len(a) + i] = b[i]
  BY <1>2, <1>3, Joined
<1>5. f.pad # None => (a \o b)[1] = f.pad
  <2>1. f.pad # None => 1 \in 1..Len(a)
    BY <1>2
  <2>2. QED
    BY <1>2, <1>4, <2>1
<1>6. QED
  BY <1>1, <1>2, <1>3, <1>4, <1>5

\* The payload of a frame.
LEMMA PayloadIs ==
    ASSUME NEW f \in Sendable
    PROVE  LET n == Start(f) + Extra(f) IN
           /\ Payload(f) \in Seq(Byte)
           /\ Len(Payload(f)) = n + Len(f.fragment) + Pad(f) /\ Pad(f) \in Nat
           /\ \A i \in 1..n : Payload(f)[i] = Fields(f)[i]
           /\ \A i \in 1..Len(f.fragment) : Payload(f)[n + i] = f.fragment[i]
<1> DEFINE a == Fields(f)
           b == f.fragment
           c == Padding(f)
           n == Start(f) + Extra(f)
           ab == a \o b
<1>1. Payload(f) = ab \o c
  BY DEF Payload
<1>2. a \in Seq(Byte) /\ Len(a) = n
  BY FieldsAre, Zenon
<1>3. b \in Seq(Byte)
  BY SendableAre, Zenon
<1>4. c \in Seq(Byte) /\ Len(c) = Pad(f) /\ Pad(f) \in Nat
  <2>1. Pad(f) \in Nat
    <3>1. f.pad \in Byte \union {None}
      BY SendableAre, Zenon
    <3>2. QED
      BY <3>1 DEF Pad, Byte
  <2>2. c = [i \in 1..Pad(f) |-> 0] /\ 0 \in Byte
    BY DEF Padding, Pad, Byte
  <2> HIDE DEF c
  <2>3. c \in [1..Pad(f) -> Byte]
    BY <2>2
  <2>4. QED
    BY <2>1, <2>3, AsSequence
<1> HIDE DEF a, b, c
<1>5. /\ ab \in Seq(Byte) /\ Len(ab) = Len(a) + Len(b)
      /\ \A i \in 1..Len(a) : ab[i] = a[i]
      /\ \A i \in 1..Len(b) : ab[Len(a) + i] = b[i]
  <2>1. a \in Seq(Byte) /\ b \in Seq(Byte)
    BY <1>2, <1>3
  <2>2. QED
    BY ONLY <2>1, Joined
<1> HIDE DEF ab, n
<1>6. /\ ab \o c \in Seq(Byte) /\ Len(ab \o c) = Len(ab) + Len(c)
      /\ \A i \in 1..Len(ab) : (ab \o c)[i] = ab[i]
  <2>1. ab \in Seq(Byte) /\ c \in Seq(Byte)
    BY <1>4, <1>5
  <2>2. QED
    BY ONLY <2>1, Joined
<1>7. Len(a) \in Nat /\ Len(b) \in Nat
  BY <1>2, <1>3
<1>8. /\ \A i \in 1..n : i \in 1..Len(ab)
      /\ \A i \in 1..Len(b) : n + i \in 1..Len(ab)
  BY <1>2, <1>5, <1>7
<1>9. /\ Payload(f) \in Seq(Byte)
      /\ Len(Payload(f)) = n + Len(b) + Pad(f)
  BY <1>1, <1>2, <1>4, <1>5, <1>6
<1>10. \A i \in 1..n : Payload(f)[i] = a[i]
  BY <1>1, <1>2, <1>5, <1>6, <1>8
<1>11. \A i \in 1..Len(b) : Payload(f)[n + i] = b[i]
  BY <1>1, <1>2, <1>5, <1>6, <1>8
<1>12. QED
  BY <1>4, <1>9, <1>10, <1>11 DEF a, b, n

\* The nine bytes before the payload.
Header(f) == Digits(Len(Payload(f)), 3) \o <<f.type, f.flags>> \o Digits(f.sid, 4)

\* What they are.
LEMMA HeadIs ==
    ASSUME NEW f \in Sendable
    PROVE  /\ Header(f) \in Seq(Byte) /\ Len(Header(f)) = 9
           /\ \A i \in 1..3 : Header(f)[i] = Digits(Len(Payload(f)), 3)[i]
           /\ Header(f)[4] = f.type /\ Header(f)[5] = f.flags
           /\ \A i \in 1..4 : Header(f)[5 + i] = Digits(f.sid, 4)[i]
<1> DEFINE a == Digits(Len(Payload(f)), 3)
           b == <<f.type, f.flags>>
           c == Digits(f.sid, 4)
           ab == a \o b
<1>1. Header(f) = ab \o c
  BY DEF Header
<1>2. a \in Seq(Byte) /\ Len(a) = 3
  <2>1. Len(Payload(f)) \in Nat
    BY PayloadIs
  <2>2. QED
    BY <2>1, DigitsAre, Zenon
<1>3. b \in Seq(Byte) /\ Len(b) = 2 /\ b[1] = f.type /\ b[2] = f.flags
  <2> DEFINE x == f.type
             y == f.flags
  <2>1. x \in Byte /\ y \in Byte /\ b = <<x, y>>
    BY SendableAre, Zenon
  <2> HIDE DEF x, y, b
  <2>2. b \in Seq(Byte) /\ Len(b) = 2 /\ b[1] = x /\ b[2] = y
    BY <2>1
  <2>3. QED
    BY <2>2 DEF x, y
<1>4. c \in Seq(Byte) /\ Len(c) = 4
  <2>1. f.sid \in Nat
    BY SendableAre, Zenon
  <2>2. QED
    BY <2>1, DigitsAre, Zenon
<1> HIDE DEF a, b, c
<1>5. /\ ab \in Seq(Byte) /\ Len(ab) = Len(a) + Len(b)
      /\ \A i \in 1..Len(a) : ab[i] = a[i]
      /\ \A i \in 1..Len(b) : ab[Len(a) + i] = b[i]
  <2>1. a \in Seq(Byte) /\ b \in Seq(Byte)
    BY <1>2, <1>3
  <2>2. QED
    BY ONLY <2>1, Joined
<1> HIDE DEF ab
<1>6. /\ ab \o c \in Seq(Byte) /\ Len(ab \o c) = Len(ab) + Len(c)
      /\ \A i \in 1..Len(ab) : (ab \o c)[i] = ab[i]
      /\ \A i \in 1..Len(c) : (ab \o c)[Len(ab) + i] = c[i]
  <2>1. ab \in Seq(Byte) /\ c \in Seq(Byte)
    BY <1>4, <1>5
  <2>2. QED
    BY ONLY <2>1, Joined
<1>7. Len(ab) = 5 /\ Len(ab \o c) = 9
  BY <1>2, <1>3, <1>4, <1>5, <1>6
<1>8. Header(f) \in Seq(Byte) /\ Len(Header(f)) = 9
  BY <1>1, <1>6, <1>7
<1>9. \A i \in 1..3 : Header(f)[i] = a[i]
  <2>1. \A i \in 1..3 : i \in 1..Len(a) /\ i \in 1..Len(ab)
    BY <1>2, <1>7
  <2>2. QED
    BY <1>1, <1>5, <1>6, <2>1
<1>10. Header(f)[4] = b[1] /\ Header(f)[5] = b[2]
  <2>1. 1 \in 1..Len(b) /\ 2 \in 1..Len(b) /\ 4 \in 1..Len(ab) /\ 5 \in 1..Len(ab)
        /\ Len(a) + 1 = 4 /\ Len(a) + 2 = 5
    BY <1>2, <1>3, <1>7
  <2>2. ab[Len(a) + 1] = b[1] /\ ab[Len(a) + 2] = b[2]
    BY <1>5, <2>1
  <2>3. QED
    BY <1>1, <1>6, <2>1, <2>2
<1>11. \A i \in 1..4 : Header(f)[5 + i] = c[i]
  BY <1>1, <1>4, <1>6, <1>7
<1>12. QED
  BY <1>3, <1>8, <1>9, <1>10, <1>11 DEF a, c

\* A frame on the wire.
LEMMA BytesAre ==
    ASSUME NEW f \in Sendable
    PROVE  /\ Bytes(f) \in Seq(Byte) /\ Len(Bytes(f)) = 9 + Len(Payload(f))
           /\ \A i \in 1..9 : Bytes(f)[i] = Header(f)[i]
           /\ \A i \in 1..Len(Payload(f)) : Bytes(f)[9 + i] = Payload(f)[i]
<1> DEFINE a == Header(f)
           b == Payload(f)
<1>1. Bytes(f) = a \o b
  BY DEF Bytes, encode, Header
<1>2. a \in Seq(Byte) /\ Len(a) = 9
  BY HeadIs, Zenon
<1>3. b \in Seq(Byte)
  BY PayloadIs
<1> HIDE DEF a, b
<1>4. /\ a \o b \in Seq(Byte) /\ Len(a \o b) = Len(a) + Len(b)
      /\ \A i \in 1..Len(a) : (a \o b)[i] = a[i]
      /\ \A i \in 1..Len(b) : (a \o b)[Len(a) + i] = b[i]
  <2>1. a \in Seq(Byte) /\ b \in Seq(Byte)
    BY <1>2, <1>3
  <2>2. QED
    BY ONLY <2>1, Joined
<1>5. QED
  BY <1>1, <1>2, <1>4 DEF a, b

-----------------------------------------------------------------------------
(* Reading a frame at curr. *)

\* The first m bytes of a frame stand at curr.
Stands(f, m) ==
    /\ curr \in Nat /\ end \in Nat
    /\ m \in 0..Len(Bytes(f))
    /\ \A i \in 1..m : recvBuffer[curr + i] = Bytes(f)[i]

\* They are read one by one,
LEMMA AtIs ==
    ASSUME NEW f \in Sendable, NEW m, Stands(f, m)
    PROVE  \A i \in 0..(m - 1) : At(i) = Bytes(f)[i + 1]
<1> TAKE i \in 0..(m - 1)
<1>1. curr \in Nat /\ m \in 0..Len(Bytes(f)) /\ Len(Bytes(f)) \in Nat
  <2>1. Bytes(f) \in Seq(Byte)
    BY BytesAre, Zenon
  <2>2. QED
    BY <2>1 DEF Stands
<1>2. i + 1 \in 1..m /\ curr + i + 1 = curr + (i + 1)
  BY <1>1
<1>3. recvBuffer[curr + (i + 1)] = Bytes(f)[i + 1]
  BY <1>2, Zenon DEF Stands
<1>4. QED
  BY <1>2, <1>3 DEF At

\* the header first,
LEMMA HeadRead ==
    ASSUME NEW f \in Sendable, NEW m, Stands(f, m), m >= 9
    PROVE  /\ Size = Len(Payload(f))
           /\ At(3) = f.type /\ At(4) = f.flags /\ Word(5) = f.sid
<1> DEFINE d == Digits(Len(Payload(f)), 3)
           w == Digits(f.sid, 4)
<1>1. m \in Nat
  <2>1. Len(Bytes(f)) \in Nat
    BY BytesAre
  <2>2. QED
    BY <2>1 DEF Stands
<1>2. \A i \in 0..8 : At(i) = Header(f)[i + 1]
  <2> TAKE i \in 0..8
  <2>1. i \in 0..(m - 1) /\ i + 1 \in 1..9
    BY <1>1
  <2>2. At(i) = Bytes(f)[i + 1]
    BY <2>1, AtIs, Zenon
  <2>3. Bytes(f)[i + 1] = Header(f)[i + 1]
    BY <2>1, BytesAre, Zenon
  <2>4. QED
    BY <2>2, <2>3
<1>3. /\ At(0) = Header(f)[1] /\ At(1) = Header(f)[2] /\ At(2) = Header(f)[3]
      /\ At(3) = Header(f)[4] /\ At(4) = Header(f)[5] /\ At(5) = Header(f)[6]
      /\ At(6) = Header(f)[7] /\ At(7) = Header(f)[8] /\ At(8) = Header(f)[9]
  <2> HIDE DEF At
  <2>1. QED
    BY <1>2
<1>4. /\ Header(f)[1] = d[1] /\ Header(f)[2] = d[2] /\ Header(f)[3] = d[3]
      /\ Header(f)[4] = f.type /\ Header(f)[5] = f.flags
      /\ Header(f)[6] = w[1] /\ Header(f)[7] = w[2] /\ Header(f)[8] = w[3]
      /\ Header(f)[9] = w[4]
  <2>1. /\ \A i \in 1..3 : Header(f)[i] = d[i]
        /\ Header(f)[4] = f.type /\ Header(f)[5] = f.flags
        /\ \A i \in 1..4 : Header(f)[5 + i] = w[i]
    BY HeadIs, Zenon
  <2> HIDE DEF d, w
  <2>2. QED
    BY <2>1
<1>5. d[1] * 2^16 + d[2] * 2^8 + d[3] = Len(Payload(f))
  <2>1. Len(Payload(f)) \in Nat
    BY PayloadIs
  <2>2. Len(Payload(f)) < 2^24
    BY SendableAre, Zenon
  <2>3. QED
    BY <2>1, <2>2, LengthReadsBack, Zenon
<1>6. w[1] < 2^7 /\ w[1] * 2^24 + w[2] * 2^16 + w[3] * 2^8 + w[4] = f.sid
  <2>1. f.sid \in Nat /\ f.sid \div 2^24 < 2^7
    BY SendableAre, Zenon
  <2>2. QED
    BY <2>1, WordReadsBack, Zenon
<1>7. w[1] % 2^7 = w[1]
  <2>1. w[1] \in Byte
    <3>1. f.sid \in Nat
      BY SendableAre, Zenon
    <3>2. w \in Seq(Byte) /\ Len(w) = 4
      BY <3>1, DigitsAre, Zenon
    <3>3. QED
      BY <3>2, FourElements, Zenon
  <2> DEFINE x == w[1]
  <2> HIDE DEF x, w
  <2>2. x \in Byte /\ x < 2^7
    BY <1>6, <2>1 DEF x
  <2>3. x % 2^7 = x
    BY <2>2 DEF Byte
  <2>4. QED
    BY <2>3 DEF x
<1>8. Size = Len(Payload(f))
  BY <1>3, <1>4, <1>5, Zenon DEF Size
<1>9. 5 + 1 = 6 /\ 5 + 2 = 7 /\ 5 + 3 = 8
  OBVIOUS
<1>10. Word(5) = f.sid
  BY <1>3, <1>4, <1>6, <1>7, <1>9, Zenon DEF Word
<1>11. QED
  BY <1>3, <1>4, <1>8, <1>10, Zenon

\* then the payload,
LEMMA PayloadRead ==
    ASSUME NEW f \in Sendable, Stands(f, Len(Bytes(f)))
    PROVE  \A i \in 1..Len(Payload(f)) :
               /\ recvBuffer[curr + 9 + i] = Payload(f)[i]
               /\ At(8 + i) = Payload(f)[i]
<1> TAKE i \in 1..Len(Payload(f))
<1>1. curr \in Nat /\ Len(Payload(f)) \in Nat
  <2>1. Payload(f) \in Seq(Byte)
    BY PayloadIs
  <2>2. QED
    BY <2>1 DEF Stands
<1>2. Len(Bytes(f)) = 9 + Len(Payload(f)) /\ Bytes(f)[9 + i] = Payload(f)[i]
  BY BytesAre, Zenon
<1>3. /\ 9 + i \in 1..Len(Bytes(f))
      /\ curr + (9 + i) = curr + 9 + i /\ curr + (8 + i) + 1 = curr + 9 + i
  BY <1>1, <1>2
<1>4. recvBuffer[curr + (9 + i)] = Bytes(f)[9 + i]
  BY <1>3, Zenon DEF Stands
<1>5. QED
  BY <1>2, <1>3, <1>4, Zenon DEF At

\* the length of the padding and the priority,
LEMMA FieldsRead ==
    ASSUME NEW f \in Sendable, Stands(f, Len(Bytes(f)))
    PROVE  /\ f.pad # None => At(9) = f.pad
           /\ f.priority # None => Priority(9 + Start(f)) = f.priority
<1> DEFINE s == Start(f)
           n == Start(f) + Extra(f)
<1>1. s \in {0, 1} /\ n \in Nat /\ (f.pad # None => s = 1)
  BY DEF Start, Extra
<1>2. /\ Len(Payload(f)) = n + Len(f.fragment) + Pad(f) /\ Pad(f) \in Nat
      /\ \A i \in 1..n : Payload(f)[i] = Fields(f)[i]
  BY PayloadIs, Zenon
<1>3. Len(f.fragment) \in Nat
  <2>1. f.fragment \in Seq(Byte)
    BY SendableAre, Zenon
  <2>2. QED
    BY <2>1
<1>4. \A i \in 1..n : At(8 + i) = Fields(f)[i]
  <2>1. \A i \in 1..n : i \in 1..Len(Payload(f))
    <3> HIDE DEF n
    <3>1. QED
      BY <1>1, <1>2, <1>3
  <2> HIDE DEF n
  <2>2. QED
    BY <1>2, <2>1, PayloadRead, Zenon
<1>5. ASSUME f.pad # None PROVE At(9) = f.pad
  <2>1. 1 \in 1..n /\ 8 + 1 = 9
    BY <1>5 DEF Start, Extra
  <2>2. Fields(f)[1] = f.pad
    BY <1>5, FieldsAre, Zenon
  <2> HIDE DEF n
  <2>3. QED
    BY <1>4, <2>1, <2>2
<1>6. ASSUME f.priority # None PROVE Priority(9 + s) = f.priority
  <2> DEFINE x == f.priority
             v == Five(x)
  <2>1. n = s + 5
    BY <1>6 DEF Extra
  <2>2. \A i \in 1..5 : At(8 + (s + i)) = v[i]
    <3>1. \A i \in 1..5 : s + i \in 1..n
      BY <1>1, <2>1
    <3>2. \A i \in 1..5 : Fields(f)[s + i] = v[i]
      BY <1>6, FieldsAre, Zenon
    <3> HIDE DEF n, s, v
    <3>3. QED
      BY <1>4, <3>1, <3>2
  <2>3. /\ At(9 + s) = v[1] /\ At((9 + s) + 1) = v[2] /\ At((9 + s) + 2) = v[3]
        /\ At((9 + s) + 3) = v[4] /\ At((9 + s) + 4) = v[5]
    <3>1. /\ 8 + (s + 1) = 9 + s /\ 8 + (s + 2) = (9 + s) + 1
          /\ 8 + (s + 3) = (9 + s) + 2 /\ 8 + (s + 4) = (9 + s) + 3
          /\ 8 + (s + 5) = (9 + s) + 4
      BY <1>1
    <3>2. 1 \in 1..5 /\ 2 \in 1..5 /\ 3 \in 1..5 /\ 4 \in 1..5 /\ 5 \in 1..5
      OBVIOUS
    <3> HIDE DEF s, v
    <3>3. QED
      BY <2>2, <3>1, <3>2, Zenon
  <2>4. x \in AnyPriority /\ x.dependency \div 2^24 < 2^7
    BY <1>6, SendableAre, Zenon
  <2>5. /\ v[1] >= 2^7 <=> x.exclusive
        /\ (v[1] % 2^7) * 2^24 + v[2] * 2^16 + v[3] * 2^8 + v[4] = x.dependency
        /\ v[5] + 1 = x.weight
    BY <2>4, FiveReadsBack, Zenon
  <2> HIDE DEF s, v, x
  <2>6. /\ At(9 + s) >= 2^7 <=> x.exclusive
        /\ Word(9 + s) = x.dependency /\ At((9 + s) + 4) + 1 = x.weight
    BY <2>3, <2>5, Zenon DEF Word
  <2>7. x.exclusive \in BOOLEAN /\ (At(9 + s) >= 2^7) \in BOOLEAN
    BY <2>4 DEF AnyPriority
  <2>8. x = [exclusive |-> x.exclusive, dependency |-> x.dependency, weight |-> x.weight]
    BY <2>4 DEF AnyPriority
  <2>9. (At(9 + s) >= 2^7) = x.exclusive
    BY <2>6, <2>7
  <2>10. Priority(9 + s) = x
    BY <2>6, <2>8, <2>9, Zenon DEF Priority
  <2>11. QED
    BY <2>10 DEF x
<1>7. QED
  BY <1>5, <1>6

\* and all of it is what was meant, unless it is refused.
LEMMA DecodeIs ==
    ASSUME NEW f \in Sendable, Stands(f, Len(Bytes(f))),
           recvBuffer \in Seq(Byte), curr + Len(Bytes(f)) <= end,
           end <= Len(recvBuffer)
    PROVE  /\ decode = Meant(f) \/ decode \in Refused(f)
           /\ Len(f.fragment) >= Len(Fields(f)) => decode = Meant(f)
<1> DEFINE s == Start(f)
           e == Extra(f)
           k == Len(f.fragment)
           pad == IF /\ HasFlag(At(4), PADDED)
                     /\ At(3) \in {HEADERS_FRAME, PUSH_PROMISE_FRAME, DATA_FRAME}
                  THEN At(9) ELSE None
           start == IF pad = None THEN 0 ELSE 1
           five == IF /\ HasFlag(At(4), PRIORITY)
                      /\ At(3) \in {HEADERS_FRAME, PUSH_PROMISE_FRAME}
                   THEN 5 ELSE 0
           size == Taken(pad, five)
           priority == IF five = 0 THEN None ELSE Priority(9 + start)
           from == curr + 9 + start + five
<1>1. curr \in Nat /\ end \in Nat /\ k \in Nat /\ Len(recvBuffer) \in Nat
  <2>1. f.fragment \in Seq(Byte)
    BY SendableAre, Zenon
  <2>2. QED
    BY <2>1 DEF Stands
<1>2. /\ Len(Bytes(f)) = 9 + Len(Payload(f))
      /\ Len(Payload(f)) = s + e + k + Pad(f) /\ Pad(f) \in Nat
      /\ \A i \in 1..k : Payload(f)[s + e + i] = f.fragment[i]
  BY BytesAre, PayloadIs, Zenon
<1>3. s \in {0, 1} /\ e \in {0, 5}
  BY DEF Start, Extra
<1>4. Size = Len(Payload(f)) /\ At(3) = f.type /\ At(4) = f.flags /\ Word(5) = f.sid
  <2>1. Len(Bytes(f)) >= 9
    BY <1>1, <1>2, <1>3
  <2>2. QED
    BY <2>1, HeadRead, Zenon
<1>5. f.type # PUSH_PROMISE_FRAME
  BY SendableAre, Zenon
<1>6. pad = f.pad
  <2>1. f.pad # None <=> /\ HasFlag(f.flags, PADDED)
                         /\ f.type \in {DATA_FRAME, HEADERS_FRAME}
    BY SendableAre, Zenon
  <2>2. f.pad # None => At(9) = f.pad
    BY FieldsRead, Zenon
  <2>3. QED
    BY <1>4, <1>5, <2>1, <2>2, Zenon
<1>7. five = e /\ (five = 0 <=> f.priority = None)
  <2>1. f.priority # None <=> HasFlag(f.flags, PRIORITY) /\ f.type = HEADERS_FRAME
    BY SendableAre, Zenon
  <2>2. f.priority # None <=> /\ HasFlag(At(4), PRIORITY)
                              /\ At(3) \in {HEADERS_FRAME, PUSH_PROMISE_FRAME}
    BY <1>4, <1>5, <2>1, Zenon
  <2>3. 5 # 0
    OBVIOUS
  <2>4. QED
    BY <2>2, <2>3, Zenon DEF Extra
<1>8. start = s
  BY <1>6, Zenon DEF Start
<1>9. priority = f.priority
  <2>1. f.priority # None => Priority(9 + s) = f.priority
    BY FieldsRead, Zenon
  <2>2. QED
    BY <1>7, <1>8, <2>1, Zenon
<1>10. Taken(pad, five) = k /\ Taken(pad, 0) = e + k
  <2>1. Pad(f) + s = IF f.pad = None THEN 0 ELSE f.pad + 1
    BY <1>2 DEF Pad, Start
  <2>2. \A j \in {0, 5} : Taken(f.pad, j) = Size - (Pad(f) + s) - j
    BY <2>1, Zenon DEF Taken
  <2> HIDE DEF s, e, k
  <2>3. Size - (Pad(f) + s) - e = k /\ Size - (Pad(f) + s) - 0 = e + k
    <3> DEFINE q == Pad(f)
    <3>1. Size = s + e + k + q /\ q \in Nat
      BY <1>2, <1>4, Zenon
    <3> HIDE DEF q
    <3>2. Size - (q + s) - e = k /\ Size - (q + s) - 0 = e + k
      BY <1>1, <1>3, <3>1
    <3>3. QED
      BY <3>2 DEF q
  <2>4. QED
    BY <1>3, <1>6, <1>7, <2>2, <2>3
<1>11. Complete
  <2>1. end - curr >= 9 + Size /\ end - curr >= 9
    <3> HIDE DEF s, e, k
    <3>1. QED
      BY <1>1, <1>2, <1>3, <1>4
  <2>2. QED
    BY <2>1, Zenon DEF Complete
<1>12. SubSeq(recvBuffer, from + 1, from + k) = f.fragment
  <2> DEFINE g == SubSeq(recvBuffer, from + 1, from + k)
             m == s + e
  <2>1. from = curr + 9 + m /\ m \in Nat
    <3> HIDE DEF s, e, start, five
    <3>1. QED
      BY <1>1, <1>3, <1>7, <1>8
  <2>2. from \in Nat /\ from + k <= Len(recvBuffer) /\ m + k <= Len(Payload(f))
    <3> HIDE DEF s, e, k, from
    <3>1. QED
      BY <1>1, <1>2, <1>3, <2>1
  <2>3. \A i \in 1..k : recvBuffer[from + i] = f.fragment[i]
    <3> TAKE i \in 1..k
    <3>1. m + i \in 1..Len(Payload(f)) /\ curr + 9 + (m + i) = from + i
      <4> HIDE DEF m, k, from
      <4>1. QED
        BY <1>1, <1>2, <2>1, <2>2
    <3>2. recvBuffer[curr + 9 + (m + i)] = Payload(f)[m + i]
      BY <3>1, PayloadRead, Zenon
    <3>3. QED
      BY <1>2, <3>1, <3>2, Zenon
  <2>4. f.fragment \in Seq(Byte)
    BY SendableAre, Zenon
  <2> HIDE DEF from
  <2>5. QED
    BY <1>1, <2>2, <2>3, <2>4
<1>13. decode = IF e + k < (IF e = 0 THEN 0 ELSE e + s) THEN Decoded(<<>>, None)
                ELSE IF k < s + e THEN Decoded(<<>>, f.priority)
                ELSE Decoded(f.fragment, f.priority)
  <2>1. decode = IF ~Complete THEN NewFrame
                 ELSE IF Taken(pad, 0) < (IF five = 0 THEN 0 ELSE five + start)
                 THEN Decoded(<<>>, None)
                 ELSE IF size < start + five THEN Decoded(<<>>, priority)
                 ELSE Decoded(SubSeq(recvBuffer, from + 1, from + size), priority)
    BY Zenon DEF decode
  <2> HIDE DEF s, e, k, pad, start, five, priority, from
  <2>2. QED
    BY <1>7, <1>8, <1>9, <1>10, <1>11, <1>12, <2>1
<1>14. \A payload, prio : Decoded(payload, prio) = With(f, payload, prio)
  BY <1>4, Zenon DEF Decoded, With
<1>15. Len(Fields(f)) = s + e
  BY FieldsAre, Zenon
<1>16. k >= s + e => ~(e + k < (IF e = 0 THEN 0 ELSE e + s)) /\ ~(k < s + e)
  <2> HIDE DEF s, e, k
  <2>1. QED
    BY <1>1, <1>3
<1>17. QED
  <2> HIDE DEF s, e, k
  <2>1. /\ decode = With(f, <<>>, None) \/ decode = With(f, <<>>, f.priority)
              \/ decode = With(f, f.fragment, f.priority)
        /\ k >= s + e => decode = With(f, f.fragment, f.priority)
    BY <1>13, <1>14, <1>16
  <2>2. QED
    BY <1>15, <2>1, Zenon DEF Meant, Refused, k

\* A frame that ends behind the bytes of the read does not decode, and the walk
\* leaves the read with it.
LEMMA TornIs ==
    ASSUME NEW f \in Sendable, Stands(f, end - curr),
           end - curr < Len(Bytes(f)), curr < end,
           recvBuffer \in Seq(Byte), Len(recvBuffer) = end + 9
    PROVE  decode = NewFrame /\ Size \in Nat /\ curr + 9 + Size > end
<1>1. curr \in Nat /\ end \in Nat /\ end - curr \in Nat
  BY DEF Stands
<1>2. Size \in Nat
  <2>1. \A i \in {0, 1, 2} : At(i) \in Byte
    <3> TAKE i \in {0, 1, 2}
    <3>1. curr + i + 1 \in 1..Len(recvBuffer)
      BY <1>1
    <3>2. QED
      BY <3>1, ElementOfSeq DEF At
  <2> DEFINE x == At(0)
             y == At(1)
             z == At(2)
  <2>2. Size = x * 2^16 + y * 2^8 + z
    BY Zenon DEF Size
  <2>3. x \in Byte /\ y \in Byte /\ z \in Byte
    BY <2>1
  <2> HIDE DEF x, y, z
  <2>4. x * 2^16 + y * 2^8 + z \in Nat
    BY <2>3 DEF Byte
  <2>5. QED
    BY <2>2, <2>4
<1>3. CASE end - curr < 9
  BY <1>1, <1>2, <1>3 DEF decode, Complete
<1>4. CASE end - curr >= 9
  <2>1. Size = Len(Payload(f))
    BY <1>4, HeadRead, Zenon
  <2>2. Len(Bytes(f)) = 9 + Len(Payload(f))
    BY BytesAre, Zenon
  <2>3. ~(end - curr >= 9 + Size) /\ curr + 9 + Size > end
    BY <1>1, <1>2, <2>1, <2>2
  <2>4. decode = NewFrame
    BY <2>3, Zenon DEF decode, Complete
  <2>5. QED
    BY <1>2, <2>3, <2>4
<1>5. QED
  BY <1>1, <1>3, <1>4

-----------------------------------------------------------------------------
(* Frames one after the other. *)

\* Laid puts a frame behind the others.
LEMMA LaidIs ==
    ASSUME NEW fs \in Seq(Sendable)
    PROVE  /\ Laid(fs)[0] = <<>>
           /\ \A k \in 1..Len(fs) : Laid(fs)[k] = Laid(fs)[k - 1] \o Bytes(fs[k])
           /\ \A k \in 0..Len(fs) : Laid(fs)[k] \in Seq(Byte)
<1> DEFINE n == Len(fs)
           B == Seq(Byte)
           G == [k \in 1..n |-> [x \in B |-> x \o Bytes(fs[k])]]
           b(k) == Bytes(fs[k])
<1>1. n \in Nat /\ \A k \in 1..n : b(k) \in B
  <2>1. \A k \in 1..n : fs[k] \in Sendable
    OBVIOUS
  <2>2. \A f \in Sendable : Bytes(f) \in B
    BY BytesAre, Zenon
  <2>3. n \in Nat
    OBVIOUS
  <2> HIDE DEF n, B
  <2>4. QED
    BY <2>1, <2>2, <2>3
<1>2. /\ <<>> \in B
      /\ \A x \in B, y \in B : x \o y \in B
  OBVIOUS
<1>3. G \in [1..n -> [B -> B]]
  <2> HIDE DEF B, b
  <2>1. \A k \in 1..n : [x \in B |-> x \o b(k)] \in [B -> B]
    BY <1>1, <1>2
  <2>2. G = [k \in 1..n |-> [x \in B |-> x \o b(k)]]
    BY DEF b
  <2> HIDE DEF G
  <2>3. QED
    BY <2>1, <2>2
<1>4. PICK f : Builds(f, n, B, <<>>, G)
  <2> HIDE DEF B, G, n
  <2>1. n \in Nat /\ <<>> \in B /\ G \in [1..n -> [B -> B]]
    BY <1>1, <1>2, <1>3
  <2>2. QED
    BY <2>1, BuiltUp
<1> USE DEF Builds
<1>5. \A k \in 1..n : f[k] = f[k - 1] \o b(k)
  <2> HIDE DEF B
  <2>1. \A k \in 1..n : k - 1 \in 0..n
    BY <1>1
  <2>2. \A k \in 1..n : f[k - 1] \in B
    BY <1>4, <2>1
  <2>3. QED
    BY <1>4, <2>2
<1>6. f = [k \in 0..n |-> IF k = 0 THEN <<>> ELSE f[k - 1] \o b(k)]
  <2> HIDE DEF B, b, G
  <2>1. \A k \in 0..n : k # 0 => k \in 1..n
    BY <1>1
  <2>2. QED
    BY <1>4, <1>5, <2>1
<1> DEFINE r == Laid(fs)
           T == {k \in Nat : k <= n => r[k] \in B}
<1>7. r = [k \in 0..n |-> IF k = 0 THEN <<>> ELSE r[k - 1] \o b(k)]
  BY <1>6 DEF Laid
<1> HIDE DEF r, b, B, n
<1>8. r[0] = <<>> /\ \A k \in 1..n : r[k] = r[k - 1] \o b(k)
  <2>1. 0 \in 0..n /\ \A k \in 1..n : k \in 0..n /\ k # 0
    BY <1>1
  <2>2. QED
    BY <1>7, <2>1, Zenon
<1>9. T = Nat
  <2>1. 0 \in T
    BY <1>2, <1>8
  <2>2. ASSUME NEW k \in T PROVE k + 1 \in T
    <3>1. k \in Nat /\ (k <= n => r[k] \in B)
      OBVIOUS
    <3>2. CASE k + 1 <= n
      <4>1. k + 1 \in 1..n /\ (k + 1) - 1 = k /\ k <= n
        BY <1>1, <3>1, <3>2
      <4>2. r[k + 1] = r[k] \o b(k + 1) /\ b(k + 1) \in B
        BY <1>1, <1>8, <4>1
      <4>3. r[k + 1] \in B
        BY <1>2, <3>1, <4>1, <4>2, Zenon
      <4>4. QED
        BY <3>1, <4>3
    <3>3. QED
      BY <3>1, <3>2
  <2>3. T \subseteq Nat
    OBVIOUS
  <2> HIDE DEF T
  <2>4. QED
    BY <2>1, <2>2, <2>3, Induct
<1>10. \A k \in 0..n : r[k] \in B
  BY <1>1, <1>9
<1>11. QED
  BY <1>8, <1>10 DEF r, b, B, n

\* How far the first k frames reach.
Reach(fs, k) == Len(Laid(fs)[k])

\* The next frame follows where the first ones end.
LEMMA NextFrame ==
    ASSUME NEW fs \in Seq(Sendable), NEW k \in 0..(Len(fs) - 1)
    PROVE  /\ fs[k + 1] \in Sendable
           /\ Reach(fs, k) \in Nat
           /\ Reach(fs, k + 1) = Reach(fs, k) + Len(Bytes(fs[k + 1]))
           /\ Reach(fs, k + 1) >= Reach(fs, k) + 9
           /\ \A i \in 1..Reach(fs, k) : Laid(fs)[k + 1][i] = Laid(fs)[k][i]
           /\ \A i \in 1..Len(Bytes(fs[k + 1])) :
                  Laid(fs)[k + 1][Reach(fs, k) + i] = Bytes(fs[k + 1])[i]
<1> DEFINE p == Laid(fs)[k]
           q == Bytes(fs[k + 1])
<1>1. k \in Nat /\ k \in 0..Len(fs) /\ k + 1 \in 1..Len(fs) /\ (k + 1) - 1 = k
  OBVIOUS
<1>2. fs[k + 1] \in Sendable
  BY <1>1, ElementOfSeq
<1>3. q \in Seq(Byte) /\ Len(q) = 9 + Len(Payload(fs[k + 1]))
  BY <1>2, BytesAre, Zenon
<1>4. Len(Payload(fs[k + 1])) \in Nat
  <2>1. Payload(fs[k + 1]) \in Seq(Byte)
    BY <1>2, PayloadIs, Zenon
  <2>2. QED
    BY <2>1
<1>5. p \in Seq(Byte)
  BY <1>1, LaidIs, Zenon
<1>6. Laid(fs)[k + 1] = p \o q
  <2>1. Laid(fs)[k + 1] = Laid(fs)[(k + 1) - 1] \o q
    BY <1>1, LaidIs, Zenon
  <2>2. QED
    BY <1>1, <2>1, Zenon
<1> HIDE DEF p, q
<1>7. /\ p \o q \in Seq(Byte) /\ Len(p \o q) = Len(p) + Len(q)
      /\ \A i \in 1..Len(p) : (p \o q)[i] = p[i]
      /\ \A i \in 1..Len(q) : (p \o q)[Len(p) + i] = q[i]
  <2>1. p \in Seq(Byte) /\ q \in Seq(Byte)
    BY <1>3, <1>5
  <2>2. QED
    BY ONLY <2>1, Joined
<1>8. Reach(fs, k) = Len(p) /\ Len(p) \in Nat /\ Reach(fs, k + 1) = Len(p) + Len(q)
  <2>1. Len(p) \in Nat
    BY <1>5
  <2>2. QED
    BY <1>6, <1>7, <2>1, Zenon DEF Reach, p
<1>9. Len(p) + Len(q) >= Len(p) + 9
  BY <1>3, <1>4, <1>8
<1>10. QED
  BY <1>2, <1>6, <1>7, <1>8, <1>9, Zenon DEF p, q

\* What the first j frames are stays when more are added.
Begins(fs, j, k) ==
    /\ Reach(fs, j) \in Nat /\ Reach(fs, k) \in Nat
    /\ Reach(fs, k) >= Reach(fs, j)
    /\ j < k => Reach(fs, k) >= Reach(fs, j) + 9
    /\ \A i \in 1..Reach(fs, j) : Laid(fs)[k][i] = Laid(fs)[j][i]

LEMMA LaidGrows ==
    ASSUME NEW fs \in Seq(Sendable)
    PROVE  \A k \in 0..Len(fs), j \in 0..Len(fs) : j <= k => Begins(fs, j, k)
<1> DEFINE n == Len(fs)
           T == {k \in Nat : \A j \in 0..n : k <= n /\ j <= k => Begins(fs, j, k)}
<1>1. n \in Nat
  OBVIOUS
<1>2. \A j \in 0..n : Begins(fs, j, j)
  <2> TAKE j \in 0..n
  <2>1. Laid(fs)[j] \in Seq(Byte)
    BY LaidIs, Zenon
  <2>2. Reach(fs, j) \in Nat
    BY <2>1 DEF Reach
  <2> HIDE DEF n
  <2>3. QED
    BY <1>1, <2>2 DEF Begins
<1>3. ASSUME NEW k \in 0..(n - 1), NEW j \in 0..n, j <= k, Begins(fs, j, k)
      PROVE  Begins(fs, j, k + 1)
  <2>1. /\ Reach(fs, k) \in Nat
        /\ Reach(fs, k + 1) >= Reach(fs, k) + 9
        /\ Reach(fs, k + 1) = Reach(fs, k) + Len(Bytes(fs[k + 1]))
        /\ \A i \in 1..Reach(fs, k) : Laid(fs)[k + 1][i] = Laid(fs)[k][i]
    BY NextFrame, Zenon
  <2>2. Reach(fs, k + 1) \in Nat
    <3>1. k + 1 \in 0..n
      BY <1>1
    <3>2. Laid(fs)[k + 1] \in Seq(Byte)
      BY <3>1, LaidIs, Zenon
    <3>3. QED
      BY <3>2 DEF Reach
  <2>3. /\ Reach(fs, j) \in Nat /\ Reach(fs, k) >= Reach(fs, j)
        /\ \A i \in 1..Reach(fs, j) : Laid(fs)[k][i] = Laid(fs)[j][i]
    BY <1>3 DEF Begins
  <2>4. \A i \in 1..Reach(fs, j) : i \in 1..Reach(fs, k)
    BY <2>1, <2>3
  <2>5. /\ Reach(fs, k + 1) >= Reach(fs, j) + 9
        /\ Reach(fs, k + 1) >= Reach(fs, j)
    BY <2>1, <2>2, <2>3
  <2>6. QED
    BY <2>1, <2>2, <2>3, <2>4, <2>5, Zenon DEF Begins
<1> HIDE DEF n
<1>4. T = Nat
  <2>1. 0 \in T
    <3>1. \A j \in 0..n : j <= 0 => j = 0
      BY <1>1
    <3>2. QED
      BY <1>2, <3>1
  <2>2. ASSUME NEW k \in T PROVE k + 1 \in T
    <3>1. k \in Nat /\ \A j \in 0..n : k <= n /\ j <= k => Begins(fs, j, k)
      OBVIOUS
    <3>2. ASSUME NEW j \in 0..n, k + 1 <= n, j <= k + 1
          PROVE  Begins(fs, j, k + 1)
      <4>1. k \in 0..(n - 1) /\ k <= n
        BY <1>1, <3>1, <3>2
      <4>2. CASE j = k + 1
        BY <1>2, <4>2
      <4>3. CASE j # k + 1
        <5>1. j <= k
          BY <1>1, <3>1, <3>2, <4>3
        <5>2. QED
          BY <1>3, <3>1, <4>1, <5>1
      <4>4. QED
        BY <4>2, <4>3
    <3>3. QED
      BY <3>1, <3>2
  <2>3. T \subseteq Nat
    OBVIOUS
  <2> HIDE DEF T
  <2>4. QED
    BY <2>1, <2>2, <2>3, Induct
<1>5. QED
  BY <1>1, <1>4 DEF n

\* Each frame stands in the stream behind those before it.
LEMMA Placed ==
    ASSUME NEW fs \in Seq(Sendable), NEW k \in 0..(Len(fs) - 1)
    PROVE  /\ Reach(fs, k + 1) <= Len(Wire(fs))
           /\ \A i \in 1..Len(Bytes(fs[k + 1])) :
                  Wire(fs)[Reach(fs, k) + i] = Bytes(fs[k + 1])[i]
<1> DEFINE n == Len(fs)
           m == Len(Bytes(fs[k + 1]))
<1>1. k + 1 \in 0..n /\ n \in 0..n /\ k + 1 <= n
  OBVIOUS
<1>2. Begins(fs, k + 1, n)
  BY <1>1, LaidGrows, Zenon
<1>3. Wire(fs) = Laid(fs)[n] /\ Len(Wire(fs)) = Reach(fs, n)
  BY Zenon DEF Wire, Reach
<1>4. /\ Reach(fs, k) \in Nat
      /\ Reach(fs, k + 1) = Reach(fs, k) + m
      /\ \A i \in 1..m : Laid(fs)[k + 1][Reach(fs, k) + i] = Bytes(fs[k + 1])[i]
  BY NextFrame, Zenon
<1>5. m \in Nat
  <2>1. fs[k + 1] \in Sendable
    BY NextFrame, Zenon
  <2>2. Bytes(fs[k + 1]) \in Seq(Byte)
    BY <2>1, BytesAre, Zenon
  <2>3. QED
    BY <2>2
<1> HIDE DEF m, n
<1>6. \A i \in 1..m : Reach(fs, k) + i \in 1..Reach(fs, k + 1)
  BY <1>4, <1>5
<1>7. /\ Reach(fs, k + 1) \in Nat /\ Reach(fs, n) \in Nat
      /\ Reach(fs, n) >= Reach(fs, k + 1)
      /\ \A i \in 1..Reach(fs, k + 1) : Laid(fs)[n][i] = Laid(fs)[k + 1][i]
  BY <1>2, Zenon DEF Begins
<1>8. Reach(fs, k + 1) <= Reach(fs, n)
  BY <1>7
<1>9. QED
  BY <1>3, <1>4, <1>6, <1>7, <1>8, Zenon DEF m

\* How many of the first frames end within b bytes.
Within(fs, b) == Max({k \in 0..Len(fs) : Reach(fs, k) <= b})

LEMMA WithinIs ==
    ASSUME NEW fs \in Seq(Sendable), NEW b \in Nat
    PROVE  /\ Within(fs, b) \in 0..Len(fs)
           /\ \A k \in 0..Len(fs) : Reach(fs, k) <= b <=> k <= Within(fs, b)
<1> DEFINE n == Len(fs)
           T == {k \in 0..n : Reach(fs, k) <= b}
           w == Within(fs, b)
<1>1. n \in Nat /\ 0 \in 0..n
  OBVIOUS
<1>2. T \subseteq 0..n /\ 0 \in T
  <2>1. Reach(fs, 0) = 0
    <3>1. Laid(fs)[0] = <<>>
      BY LaidIs, Zenon
    <3>2. Len(<<>>) = 0
      OBVIOUS
    <3>3. QED
      BY <3>1, <3>2, Zenon DEF Reach
  <2> HIDE DEF n
  <2>2. QED
    BY <1>1, <2>1
<1>3. w \in T /\ \A k \in T : w >= k
  <2>1. w = Max(T)
    BY DEF Within
  <2> HIDE DEF T, n, w
  <2>2. Max(T) \in T /\ \A k \in T : Max(T) >= k
    BY <1>1, <1>2, Highest
  <2>3. QED
    BY <2>1, <2>2
<1>4. w \in 0..n /\ Reach(fs, w) <= b
  <2> HIDE DEF w, n
  <2>1. QED
    BY <1>3
<1>5. ASSUME NEW k \in 0..n, k <= w PROVE Reach(fs, k) <= b
  <2>1. Begins(fs, k, w)
    BY <1>4, <1>5, LaidGrows, Zenon
  <2>2. Reach(fs, w) >= Reach(fs, k) /\ Reach(fs, w) \in Nat /\ Reach(fs, k) \in Nat
    BY <2>1 DEF Begins
  <2> HIDE DEF w, n
  <2>3. QED
    BY <1>4, <2>2
<1>6. ASSUME NEW k \in 0..n, Reach(fs, k) <= b PROVE k <= w
  <2>1. k \in T
    BY <1>6
  <2>2. w >= k
    BY <1>3, <2>1
  <2> HIDE DEF w, n
  <2>3. QED
    BY <1>4, <2>2
<1> HIDE DEF w, n, T
<1>7. QED
  BY <1>4, <1>5, <1>6 DEF w, n

-----------------------------------------------------------------------------
(* The parameters of a SETTINGS frame. *)

\* A smaller number of four bytes has a smaller byte behind equal ones.
LEMMA LessIs ==
    ASSUME NEW v \in [1..4 -> Byte], NEW w \in [1..4 -> Byte]
    PROVE  Less(v, w) <=> \/ v[1] < w[1]
                          \/ v[1] = w[1] /\ v[2] < w[2]
                          \/ v[1] = w[1] /\ v[2] = w[2] /\ v[3] < w[3]
                          \/ /\ v[1] = w[1] /\ v[2] = w[2] /\ v[3] = w[3]
                             /\ v[4] < w[4]
<1> DEFINE Same(i) == \A j \in 1..(i - 1) : v[j] = w[j]
<1>1. /\ Same(1) /\ (Same(2) <=> v[1] = w[1])
      /\ Same(3) <=> v[1] = w[1] /\ v[2] = w[2]
      /\ Same(4) <=> v[1] = w[1] /\ v[2] = w[2] /\ v[3] = w[3]
  <2>1. /\ \A j \in 1..(1 - 1) : FALSE
        /\ \A j \in 1..(2 - 1) : j = 1
        /\ \A j \in 1..(3 - 1) : j = 1 \/ j = 2
        /\ \A j \in 1..(4 - 1) : j = 1 \/ j = 2 \/ j = 3
        /\ 1 \in 1..(2 - 1)
        /\ 1 \in 1..(3 - 1) /\ 2 \in 1..(3 - 1)
        /\ 1 \in 1..(4 - 1) /\ 2 \in 1..(4 - 1) /\ 3 \in 1..(4 - 1)
    OBVIOUS
  <2>2. QED
    BY <2>1, Zenon
<1>2. Less(v, w) <=> \E i \in 1..4 : v[i] < w[i] /\ Same(i)
  BY Zenon DEF Less
<1>3. \A i : i \in 1..4 <=> i = 1 \/ i = 2 \/ i = 3 \/ i = 4
  OBVIOUS
<1> HIDE DEF Same
<1>4. (\E i \in 1..4 : v[i] < w[i] /\ Same(i))
         <=> \/ v[1] < w[1] /\ Same(1)
             \/ v[2] < w[2] /\ Same(2)
             \/ v[3] < w[3] /\ Same(3)
             \/ v[4] < w[4] /\ Same(4)
  BY <1>3, Zenon
<1>5. QED
  BY <1>1, <1>2, <1>4, Zenon

\* What is not smaller than low and not greater than high.
LEMMA BetweenIs ==
    ASSUME NEW v \in [1..4 -> Byte],
           NEW low \in [1..4 -> Byte], NEW high \in [1..4 -> Byte]
    PROVE  Between(low, v, high) <=>
               /\ ~ \/ v[1] < low[1]
                    \/ v[1] = low[1] /\ v[2] < low[2]
                    \/ v[1] = low[1] /\ v[2] = low[2] /\ v[3] < low[3]
                    \/ /\ v[1] = low[1] /\ v[2] = low[2] /\ v[3] = low[3]
                       /\ v[4] < low[4]
               /\ ~ \/ high[1] < v[1]
                    \/ high[1] = v[1] /\ high[2] < v[2]
                    \/ high[1] = v[1] /\ high[2] = v[2] /\ high[3] < v[3]
                    \/ /\ high[1] = v[1] /\ high[2] = v[2] /\ high[3] = v[3]
                       /\ high[4] < v[4]
  BY LessIs, Zenon DEF Between

\* Four bytes one by one.
LEMMA FourBytes ==
    ASSUME NEW a \in Byte, NEW b \in Byte, NEW c \in Byte, NEW d \in Byte,
           NEW x, x = <<a, b, c, d>>
    PROVE  /\ x \in [1..4 -> Byte]
           /\ x[1] = a /\ x[2] = b /\ x[3] = c /\ x[4] = d
           /\ \A v \in [1..4 -> Byte] :
                  v = x <=> v[1] = a /\ v[2] = b /\ v[3] = c /\ v[4] = d
  OBVIOUS

\* decode refuses the values that are out of range.
LEMMA FaultIs ==
    ASSUME NEW t \in SettingsType, NEW v \in [1..4 -> Byte]
    PROVE  Fault(t, v) = NO_ERROR <=> Allowed(t, v)
<1> DEFINE low == <<0, 0, 0, 0>>
           one == <<0, 0, 0, 1>>
           window == <<127, 255, 255, 255>>
           least == <<0, 0, 64, 0>>
           most == <<0, 255, 255, 255>>
<1>1. 0 \in Byte /\ 1 \in Byte /\ 64 \in Byte /\ 127 \in Byte /\ 255 \in Byte
  BY DEF Byte
<1>2. /\ v[1] \in 0..255 /\ v[2] \in 0..255 /\ v[3] \in 0..255 /\ v[4] \in 0..255
  BY DEF Byte
<1>3. /\ low \in [1..4 -> Byte]
      /\ low[1] = 0 /\ low[2] = 0 /\ low[3] = 0 /\ low[4] = 0
      /\ v = low <=> v[1] = 0 /\ v[2] = 0 /\ v[3] = 0 /\ v[4] = 0
  BY <1>1, FourBytes
<1>4. /\ one \in [1..4 -> Byte]
      /\ one[1] = 0 /\ one[2] = 0 /\ one[3] = 0 /\ one[4] = 1
      /\ v = one <=> v[1] = 0 /\ v[2] = 0 /\ v[3] = 0 /\ v[4] = 1
  BY <1>1, FourBytes
<1>5. /\ window \in [1..4 -> Byte] /\ window[1] = 127
      /\ window[2] = 255 /\ window[3] = 255 /\ window[4] = 255
  BY <1>1, FourBytes
<1>6. /\ least \in [1..4 -> Byte]
      /\ least[1] = 0 /\ least[2] = 0 /\ least[3] = 64 /\ least[4] = 0
  BY <1>1, FourBytes
<1>7. /\ most \in [1..4 -> Byte]
      /\ most[1] = 0 /\ most[2] = 255 /\ most[3] = 255 /\ most[4] = 255
  BY <1>1, FourBytes
<1> HIDE DEF low, one, window, least, most
<1> DEFINE a == v = low \/ v = one
           b == v[1] < 128
           c == v[1] > 0 \/ (v[2] = 0 /\ v[3] < 64)
<1>8. Between(low, v, one) <=> a
  BY <1>2, <1>3, <1>4, BetweenIs
<1>9. Between(low, v, window) <=> b
  BY <1>2, <1>3, <1>5, BetweenIs
<1>10. Between(least, v, most) <=> ~c
  BY <1>2, <1>6, <1>7, BetweenIs
<1> USE DEF SETTINGS_ENABLE_PUSH, SETTINGS_INITIAL_WINDOW_SIZE, SETTINGS_MAX_FRAME_SIZE
<1>11. Allowed(t, v) <=> (t = 2 => a) /\ (t = 4 => b) /\ (t = 5 => ~c)
  <2> HIDE DEF a, b, c
  <2>1. QED
    BY <1>8, <1>9, <1>10, Zenon DEF Allowed, low, one, window, least, most
<1>12. /\ v \notin {<<0, 0, 0, 0>>, <<0, 0, 0, 1>>} <=> ~a
       /\ v[1] >= 2^7 <=> ~b
       /\ v[1] > 0 \/ (v[2] = 0 /\ v[3] < 2^6) <=> c
  <2>1. 2^7 = 128 /\ 2^6 = 64
    OBVIOUS
  <2>2. v[1] >= 2^7 <=> ~b
    BY <1>2, <2>1
  <2>3. v[1] > 0 \/ (v[2] = 0 /\ v[3] < 2^6) <=> c
    BY <2>1
  <2>4. v \notin {low, one} <=> ~a
    OBVIOUS
  <2>5. QED
    BY <2>2, <2>3, <2>4 DEF low, one
<1> HIDE DEF a, b, c
<1>13. Fault(t, v) =
          CASE t = 2 /\ ~a -> 1 [] t = 4 /\ ~b -> 3 [] t = 5 /\ c -> 1 [] OTHER -> 0
  BY <1>12 DEF Fault, NO_ERROR, PROTOCOL_ERROR, FLOW_CONTROL_ERROR
<1>14. Fault(t, v) = 0 <=> (t = 2 => a) /\ (t = 4 => b) /\ (t = 5 => ~c)
  BY <1>13
<1>15. QED
  BY <1>11, <1>14 DEF NO_ERROR

\* The defaults have their type.
LEMMA DefaultsAre ==
    /\ Defaults \in [SettingsType -> [1..4 -> Byte]]
    /\ Defaults \in [SettingsType -> Seq(Byte)]
<1> DEFINE S == [1..4 -> Byte]
           a == <<0, 0, 16, 0>>
           b == <<0, 0, 0, 1>>
           c == <<255, 255, 255, 255>>
           d == <<0, 0, 255, 255>>
           e == <<0, 0, 64, 0>>
<1>1. a \in S /\ b \in S /\ c \in S /\ d \in S /\ e \in S
  BY DEF Byte
<1>2. Defaults = <<a, b, c, d, e, c>>
  BY DEF Defaults, Unlimited
<1>3. S \subseteq Seq(Byte)
  BY AsSequence
<1> HIDE DEF S, a, b, c, d, e
<1>4. Defaults \in [1..6 -> S]
  BY <1>1, <1>2
<1>5. QED
  BY <1>3, <1>4 DEF S, SettingsType

\* A result of decode: an error and settings.
Entry == [error : Nat,
          settings : [value : [SettingsType -> Seq(Byte)], dirty : {{}}]]

\* The function that Entered defines is there.
LEMMA EnteredIs ==
    ASSUME NEW p \in Seq(Byte)
    PROVE  LET n == Len(p) \div 6
               entered == Entered(NewSettings, p)
               Type(i) == p[6 * i - 5] * 2^8 + p[6 * i - 4]
           IN  /\ entered[0] = [error |-> NO_ERROR, settings |-> NewSettings]
               /\ \A i \in 1..n :
                      entered[i] = IF entered[i - 1].error # NO_ERROR
                                   THEN entered[i - 1]
                                   ELSE Enter(entered[i - 1], Type(i), Value(p, i))
<1> DEFINE n == Len(p) \div 6
           Type(i) == p[6 * i - 5] * 2^8 + p[6 * i - 4]
           start == [error |-> NO_ERROR, settings |-> NewSettings]
           next(i, x) == IF x.error # NO_ERROR THEN x ELSE Enter(x, Type(i), Value(p, i))
           G == [i \in 1..n |-> [x \in Entry |-> next(i, x)]]
<1>1. n \in Nat
  OBVIOUS
<1>2. start \in Entry
  <2>1. Defaults \in [SettingsType -> Seq(Byte)]
    BY DefaultsAre
  <2>2. QED
    BY <2>1 DEF Entry, NewSettings, NO_ERROR
<1>3. \A i \in 1..n : Value(p, i) \in Seq(Byte)
  BY DEF Value
<1>4. ASSUME NEW x \in Entry, NEW type, NEW v \in Seq(Byte)
      PROVE  Enter(x, type, v) \in Entry
  <2>1. Fault(type, v) \in Nat
    BY DEF Fault, NO_ERROR, PROTOCOL_ERROR, FLOW_CONTROL_ERROR
  <2>2. QED
    BY <2>1 DEF Enter, Entry, NO_ERROR
<1> HIDE DEF n, start, Type
<1>5. \A i \in 1..n, x \in Entry : next(i, x) \in Entry
  BY <1>3, <1>4
<1> HIDE DEF next
<1>6. G \in [1..n -> [Entry -> Entry]]
  BY <1>5
<1>7. PICK f : Builds(f, n, Entry, start, G)
  <2> HIDE DEF G
  <2>1. QED
    BY <1>1, <1>2, <1>6, BuiltUp
<1>8. \A i \in 1..n : f[i] = next(i, f[i - 1])
  <2>1. \A i \in 1..n : i - 1 \in 0..n
    BY <1>1
  <2>2. QED
    BY <1>7, <2>1 DEF Builds
<1>9. f = [i \in 0..n |-> IF i = 0 THEN start ELSE next(i, f[i - 1])]
  <2>1. \A i \in 0..n : i # 0 => i \in 1..n
    BY <1>1
  <2> HIDE DEF G
  <2>2. QED
    BY <1>7, <1>8, <2>1 DEF Builds
<1> DEFINE r == Entered(NewSettings, p)
<1>10. r = [i \in 0..n |-> IF i = 0 THEN start ELSE next(i, r[i - 1])]
  <2>1. f = [i \in 0..(Len(p) \div 6) |->
                IF i = 0 THEN [error |-> NO_ERROR, settings |-> NewSettings]
                ELSE IF f[i - 1].error # NO_ERROR THEN f[i - 1]
                ELSE Enter(f[i - 1], p[6 * i - 5] * 2^8 + p[6 * i - 4],
                           SubSeq(p, 6 * i - 3, 6 * i))]
    BY <1>9, Zenon DEF n, start, next, Type, Value
  <2> HIDE DEF G
  <2>2. r = [i \in 0..(Len(p) \div 6) |->
                IF i = 0 THEN [error |-> NO_ERROR, settings |-> NewSettings]
                ELSE IF r[i - 1].error # NO_ERROR THEN r[i - 1]
                ELSE Enter(r[i - 1], p[6 * i - 5] * 2^8 + p[6 * i - 4],
                           SubSeq(p, 6 * i - 3, 6 * i))]
    BY <2>1, Zenon DEF Entered
  <2>3. QED
    BY <2>2, Zenon DEF n, start, next, Type, Value
<1> HIDE DEF r
<1>11. r[0] = start /\ \A i \in 1..n : r[i] = next(i, r[i - 1])
  <2>1. 0 \in 0..n /\ \A i \in 1..n : i \in 0..n /\ i # 0
    BY <1>1
  <2>2. QED
    BY <1>10, <2>1, Zenon
<1>12. QED
  BY <1>11, Zenon DEF n, start, next, Type, r

\* Two and four elements of a sequence.
LEMMA CutOut ==
    ASSUME NEW S, NEW p \in Seq(S), NEW m \in Nat
    PROVE  /\ m + 2 <= Len(p) => SubSeq(p, m + 1, m + 2) = <<p[m + 1], p[m + 2]>>
           /\ m + 4 <= Len(p) => SubSeq(p, m + 1, m + 4) \in [1..4 -> S]
<1>1. ASSUME NEW k \in Nat, m + k <= Len(p)
      PROVE  /\ SubSeq(p, m + 1, m + k) \in [1..k -> S]
             /\ \A i \in 1..k : SubSeq(p, m + 1, m + k)[i] = p[m + i]
  <2> DEFINE a == m + 1
             b == m + k
             q == SubSeq(p, a, b)
  <2>1. a \in Int /\ b \in Int /\ \A i \in a..b : p[i] \in S
    BY <1>1
  <2> HIDE DEF a, b
  <2>2. /\ q \in Seq(S)
        /\ Len(q) = IF a <= b THEN b - a + 1 ELSE 0
        /\ \A i \in 1..(b - a + 1) : q[i] = p[a + i - 1]
    BY <2>1, SubSeqProperties
  <2> HIDE DEF q
  <2>3. q \in Seq(S) /\ Len(q) = k
    BY <1>1, <2>2 DEF a, b
  <2>4. \A i \in 1..k : q[i] = p[m + i]
    <3> TAKE i \in 1..k
    <3>1. i \in 1..(b - a + 1) /\ a + i - 1 = m + i
      BY <1>1 DEF a, b
    <3>2. QED
      BY <2>2, <3>1, Zenon
  <2>5. q \in [1..k -> S]
    BY <1>1, <2>3
  <2>6. QED
    BY <2>4, <2>5, Zenon DEF q, a, b
<1>2. ASSUME m + 2 <= Len(p)
      PROVE  SubSeq(p, m + 1, m + 2) = <<p[m + 1], p[m + 2]>>
  <2> DEFINE q == SubSeq(p, m + 1, m + 2)
  <2>1. /\ q \in [1..2 -> S]
        /\ \A i \in 1..2 : q[i] = p[m + i]
    BY <1>1, <1>2
  <2> HIDE DEF q
  <2>2. q = <<q[1], q[2]>> /\ q[1] = p[m + 1] /\ q[2] = p[m + 2]
    BY <2>1
  <2>3. QED
    BY <2>2 DEF q
<1>3. QED
  BY <1>1, <1>2

\* The number and the value of the i-th parameter.
LEMMA ParameterIs ==
    ASSUME NEW p \in Seq(Byte), NEW i \in 1..(Len(p) \div 6)
    PROVE  LET type == p[6 * i - 5] * 2^8 + p[6 * i - 4] IN
           /\ Value(p, i) \in [1..4 -> Byte]
           /\ \A t \in SettingsType : Lists(p, i, t) <=> type = t
<1>1. /\ Len(p) \in Nat /\ i \in Nat /\ 6 * i - 5 >= 1 /\ 6 * i <= Len(p)
  OBVIOUS
<1> DEFINE x == p[6 * i - 5]
           y == p[6 * i - 4]
<1>2. x \in Byte /\ y \in Byte
  BY <1>1
<1>3. Value(p, i) \in [1..4 -> Byte]
  <2>1. 6 * i - 4 \in Nat /\ (6 * i - 4) + 4 <= Len(p)
    BY <1>1
  <2>2. (6 * i - 4) + 1 = 6 * i - 3 /\ (6 * i - 4) + 4 = 6 * i
    BY <1>1
  <2> DEFINE m == 6 * i - 4
  <2> HIDE DEF m
  <2>3. SubSeq(p, m + 1, m + 4) \in [1..4 -> Byte]
    BY <2>1, CutOut DEF m
  <2>4. QED
    BY <2>2, <2>3, Zenon DEF Value, m
<1>4. SubSeq(p, 6 * i - 5, 6 * i - 4) = <<x, y>>
  <2>1. 6 * i - 6 \in Nat /\ (6 * i - 6) + 2 <= Len(p)
    BY <1>1
  <2>2. (6 * i - 6) + 1 = 6 * i - 5 /\ (6 * i - 6) + 2 = 6 * i - 4
    BY <1>1
  <2> DEFINE m == 6 * i - 6
  <2> HIDE DEF m
  <2>3. SubSeq(p, m + 1, m + 2) = <<p[m + 1], p[m + 2]>>
    BY <2>1, CutOut DEF m
  <2>4. QED
    BY <2>2, <2>3, Zenon DEF m
<1> HIDE DEF x, y
<1>5. ASSUME NEW t \in SettingsType
      PROVE  Lists(p, i, t) <=> x * 2^8 + y = t
  <2>1. Lists(p, i, t) <=> x = 0 /\ y = t
    BY <1>4 DEF Lists
  <2>2. x * 2^8 + y = t <=> x = 0 /\ y = t
    BY <1>2 DEF Byte, SettingsType
  <2>3. QED
    BY <2>1, <2>2
<1>6. QED
  BY <1>3, <1>5 DEF x, y

\* Whether the first i parameters are right,
Fits(p, i) ==
    \A j \in 1..i, t \in SettingsType : Lists(p, j, t) => Allowed(t, Value(p, j))

\* and what they ask for.
AskedBy(p, i) ==
    [t \in SettingsType |->
        LET lists == {j \in 1..i : Lists(p, j, t)}
        IN  IF lists = {} THEN Defaults[t] ELSE Value(p, Max(lists))]

\* The last number of a set is its greatest.
LEMMA LastIsMax ==
    ASSUME NEW i \in Nat, NEW S, S \subseteq 1..i, i \in S
    PROVE  Max(S) = i
<1>1. S \subseteq 0..i /\ S # {}
  OBVIOUS
<1>2. Max(S) \in S /\ \A n \in S : Max(S) >= n
  BY <1>1, Highest
<1> DEFINE m == Max(S)
<1>3. m \in S /\ m >= i
  BY <1>2
<1> HIDE DEF m
<1>4. m = i
  BY <1>3
<1>5. QED
  BY <1>4 DEF m

\* One more parameter.
LEMMA AskedNext ==
    ASSUME NEW p \in Seq(Byte), NEW i \in Nat, i + 1 <= Len(p) \div 6
    PROVE  LET type == p[6 * (i + 1) - 5] * 2^8 + p[6 * (i + 1) - 4]
               v == Value(p, i + 1) IN
           /\ Fits(p, i + 1) <=> /\ Fits(p, i)
                                 /\ type \in SettingsType => Allowed(type, v)
           /\ type \notin SettingsType => AskedBy(p, i + 1) = AskedBy(p, i)
           /\ type \in SettingsType =>
                  AskedBy(p, i + 1) = [AskedBy(p, i) EXCEPT ![type] = v]
<1> DEFINE type == p[6 * (i + 1) - 5] * 2^8 + p[6 * (i + 1) - 4]
           v == Value(p, i + 1)
<1>1. \A t \in SettingsType : Lists(p, i + 1, t) <=> type = t
  <2>1. i + 1 \in 1..(Len(p) \div 6)
    OBVIOUS
  <2>2. QED
    BY <2>1, ParameterIs, Zenon
<1> HIDE DEF type
<1>2. \A j : j \in 1..(i + 1) <=> j \in 1..i \/ j = i + 1
  OBVIOUS
<1>3. Fits(p, i + 1) <=> /\ Fits(p, i)
                         /\ type \in SettingsType => Allowed(type, v)
  BY <1>1, <1>2, Zenon DEF Fits
<1> DEFINE L(j, t) == {l \in 1..j : Lists(p, l, t)}
<1>4. ASSUME NEW t \in SettingsType, type # t
      PROVE  AskedBy(p, i + 1)[t] = AskedBy(p, i)[t]
  <2>1. L(i + 1, t) = L(i, t)
    BY <1>1, <1>2, <1>4
  <2>2. QED
    BY <2>1, Zenon DEF AskedBy
<1>5. ASSUME type \in SettingsType
      PROVE  AskedBy(p, i + 1)[type] = v
  <2>1. i + 1 \in L(i + 1, type) /\ L(i + 1, type) \subseteq 1..(i + 1) /\ i + 1 \in Nat
    BY <1>1, <1>5
  <2>2. Max(L(i + 1, type)) = i + 1 /\ L(i + 1, type) # {}
    <3> HIDE DEF L
    <3>1. QED
      BY <2>1, LastIsMax
  <2>3. QED
    BY <1>5, <2>2, Zenon DEF AskedBy
<1>6. \A j : AskedBy(p, j) = [t \in SettingsType |-> AskedBy(p, j)[t]]
  BY Zenon DEF AskedBy
<1> DEFINE a == AskedBy(p, i)
           b == AskedBy(p, i + 1)
<1>7. /\ a = [t \in SettingsType |-> a[t]] /\ b = [t \in SettingsType |-> b[t]]
  BY <1>6
<1> HIDE DEF a, b, v
<1>8. type \notin SettingsType => b = a
  BY <1>4, <1>7 DEF a, b
<1>9. type \in SettingsType => b = [a EXCEPT ![type] = v]
  <2>1. ASSUME type \in SettingsType
        PROVE  \A t \in SettingsType : b[t] = IF t = type THEN v ELSE a[t]
    BY <1>4, <1>5, <2>1 DEF a, b
  <2>2. QED
    BY <1>7, <2>1
<1>10. QED
  BY <1>3, <1>8, <1>9, Zenon DEF type, v, a, b

\* The first i parameters are entered when all of them are right, otherwise
\* decode has given up.
LEMMA EnteredAre ==
    ASSUME NEW p \in Seq(Byte)
    PROVE  \A i \in 0..(Len(p) \div 6) :
               LET entered == Entered(NewSettings, p)[i] IN
               IF Fits(p, i)
               THEN entered = [error |-> NO_ERROR,
                               settings |-> [value |-> AskedBy(p, i), dirty |-> {}]]
               ELSE entered.error # NO_ERROR
<1> DEFINE n == Len(p) \div 6
           r == Entered(NewSettings, p)
           Type(i) == p[6 * i - 5] * 2^8 + p[6 * i - 4]
           done(value) == [error |-> NO_ERROR,
                           settings |-> [value |-> value, dirty |-> {}]]
           Good(i) == IF Fits(p, i) THEN r[i] = done(AskedBy(p, i))
                      ELSE r[i].error # NO_ERROR
           T == {i \in Nat : i <= n => Good(i)}
<1>1. n \in Nat
  OBVIOUS
<1>2. /\ r[0] = done(Defaults)
      /\ \A i \in 1..n : r[i] = IF r[i - 1].error # NO_ERROR THEN r[i - 1]
                                ELSE Enter(r[i - 1], Type(i), Value(p, i))
  BY EnteredIs, Zenon DEF NewSettings
<1>3. Good(0)
  <2>1. ~ \E j : j \in 1..0
    OBVIOUS
  <2>2. Fits(p, 0)
    BY <2>1, Zenon DEF Fits
  <2>3. AskedBy(p, 0) = Defaults
    <3>1. \A t \in SettingsType : {j \in 1..0 : Lists(p, j, t)} = {}
      BY <2>1
    <3>2. AskedBy(p, 0) = [t \in SettingsType |-> Defaults[t]]
      BY <3>1, Zenon DEF AskedBy
    <3>3. QED
      BY <3>2, DefaultsAre
  <2>4. QED
    BY <1>2, <2>2, <2>3, Zenon
<1>4. ASSUME NEW i \in Nat, i + 1 <= n, Good(i)
      PROVE  Good(i + 1)
  <2> DEFINE type == Type(i + 1)
             v == Value(p, i + 1)
  <2>1. i + 1 \in 1..n /\ (i + 1) - 1 = i
    BY <1>1, <1>4
  <2>2. r[i + 1] = IF r[i].error # NO_ERROR THEN r[i] ELSE Enter(r[i], type, v)
    BY <1>2, <2>1, Zenon
  <2>3. /\ Fits(p, i + 1) <=> /\ Fits(p, i)
                              /\ type \in SettingsType => Allowed(type, v)
        /\ type \notin SettingsType => AskedBy(p, i + 1) = AskedBy(p, i)
        /\ type \in SettingsType =>
               AskedBy(p, i + 1) = [AskedBy(p, i) EXCEPT ![type] = v]
    BY <1>4, AskedNext, Zenon
  <2>4. v \in [1..4 -> Byte]
    BY <2>1, ParameterIs, Zenon
  <2>5. type \in SettingsType => (Fault(type, v) = NO_ERROR <=> Allowed(type, v))
    BY <2>4, FaultIs, Zenon
  <2> HIDE DEF n, r, Type, v
  <2>6. CASE ~Fits(p, i)
    BY <1>4, <2>2, <2>3, <2>6, Zenon
  <2>7. CASE Fits(p, i)
    <3> DEFINE a == AskedBy(p, i)
    <3>1. r[i] = done(a)
      BY <1>4, <2>7, Zenon
    <3> HIDE DEF a
    <3>2. r[i].error = NO_ERROR /\ r[i].settings = [value |-> a, dirty |-> {}]
          /\ r[i].settings.value = a /\ r[i].settings.dirty = {}
      BY <3>1
    <3>3. r[i + 1] = Enter(r[i], type, v)
      BY <2>2, <3>2, Zenon
    <3> HIDE DEF type
    <3>4. CASE type \notin SettingsType
      BY <2>3, <2>7, <3>1, <3>3, <3>4, Zenon DEF Enter, a
    <3>5. CASE type \in SettingsType /\ Fault(type, v) # NO_ERROR
      <4>1. ~Fits(p, i + 1)
        BY <2>3, <2>5, <3>5, Zenon
      <4>2. r[i + 1] = [error |-> Fault(type, v), settings |-> r[i].settings]
        BY <3>3, <3>5, Zenon DEF Enter
      <4>3. r[i + 1].error # NO_ERROR
        BY <3>5, <4>2
      <4>4. QED
        BY <4>1, <4>3, Zenon
    <3>6. CASE type \in SettingsType /\ Fault(type, v) = NO_ERROR
      <4>1. Fits(p, i + 1)
        BY <2>3, <2>5, <2>7, <3>6, Zenon
      <4>2. r[i + 1] = done([a EXCEPT ![type] = v])
        BY <3>2, <3>3, <3>6, Zenon DEF Enter
      <4>3. QED
        BY <2>3, <3>6, <4>1, <4>2, Zenon DEF a
    <3>7. QED
      BY <3>4, <3>5, <3>6, Zenon
  <2>8. QED
    BY <2>6, <2>7, Zenon
<1> HIDE DEF Good, n
<1>5. T = Nat
  <2>1. 0 \in T
    BY <1>3
  <2>2. ASSUME NEW i \in T PROVE i + 1 \in T
    <3>1. i \in Nat /\ (i + 1 <= n => i <= n) /\ (i <= n => Good(i))
      BY <1>1
    <3>2. QED
      BY <1>4, <3>1
  <2>3. T \subseteq Nat
    OBVIOUS
  <2> HIDE DEF T
  <2>4. QED
    BY <2>1, <2>2, <2>3, Induct
<1>6. \A i \in 0..n : Good(i)
  BY <1>1, <1>5
<1>7. QED
  BY <1>6, Zenon DEF Good, n, r

\* decode takes a right list of parameters as it is meant and refuses any other.
LEMMA SettingsDecoded ==
    ASSUME NEW p \in Seq(Byte)
    PROVE  LET decoded == decodeSettings(NewSettings, p) IN
           /\ decoded.error = NO_ERROR <=> Acceptable(p)
           /\ Acceptable(p) =>
                  decoded.settings = [value |-> Asked(p), dirty |-> {}]
<1> DEFINE n == Len(p) \div 6
           e == Entered(NewSettings, p)[n]
           d == decodeSettings(NewSettings, p)
<1>1. n \in Nat /\ n \in 0..n /\ (Len(p) = 6 * n <=> Len(p) % 6 = 0)
  OBVIOUS
<1>2. IF Fits(p, n)
      THEN e = [error |-> NO_ERROR, settings |-> [value |-> AskedBy(p, n), dirty |-> {}]]
      ELSE e.error # NO_ERROR
  BY <1>1, EnteredAre, Zenon
<1>3. Acceptable(p) <=> Len(p) % 6 = 0 /\ Fits(p, n)
  BY <1>1, Zenon DEF Acceptable, Fits
<1>4. Asked(p) = AskedBy(p, n)
  BY Zenon DEF Asked, AskedBy
<1>5. d = IF e.error = NO_ERROR /\ Len(p) % 6 # 0
          THEN [error |-> FRAME_SIZE_ERROR, settings |-> e.settings]
          ELSE e
  BY Zenon DEF decodeSettings
<1> HIDE DEF d, e, n
<1>6. FRAME_SIZE_ERROR # NO_ERROR
  BY DEF FRAME_SIZE_ERROR, NO_ERROR
<1> DEFINE a == AskedBy(p, n)
           wrong == Len(p) % 6 # 0
<1> HIDE DEF a, wrong
<1>7. d.error = NO_ERROR <=> e.error = NO_ERROR /\ ~wrong
  BY <1>5, <1>6 DEF wrong
<1>8. Fits(p, n) => e.error = NO_ERROR /\ e.settings = [value |-> a, dirty |-> {}]
  BY <1>2 DEF a
<1>9. ~wrong => d = e
  BY <1>5 DEF wrong
<1>10. d.error = NO_ERROR <=> Acceptable(p)
  BY <1>2, <1>3, <1>7, <1>8, Zenon DEF wrong
<1>11. Acceptable(p) => d.settings = [value |-> Asked(p), dirty |-> {}]
  BY <1>3, <1>4, <1>8, <1>9, Zenon DEF wrong, a
<1>12. QED
  BY <1>10, <1>11 DEF d

\* The settings a frame asks for have their type.
LEMMA AskedIs ==
    ASSUME NEW p \in Seq(Byte)
    PROVE  Asked(p) \in [SettingsType -> [1..4 -> Byte]]
<1> DEFINE n == Len(p) \div 6
<1>1. ASSUME NEW t \in SettingsType PROVE Asked(p)[t] \in [1..4 -> Byte]
  <2> DEFINE lists == {i \in 1..n : Lists(p, i, t)}
  <2>1. Asked(p)[t] = IF lists = {} THEN Defaults[t] ELSE Value(p, Max(lists))
    BY Zenon DEF Asked
  <2>2. Defaults[t] \in [1..4 -> Byte]
    BY DefaultsAre
  <2>3. lists # {} => Value(p, Max(lists)) \in [1..4 -> Byte]
    <3>1. lists \subseteq 0..n /\ lists \subseteq 1..n /\ n \in Nat
      OBVIOUS
    <3> DEFINE m == Max(lists)
    <3> HIDE DEF lists
    <3>2. lists # {} => m \in lists
      BY <3>1, Highest
    <3>3. lists # {} => m \in 1..n
      BY <3>1, <3>2
    <3> HIDE DEF m
    <3>4. m \in 1..n => Value(p, m) \in [1..4 -> Byte]
      BY ParameterIs, Zenon
    <3>5. QED
      BY <3>3, <3>4, Zenon DEF m
  <2>4. QED
    BY <2>1, <2>2, <2>3, Zenon
<1>2. Asked(p) = [t \in SettingsType |-> Asked(p)[t]]
  BY Zenon DEF Asked
<1>3. QED
  BY <1>1, <1>2

-----------------------------------------------------------------------------
(* The inductive invariant. *)

\* What a frame may be when it arrives.
Arrives(f, g) ==
    /\ g = Meant(f) \/ g \in Refused(f)
    /\ Len(f.fragment) >= Len(Fields(f)) => g = Meant(f)

\* The bytes that are left and those of the last read are where they were in
\* the stream.
StreamInv ==
    /\ sent \in Seq(Sendable)
    /\ wire \in Seq(Byte)
    /\ recvBuffer \in Seq(Byte)
    /\ end \in Nat /\ curr \in Nat
    /\ BytesRead \in Nat /\ end <= BytesRead
    /\ \A i \in 1..Len(wire) : wire[i] = Wire(sent)[BytesRead + i]
    /\ \A i \in 1..end : recvBuffer[i] = Wire(sent)[(BytesRead - end) + i]
    /\ curr < end => Len(recvBuffer) = end + 9

\* The walk is at the beginning of a frame, or it has left the read with a torn
\* one.
WalkInv ==
    LET k == Len(frames) IN
    /\ k \in 0..Len(sent)
    /\ \/ (BytesRead - end) + curr = End(k) /\ curr <= end
       \/ k > 0 /\ End(k - 1) < BytesRead /\ BytesRead < End(k) /\ curr > end

\* The frames that were read whole have arrived.
FramesInv ==
    /\ frames \in Seq(AnyFrame)
    /\ \A i \in 1..Len(frames) :
           IF End(i) <= BytesRead THEN Arrives(sent[i], frames[i])
           ELSE frames[i] = NewFrame

\* The settings and the acknowledgements are those of the frames handled.
Stored(asking) ==
    /\ acks = Cardinality(asking)
    /\ settings = [value |-> IF asking = {} THEN Defaults
                             ELSE Asked(sent[Max(asking)].fragment),
                   dirty |-> {}]

StoredInv ==
    /\ handled \in 0..Len(frames)
    /\ Stored(Asking(Min({handled, Whole})))

IInv == StreamInv /\ WalkInv /\ FramesInv /\ StoredInv

\* The lesser of two numbers.
LEMMA MinIs ==
    ASSUME NEW a \in Nat, NEW b \in Nat
    PROVE  Min({a, b}) = IF a <= b THEN a ELSE b
<1>1. {a, b} \subseteq Nat /\ {a, b} # {}
  OBVIOUS
<1>2. Min({a, b}) \in {a, b} /\ \A n \in {a, b} : Min({a, b}) <= n
  BY <1>1, Lowest
<1> DEFINE m == Min({a, b})
<1>3. (m = a \/ m = b) /\ m <= a /\ m <= b
  BY <1>2
<1> HIDE DEF m
<1>4. m = IF a <= b THEN a ELSE b
  BY <1>3
<1>5. QED
  BY <1>4 DEF m

\* A sequence cut in two.
LEMMA CutAt ==
    ASSUME NEW S, NEW p \in Seq(S), NEW n \in 0..Len(p)
    PROVE  LET q == SubSeq(p, 1, n)
               r == SubSeq(p, n + 1, Len(p))
           IN  /\ q \in Seq(S) /\ Len(q) = n /\ \A i \in 1..n : q[i] = p[i]
               /\ r \in Seq(S) /\ Len(r) = Len(p) - n
               /\ \A i \in 1..Len(r) : r[i] = p[n + i]
<1> DEFINE a == n + 1
           b == Len(p)
           q == SubSeq(p, 1, n)
           r == SubSeq(p, a, b)
<1>1. a \in Int /\ b \in Int /\ \A i \in a..b : p[i] \in S
  OBVIOUS
<1>2. 1 \in Int /\ n \in Int /\ n \in Nat /\ n <= b /\ b \in Nat
      /\ \A i \in 1..n : p[i] \in S
  OBVIOUS
<1> HIDE DEF a, b
<1>3. /\ r \in Seq(S) /\ Len(r) = IF a <= b THEN b - a + 1 ELSE 0
      /\ \A i \in 1..(b - a + 1) : r[i] = p[a + i - 1]
  BY <1>1, SubSeqProperties
<1>4. /\ q \in Seq(S) /\ Len(q) = IF 1 <= n THEN n - 1 + 1 ELSE 0
      /\ \A i \in 1..(n - 1 + 1) : q[i] = p[1 + i - 1]
  BY <1>2, SubSeqProperties
<1> HIDE DEF q, r
<1>5. Len(q) = n /\ Len(r) = b - n
  BY <1>2, <1>3, <1>4 DEF a
<1>6. \A i \in 1..n : q[i] = p[i]
  <2>1. \A i \in 1..n : i \in 1..(n - 1 + 1) /\ 1 + i - 1 = i
    BY <1>2
  <2>2. QED
    BY <1>4, <2>1, Zenon
<1>7. \A i \in 1..Len(r) : r[i] = p[n + i]
  <2>1. \A i \in 1..Len(r) : i \in 1..(b - a + 1) /\ a + i - 1 = n + i
    BY <1>2, <1>5 DEF a
  <2>2. QED
    BY <1>3, <2>1, Zenon
<1>8. QED
  BY <1>3, <1>4, <1>5, <1>6, <1>7 DEF a, b, q, r

\* Which frames were read whole.
LEMMA WholeIs ==
    ASSUME StreamInv
    PROVE  /\ Whole \in 0..Len(sent)
           /\ \A k \in 0..Len(sent) : End(k) \in Nat
           /\ \A k \in 0..Len(sent) : End(k) <= BytesRead <=> k <= Whole
           /\ \A j \in 0..Len(sent), k \in 0..Len(sent) :
                  j < k => End(k) >= End(j) + 9
<1>1. sent \in Seq(Sendable) /\ BytesRead \in Nat
  BY DEF StreamInv
<1>2. \A k : End(k) = Reach(sent, k)
  BY Zenon DEF End, Reach
<1>3. Whole = Within(sent, BytesRead)
  BY <1>2, Zenon DEF Whole, Within
<1>4. /\ Whole \in 0..Len(sent)
      /\ \A k \in 0..Len(sent) : End(k) <= BytesRead <=> k <= Whole
  BY <1>1, <1>2, <1>3, WithinIs, Zenon
<1>5. \A k \in 0..Len(sent), j \in 0..Len(sent) : j <= k => Begins(sent, j, k)
  BY <1>1, LaidGrows, Zenon
<1>6. \A j \in 0..Len(sent), k \in 0..Len(sent) : j < k => j <= k
  OBVIOUS
<1>7. \A j \in 0..Len(sent), k \in 0..Len(sent) : j < k => End(k) >= End(j) + 9
  BY <1>2, <1>5, <1>6, Zenon DEF Begins
<1>8. \A k \in 0..Len(sent) : End(k) \in Nat
  <2>1. \A k \in 0..Len(sent) : k <= k
    OBVIOUS
  <2>2. QED
    BY <1>2, <1>5, <2>1, Zenon DEF Begins
<1>9. QED
  BY <1>4, <1>7, <1>8

\* How far the walk has come, and where it stops.
LEMMA WalkIs ==
    ASSUME StreamInv, WalkInv
    PROVE  /\ Len(frames) \in Nat
           /\ Len(frames) <= Whole + 1
           /\ curr >= end => Len(frames) >= Whole
           /\ curr >= end /\ ~Torn =>
                  Len(frames) = Whole /\ BytesRead = End(Whole)
           /\ curr < end => Len(frames) <= Whole
<1> DEFINE k == Len(frames)
           n == Len(sent)
<1>1. /\ k \in 0..n /\ n \in Nat
      /\ \/ (BytesRead - end) + curr = End(k) /\ curr <= end
         \/ k > 0 /\ End(k - 1) < BytesRead /\ BytesRead < End(k) /\ curr > end
  BY DEF WalkInv, StreamInv
<1>2. BytesRead \in Nat /\ end \in Nat /\ curr \in Nat
  BY DEF StreamInv
<1> DEFINE b == BytesRead
           w == Whole
<1>3. /\ w \in 0..n
      /\ \A i \in 0..n : End(i) \in Nat /\ (End(i) <= b <=> i <= w)
      /\ \A i \in 0..n, j \in 0..n : i < j => End(j) >= End(i) + 9
  BY WholeIs, Zenon
<1>4. Torn <=> b > End(w)
  BY Zenon DEF Torn
<1> HIDE DEF k, n, b, w
<1>5. CASE (b - end) + curr = End(k) /\ curr <= end
  <2>1. End(k) <= b /\ k <= w
    BY <1>1, <1>2, <1>3, <1>5 DEF b
  <2>2. ASSUME curr >= end PROVE k = w /\ b = End(w)
    <3>1. b = End(k)
      BY <1>2, <1>5, <2>2 DEF b
    <3>2. ~(k < w)
      BY <1>1, <1>2, <1>3, <3>1 DEF b
    <3>3. k = w
      BY <1>1, <1>3, <2>1, <3>2
    <3>4. QED
      BY <3>1, <3>3
  <2>3. k \in Nat /\ k <= w + 1 /\ (curr >= end => k >= w)
    BY <1>1, <1>3, <2>1, <2>2
  <2>4. QED
    BY <2>1, <2>2, <2>3 DEF k, w, b
<1>6. CASE k > 0 /\ End(k - 1) < b /\ b < End(k) /\ curr > end
  <2>1. k - 1 \in 0..n /\ k \in Nat
    BY <1>1, <1>6
  <2>2. k - 1 <= w /\ ~(k <= w)
    <3>1. End(k - 1) <= b /\ ~(End(k) <= b)
      BY <1>1, <1>2, <1>3, <1>6, <2>1 DEF b
    <3>2. QED
      BY <1>1, <1>3, <2>1, <3>1, Zenon
  <2>3. w = k - 1
    BY <1>3, <2>1, <2>2
  <2>4. b > End(w)
    BY <1>2, <1>3, <1>6, <2>1, <2>3 DEF b
  <2>5. Torn
    BY <1>4, <2>4
  <2>6. k <= w + 1 /\ k >= w /\ ~(curr < end)
    BY <1>2, <1>3, <1>6, <2>1, <2>3
  <2>7. QED
    BY <2>1, <2>5, <2>6 DEF k, w
<1>7. QED
  BY <1>1, <1>5, <1>6 DEF b

\* What arrives is a frame, and so is what becomes of a torn one.
LEMMA FrameIs ==
    /\ NewFrame \in AnyFrame
    /\ \A f \in Sendable : \A g : Arrives(f, g) => g \in AnyFrame
<1>1. NewFrame \in AnyFrame
  BY DEF NewFrame, AnyFrame, PING_FRAME, NO_FLAGS, Byte
<1>2. ASSUME NEW f \in Sendable, NEW g, Arrives(f, g)
      PROVE  g \in AnyFrame
  <2>1. /\ f.type \in Byte /\ f.flags \in Byte /\ f.sid \in Nat
        /\ f.fragment \in Seq(Byte) /\ f.priority \in AnyPriority \union {None}
    BY SendableAre, Zenon
  <2>2. <<>> \in Seq(Byte) /\ None \in AnyPriority \union {None}
    OBVIOUS
  <2>3. ASSUME NEW p \in Seq(Byte), NEW q \in AnyPriority \union {None}
        PROVE  With(f, p, q) \in AnyFrame
    BY <2>1, <2>3 DEF With, AnyFrame
  <2>4. g \in {With(f, f.fragment, f.priority), With(f, <<>>, f.priority),
               With(f, <<>>, None)}
    BY <1>2, Zenon DEF Arrives, Meant, Refused
  <2>5. QED
    BY <2>1, <2>2, <2>3, <2>4, Zenon
<1>3. QED
  BY <1>1, <1>2

\* It holds at the beginning, when nothing has been read.
LEMMA InitLemma ==
    ASSUME Init
    PROVE  IInv
<1> USE DEF Init
<1> DEFINE n == Len(sent)
<1>1. sent \in Seq(Sendable) /\ n \in Nat /\ n \in 0..n /\ 0 \in 0..n
  <2>1. PICK m \in 0..MaxSent : sent \in [1..m -> Sendable]
    BY DEF BoundedSeq, SeqOf
  <2>2. m \in Nat
    BY SizeAssumption
  <2>3. sent \in Seq(Sendable) /\ Len(sent) = m
    BY <2>1, <2>2, AsSequence
  <2> HIDE DEF Init
  <2>4. QED
    BY <2>2, <2>3
<1>2. Wire(sent) = Laid(sent)[n] /\ Laid(sent)[n] \in Seq(Byte)
  BY <1>1, LaidIs, Zenon DEF Wire
<1>3. BytesRead = 0
  <2> DEFINE l == Len(wire)
  <2>1. l \in Nat
    BY <1>2
  <2>2. End(n) = l
    BY <1>2, Zenon DEF End
  <2> HIDE DEF l
  <2>3. BytesRead = l - l
    BY <2>2, Zenon DEF BytesRead, l
  <2>4. QED
    BY <2>1, <2>3
<1>4. StreamInv
  <2>1. wire \in Seq(Byte) /\ recvBuffer \in Seq(Byte) /\ wire = Wire(sent)
    BY <1>2
  <2>2. Len(wire) \in Nat /\ \A i \in 1..Len(wire) : 0 + i = i
    BY <2>1
  <2>3. \A i \in 1..Len(wire) : wire[i] = Wire(sent)[BytesRead + i]
    BY <1>3, <2>1, <2>2, Zenon
  <2>4. /\ end \in Nat /\ curr \in Nat /\ BytesRead \in Nat /\ end <= BytesRead
        /\ ~(curr < end) /\ \A i : i \notin 1..end
    BY <1>3
  <2>5. QED
    BY <1>1, <2>1, <2>3, <2>4, Zenon DEF StreamInv
<1>5. WalkInv
  <2>1. End(0) = 0
    <3>1. Laid(sent)[0] = <<>> /\ Len(<<>>) = 0
      BY <1>1, LaidIs
    <3>2. QED
      BY <3>1, Zenon DEF End
  <2>2. Len(frames) = 0 /\ (0 - 0) + 0 = 0 /\ 0 <= 0
    OBVIOUS
  <2>3. QED
    BY <1>1, <1>3, <2>1, <2>2, Zenon DEF WalkInv
<1>6. FramesInv
  BY DEF FramesInv
<1>7. StoredInv
  <2>1. Whole \in Nat
    BY <1>4, WholeIs
  <2>2. Min({handled, Whole}) = 0
    <3> DEFINE w == Whole
    <3>1. w \in Nat
      BY <2>1
    <3> HIDE DEF w
    <3>2. Min({0, w}) = 0
      BY <3>1, MinIs
    <3>3. QED
      BY <3>2, Zenon DEF w
  <2>3. Asking(0) = {}
    BY DEF Asking
  <2>4. Cardinality({}) = 0
    BY FS_EmptySet
  <2>5. handled \in 0..Len(frames)
    OBVIOUS
  <2>6. QED
    BY <2>2, <2>3, <2>4, <2>5, Zenon DEF StoredInv, Stored, NewSettings
<1>8. QED
  BY <1>4, <1>5, <1>6, <1>7 DEF IInv

\* SSL_read goes on where the last read ended, at the beginning of a frame.
LEMMA ReadKeeps ==
    ASSUME IInv, Read
    PROVE  IInv'
<1>0. StreamInv /\ WalkInv /\ FramesInv /\ StoredInv
  BY DEF IInv
<1>1. PICK n \in ReadSizes, left \in {0, 255} :
          /\ n <= Len(wire)
          /\ recvBuffer' = SubSeq(wire, 1, n) \o [i \in 1..9 |-> left]
          /\ wire' = SubSeq(wire, n + 1, Len(wire))
          /\ end' = n
  BY Zenon DEF Read
<1>2. /\ curr >= end /\ handled = Len(frames) /\ ~Torn /\ curr' = 0
      /\ sent' = sent /\ frames' = frames
      /\ handled' = handled /\ settings' = settings /\ acks' = acks
  BY DEF Read, handleVars
<1>3. n \in Nat /\ n >= 1
  BY SizeAssumption
<1>4. /\ sent \in Seq(Sendable) /\ wire \in Seq(Byte) /\ Len(wire) \in Nat
      /\ end \in Nat /\ BytesRead \in Nat
      /\ \A i \in 1..Len(wire) : wire[i] = Wire(sent)[BytesRead + i]
  BY <1>0 DEF StreamInv
<1>5. n \in 0..Len(wire)
  BY <1>1, <1>3, <1>4
<1> DEFINE b == BytesRead
           c == b + n
           q == SubSeq(wire, 1, n)
           r == SubSeq(wire, n + 1, Len(wire))
           l == [i \in 1..9 |-> left]
<1>6. /\ q \in Seq(Byte) /\ Len(q) = n /\ \A i \in 1..n : q[i] = wire[i]
      /\ wire' \in Seq(Byte) /\ Len(wire') = Len(wire) - n
      /\ \A i \in 1..Len(wire') : wire'[i] = wire[n + i]
  <2>1. /\ q \in Seq(Byte) /\ Len(q) = n /\ \A i \in 1..n : q[i] = wire[i]
        /\ r \in Seq(Byte) /\ Len(r) = Len(wire) - n
        /\ \A i \in 1..Len(r) : r[i] = wire[n + i]
    BY <1>4, <1>5, CutAt
  <2>2. wire' = r
    BY <1>1
  <2> HIDE DEF q, r
  <2>3. QED
    BY <2>1, <2>2
<1>7. l \in Seq(Byte) /\ Len(l) = 9
  <2>1. l \in [1..9 -> Byte] /\ 9 \in Nat
    BY DEF Byte
  <2>2. QED
    BY <2>1, AsSequence
<1>8. /\ recvBuffer' \in Seq(Byte) /\ Len(recvBuffer') = n + 9
      /\ \A i \in 1..n : recvBuffer'[i] = wire[i]
  <2> HIDE DEF q, l
  <2>1. q \in Seq(Byte) /\ l \in Seq(Byte)
    BY <1>6, <1>7
  <2>2. /\ q \o l \in Seq(Byte) /\ Len(q \o l) = Len(q) + Len(l)
        /\ \A i \in 1..Len(q) : (q \o l)[i] = q[i]
    BY ONLY <2>1, Joined
  <2>3. recvBuffer' = q \o l
    BY <1>1 DEF q, l
  <2>4. QED
    BY <1>6, <1>7, <2>2, <2>3
<1>9. BytesRead' = c
  <2> DEFINE e == End(Len(sent))
  <2>1. e \in Nat
    BY <1>0, WholeIs
  <2>2. e' = e
    BY <1>2, Zenon DEF End
  <2>3. BytesRead' = e - Len(wire') /\ b = e - Len(wire)
    BY <1>2, <2>2, Zenon DEF BytesRead
  <2> HIDE DEF e, b
  <2>4. e - (Len(wire) - n) = (e - Len(wire)) + n
    BY <1>3, <1>4, <2>1
  <2>5. QED
    BY <1>6, <2>3, <2>4, Zenon
<1>10. c \in Nat /\ n <= c /\ c - n = b /\ b <= c /\ b \in Nat
  <2>1. b \in Nat
    BY <1>4
  <2> HIDE DEF b
  <2>2. QED
    BY <1>3, <2>1
<1>11. Len(frames) = Whole /\ b = End(Whole) /\ Whole \in 0..Len(sent)
  BY <1>0, <1>2, WalkIs, WholeIs, Zenon
<1>12. \A i : End(i)' = End(i)
  BY <1>2, Zenon DEF End
<1>13. StreamInv'
  <2>1. \A i \in 1..Len(wire') : wire'[i] = Wire(sent)[c + i]
    <3> TAKE i \in 1..Len(wire')
    <3>1. n + i \in 1..Len(wire) /\ b + (n + i) = c + i
      <4> HIDE DEF b
      <4>1. QED
        BY <1>3, <1>4, <1>6, <1>10
    <3>2. wire[n + i] = Wire(sent)[b + (n + i)]
      BY <1>4, <3>1, Zenon
    <3>3. QED
      BY <1>6, <3>1, <3>2, Zenon
  <2>2. \A i \in 1..n : recvBuffer'[i] = Wire(sent)[(c - n) + i]
    <3> TAKE i \in 1..n
    <3>1. i \in 1..Len(wire)
      <4> HIDE DEF b, c, q, r, l
      <4>1. QED
        BY <1>3, <1>4, <1>5
    <3>2. wire[i] = Wire(sent)[b + i]
      BY <1>4, <3>1, Zenon
    <3> HIDE DEF b, c
    <3>3. QED
      BY <1>8, <1>10, <3>2, Zenon
  <2>3. curr' \in Nat
    BY <1>2
  <2> HIDE DEF c, b
  <2>4. QED
    BY <1>1, <1>2, <1>3, <1>4, <1>6, <1>8, <1>9, <1>10, <2>1, <2>2, <2>3, Zenon
    DEF StreamInv
<1>14. WalkInv'
  <2>1. (BytesRead' - end') + curr' = b /\ curr' <= end'
    <3> HIDE DEF c, b
    <3>1. QED
      BY <1>1, <1>2, <1>3, <1>9, <1>10
  <2>2. QED
    BY <1>2, <1>11, <1>12, <2>1, Zenon DEF WalkInv
<1>15. FramesInv'
  <2>1. \A i \in 1..Len(frames) : End(i) <= BytesRead /\ End(i) <= c
    <3> TAKE i \in 1..Len(frames)
    <3>1. i \in 0..Len(sent) /\ i <= Whole
      <4> DEFINE w == Whole
                 m == Len(sent)
      <4>1. w \in 0..m /\ i \in 1..w /\ m \in Nat
        BY <1>4, <1>11
      <4> HIDE DEF w, m
      <4>2. i \in 0..m /\ i <= w
        BY <4>1
      <4>3. QED
        BY <4>2 DEF w, m
    <3>2. End(i) <= b /\ End(i) \in Nat
      BY <1>0, <3>1, WholeIs, Zenon
    <3> HIDE DEF b
    <3>3. End(i) <= c
      BY <1>10, <3>2
    <3>4. QED
      BY <3>2, <3>3 DEF b
  <2> HIDE DEF b, c, q, r, l
  <2>2. frames \in Seq(AnyFrame)
    BY <1>0 DEF FramesInv
  <2>3. ASSUME NEW i \in 1..Len(frames)
        PROVE  End(i)' <= BytesRead' /\ Arrives(sent[i], frames[i])
    <3>1. IF End(i) <= BytesRead THEN Arrives(sent[i], frames[i])
          ELSE frames[i] = NewFrame
      BY <1>0 DEF FramesInv
    <3>2. Arrives(sent[i], frames[i])
      BY <2>1, <3>1, Zenon
    <3>3. End(i)' <= BytesRead'
      BY <1>9, <1>12, <2>1, Zenon
    <3>4. QED
      BY <3>2, <3>3
  <2>4. ASSUME NEW i \in 1..Len(frames')
        PROVE  IF End(i)' <= BytesRead' THEN Arrives(sent'[i], frames'[i])
               ELSE frames'[i] = NewFrame
    <3>1. i \in 1..Len(frames)
      BY <1>2
    <3>2. Arrives(sent[i], frames[i]) /\ sent'[i] = sent[i] /\ frames'[i] = frames[i]
      BY <1>2, <2>3, <3>1
    <3>3. Arrives(sent'[i], frames'[i])
      BY <3>2, Zenon
    <3>4. QED
      BY <2>3, <3>1, <3>3
  <2>5. QED
    BY <1>2, <2>2, <2>4, Zenon DEF FramesInv
<1>16. StoredInv'
  <2>1. Whole' \in Nat /\ Whole <= Whole'
    <3> DEFINE w == Whole
               v == Within(sent, c)
    <3>1. Whole' = v
      <4>1. \A k : End(k)' = Reach(sent, k)
        BY <1>2, Zenon DEF End, Reach
      <4> HIDE DEF c
      <4>2. QED
        BY <1>2, <1>9, <4>1, Zenon DEF Whole, Within
    <3>2. /\ v \in 0..Len(sent)
          /\ \A k \in 0..Len(sent) : Reach(sent, k) <= c <=> k <= v
      <4> HIDE DEF c
      <4>1. QED
        BY <1>4, <1>10, WithinIs, Zenon
    <3>3. w \in 0..Len(sent) /\ Reach(sent, w) = b
      BY <1>11, Zenon DEF End, Reach
    <3> HIDE DEF b, c, v, w
    <3>4. w <= v
      BY <1>10, <3>2, <3>3, Zenon
    <3>5. QED
      BY <3>1, <3>2, <3>4 DEF w
  <2>2. Min({handled, Whole}) = handled /\ Min({handled', Whole'}) = handled
    <3> DEFINE w == Whole
               x == Whole'
    <3>1. w \in Nat /\ x \in Nat /\ handled = w /\ w <= x /\ handled' = w
      BY <1>2, <1>11, <2>1
    <3> HIDE DEF w, x
    <3>2. Min({w, w}) = w /\ Min({w, x}) = w
      BY <3>1, MinIs
    <3>3. QED
      BY <3>1, <3>2, Zenon DEF w, x
  <2>3. \A k : Asking(k)' = Asking(k)
    BY <1>2, Zenon DEF Asking
  <2>4. Stored(Asking(handled)) /\ handled \in 0..Len(frames)
    BY <1>0, <2>2, Zenon DEF StoredInv
  <2>5. Stored(Asking(Min({handled, Whole})))'
    BY <1>2, <2>2, <2>3, <2>4, Zenon DEF Stored
  <2>6. QED
    BY <1>2, <2>4, <2>5, Zenon DEF StoredInv
<1>17. QED
  BY <1>13, <1>14, <1>15, <1>16 DEF IInv

\* The frame at the beginning of which the walk is.
LEMMA AtFrame ==
    ASSUME StreamInv, WalkInv, curr < end
    PROVE  LET k == Len(frames)
               f == sent[k + 1]
           IN  /\ k \in 0..(Len(sent) - 1) /\ f \in Sendable
               /\ (BytesRead - end) + curr = End(k)
               /\ Len(Bytes(f)) \in Nat
               /\ End(k + 1) = End(k) + Len(Bytes(f))
               /\ \A m \in 0..Len(Bytes(f)) : m <= end - curr => Stands(f, m)
<1> DEFINE k == Len(frames)
           n == Len(sent)
           f == sent[k + 1]
           b == BytesRead
           e == End(n)
<1>1. /\ k \in 0..n /\ n \in Nat
      /\ (b - end) + curr = End(k)
      /\ b \in Nat /\ end \in Nat /\ curr \in Nat /\ end <= b
      /\ \A i \in 1..end : recvBuffer[i] = Wire(sent)[(b - end) + i]
      /\ sent \in Seq(Sendable)
  BY DEF WalkInv, StreamInv
<1>2. k \in 0..(n - 1)
  <2>1. e \in Nat
    BY <1>1, WholeIs
  <2>2. b = e - Len(wire) /\ Len(wire) \in Nat
    BY DEF BytesRead, StreamInv
  <2>3. b <= e
    <3> HIDE DEF b, e
    <3>1. QED
      BY <2>1, <2>2
  <2>4. k = n => End(k) = e
    OBVIOUS
  <2> HIDE DEF b, e, k, n
  <2>5. k # n
    BY <1>1, <2>1, <2>3, <2>4
  <2>6. QED
    BY <1>1, <2>5
<1>3. \A i : End(i) = Reach(sent, i)
  BY Zenon DEF End, Reach
<1>4. /\ f \in Sendable
      /\ End(k) \in Nat
      /\ End(k + 1) = End(k) + Len(Bytes(f))
  BY <1>1, <1>2, <1>3, NextFrame, Zenon
<1>5. \A i \in 1..Len(Bytes(f)) : Wire(sent)[End(k) + i] = Bytes(f)[i]
  BY <1>1, <1>2, <1>3, Placed, Zenon
<1>6. Len(Bytes(f)) \in Nat
  <2>1. Bytes(f) \in Seq(Byte)
    BY <1>4, BytesAre, Zenon
  <2>2. QED
    BY <2>1
<1>7. ASSUME NEW m \in 0..Len(Bytes(f)), m <= end - curr
      PROVE  Stands(f, m)
  <2>1. ASSUME NEW i \in 1..m
        PROVE  recvBuffer[curr + i] = Bytes(f)[i]
    <3> HIDE DEF b, k, n, f, e
    <3>1. i \in 1..Len(Bytes(f)) /\ curr + i \in 1..end
      BY <1>1, <1>6, <1>7
    <3>2. (b - end) + (curr + i) = End(k) + i
      BY <1>1, <1>4
    <3>3. recvBuffer[curr + i] = Wire(sent)[(b - end) + (curr + i)]
      BY <1>1, <3>1, Zenon
    <3>4. QED
      BY <1>5, <3>1, <3>2, <3>3, Zenon
  <2>2. QED
    BY <1>1, <1>7, <2>1, Zenon DEF Stands
<1>8. QED
  BY <1>1, <1>2, <1>4, <1>6, <1>7, Zenon

\* One turn of the walk: the frame is whole and the walk is at the beginning of
\* the next, or it is torn and the walk is over.
LEMMA TurnKeeps ==
    ASSUME IInv, toFrames
    PROVE  IInv'
<1>0. StreamInv /\ WalkInv /\ FramesInv /\ StoredInv
  BY DEF IInv
<1>1. /\ curr < end /\ frames' = Append(frames, decode) /\ curr' = curr + 9 + Size
      /\ sent' = sent /\ wire' = wire /\ recvBuffer' = recvBuffer /\ end' = end
      /\ handled' = handled /\ settings' = settings /\ acks' = acks
  BY DEF toFrames, handleVars
<1> DEFINE k == Len(frames)
           f == sent[k + 1]
           l == Len(Bytes(f))
           b == BytesRead
           n == Len(sent)
           d == decode
           s == Size
<1>2. /\ k \in 0..(n - 1) /\ f \in Sendable
      /\ (b - end) + curr = End(k)
      /\ l \in Nat
      /\ End(k + 1) = End(k) + l
      /\ \A m \in 0..l : m <= end - curr => Stands(f, m)
  BY <1>0, <1>1, AtFrame, Zenon
<1>3. /\ b \in Nat /\ end \in Nat /\ curr \in Nat /\ end <= b
      /\ recvBuffer \in Seq(Byte) /\ Len(recvBuffer) = end + 9
      /\ sent \in Seq(Sendable) /\ n \in Nat /\ frames \in Seq(AnyFrame) /\ k \in Nat
  BY <1>0, <1>1 DEF StreamInv, FramesInv
<1>4. l = 9 + Len(Payload(f)) /\ Len(Payload(f)) \in Nat
  <2>1. Payload(f) \in Seq(Byte) /\ Len(Bytes(f)) = 9 + Len(Payload(f))
    BY <1>2, BytesAre, PayloadIs, Zenon
  <2>2. QED
    BY <2>1
<1>5. BytesRead' = b /\ \A i : End(i)' = End(i)
  BY <1>1, Zenon DEF BytesRead, End
<1>6. End(k) \in Nat /\ End(k + 1) \in Nat
  <2>1. k \in 0..n /\ k + 1 \in 0..n
    BY <1>2, <1>3
  <2>2. QED
    BY <1>0, <2>1, WholeIs, Zenon
<1>7. /\ s \in Nat
      /\ IF End(k + 1) <= b
         THEN Arrives(f, d) /\ curr + 9 + s = curr + l /\ curr + l <= end
         ELSE d = NewFrame /\ curr + 9 + s > end
  <2> HIDE DEF b, n, k, f, l, d, s
  <2>1. CASE End(k + 1) <= b
    <3>1. l <= end - curr /\ curr + l <= end /\ l \in 0..l /\ l >= 9
      BY <1>2, <1>3, <1>4, <1>6, <2>1
    <3>2. Stands(f, l)
      BY <1>2, <3>1, Zenon
    <3>3. end <= Len(recvBuffer)
      BY <1>3
    <3>4. Arrives(f, decode)
      BY <1>2, <1>3, <3>1, <3>2, <3>3, DecodeIs, Zenon DEF Arrives, l
    <3>5. Size = Len(Payload(f))
      BY <1>2, <3>1, <3>2, HeadRead, Zenon
    <3>6. s \in Nat /\ curr + 9 + s = curr + l
      BY <1>3, <1>4, <3>5 DEF s
    <3>7. QED
      BY <2>1, <3>1, <3>4, <3>6, Zenon DEF d
  <2>2. CASE ~(End(k + 1) <= b)
    <3>1. end - curr < l /\ end - curr \in 0..l /\ end - curr <= end - curr
      BY <1>1, <1>2, <1>3, <1>6, <2>2
    <3>2. Stands(f, end - curr)
      BY <1>2, <3>1, Zenon
    <3>3. decode = NewFrame /\ Size \in Nat /\ curr + 9 + Size > end
      BY <1>1, <1>2, <1>3, <3>1, <3>2, TornIs, Zenon DEF l
    <3>4. QED
      BY <2>2, <3>3, Zenon DEF d, s
  <2>3. QED
    BY <2>1, <2>2
<1>8. d \in AnyFrame
  <2>1. CASE End(k + 1) <= b
    <3>1. Arrives(f, d)
      BY <1>7, <2>1
    <3>2. QED
      BY <1>2, <3>1, FrameIs, Zenon
  <2>2. CASE ~(End(k + 1) <= b)
    BY <1>7, <2>2, FrameIs, Zenon
  <2>3. QED
    BY <2>1, <2>2
<1>9. /\ frames' \in Seq(AnyFrame) /\ Len(frames') = k + 1
      /\ \A i \in 1..k : frames'[i] = frames[i]
      /\ frames'[k + 1] = d
  <2> HIDE DEF d
  <2>1. frames' = Append(frames, d)
    BY <1>1 DEF d
  <2>2. QED
    BY <1>3, <1>8, <2>1
<1>10. curr' \in Nat /\ (curr' < end => Len(recvBuffer) = end + 9)
  <2> HIDE DEF s
  <2>1. curr' = curr + 9 + s
    BY <1>1 DEF s
  <2>2. QED
    BY <1>3, <1>7, <2>1
<1>11. StreamInv'
  BY <1>0, <1>1, <1>5, <1>10, Zenon DEF StreamInv
<1>12. WalkInv'
  <2> DEFINE c == curr'
  <2>1. c = curr + 9 + s
    BY <1>1
  <2>2. k + 1 \in 0..n /\ (k + 1) - 1 = k /\ k + 1 > 0
    BY <1>2, <1>3
  <2> HIDE DEF c, s, d, b, k, n, f, l
  <2>3. CASE End(k + 1) <= b
    <3>1. (b - end) + c = End(k + 1) /\ c <= end
      <4>1. c = curr + l /\ curr + l <= end
        BY <1>7, <2>1, <2>3, Zenon
      <4>2. (b - end) + curr = End(k) /\ End(k + 1) = End(k) + l /\ l \in Nat
        BY <1>2, Zenon
      <4>3. QED
        BY <1>3, <4>1, <4>2
    <3>2. QED
      BY <1>1, <1>5, <1>9, <2>2, <3>1, Zenon DEF WalkInv, c, b, n
  <2>4. CASE ~(End(k + 1) <= b)
    <3>1. End(k) < b /\ b < End(k + 1) /\ c > end
      BY <1>1, <1>2, <1>3, <1>6, <1>7, <2>1, <2>4
    <3>2. QED
      BY <1>1, <1>5, <1>9, <2>2, <3>1, Zenon DEF WalkInv, c, b, n
  <2>5. QED
    BY <2>3, <2>4
<1>13. FramesInv'
  <2> HIDE DEF d, b
  <2>1. ASSUME NEW i \in 1..(k + 1)
        PROVE  IF End(i) <= b THEN Arrives(sent[i], frames'[i])
               ELSE frames'[i] = NewFrame
    <3>1. CASE i \in 1..k
      <4>1. IF End(i) <= b THEN Arrives(sent[i], frames[i])
            ELSE frames[i] = NewFrame
        BY <1>0, <3>1 DEF FramesInv, b
      <4>2. frames'[i] = frames[i]
        BY <1>9, <3>1
      <4>3. QED
        BY <4>1, <4>2
    <3>2. CASE i = k + 1
      BY <1>7, <1>9, <3>2
    <3>3. QED
      BY <1>3, <2>1, <3>1, <3>2
  <2>2. ASSUME NEW i \in 1..Len(frames')
        PROVE  IF End(i)' <= BytesRead' THEN Arrives(sent'[i], frames'[i])
               ELSE frames'[i] = NewFrame
    BY <1>1, <1>5, <1>9, <2>1
  <2>3. QED
    BY <1>9, <2>2, Zenon DEF FramesInv
<1>14. StoredInv'
  <2>1. Whole' = Whole
    BY <1>1, <1>5, Zenon DEF Whole
  <2>2. \A j : Asking(j)' = Asking(j)
    BY <1>1, Zenon DEF Asking
  <2>3. handled \in 0..(k + 1)
    BY <1>0, <1>3 DEF StoredInv
  <2>4. Stored(Asking(Min({handled, Whole})))
    BY <1>0, Zenon DEF StoredInv
  <2>5. Stored(Asking(Min({handled, Whole})))'
    BY <1>1, <2>1, <2>2, <2>4, Zenon DEF Stored
  <2>6. QED
    BY <1>1, <1>9, <2>3, <2>5, Zenon DEF StoredInv
<1>15. QED
  BY <1>11, <1>12, <1>13, <1>14 DEF IInv

\* Whether a frame asks for settings that can be kept.
Asks(f) ==
    /\ f.type = SETTINGS_FRAME /\ f.sid = 0 /\ ~HasFlag(f.flags, ACK)
    /\ Acceptable(f.fragment)

\* The frames that ask for something, one more at a time.
LEMMA AskingIs ==
    /\ \A k \in Nat : /\ Asking(k) \subseteq 1..k /\ IsFiniteSet(Asking(k))
                      /\ Cardinality(Asking(k)) \in 0..k
    /\ \A k \in Nat :
           /\ ~Asks(sent[k + 1]) => Asking(k + 1) = Asking(k)
           /\ Asks(sent[k + 1]) =>
                  /\ Max(Asking(k + 1)) = k + 1 /\ Asking(k + 1) # {}
                  /\ Cardinality(Asking(k + 1)) = Cardinality(Asking(k)) + 1
<1>1. \A k : Asking(k) = {i \in 1..k : Asks(sent[i])}
  BY Zenon DEF Asking, Asks
<1>2. ASSUME NEW k \in Nat
      PROVE  /\ Asking(k) \subseteq 1..k /\ IsFiniteSet(Asking(k))
             /\ Cardinality(Asking(k)) \in 0..k
  <2> DEFINE A == Asking(k)
             B == 1..k
  <2>1. A \subseteq B
    BY <1>1
  <2>2. IsFiniteSet(B) /\ Cardinality(B) = k
    BY FS_Interval
  <2> HIDE DEF A, B
  <2>3. IsFiniteSet(A) /\ Cardinality(A) <= Cardinality(B)
    BY <2>1, <2>2, FS_Subset
  <2>4. Cardinality(A) \in Nat
    BY <2>3, FS_CardinalityType
  <2>5. Cardinality(A) \in 0..k
    BY <2>2, <2>3, <2>4
  <2>6. QED
    BY <2>1, <2>3, <2>5 DEF A, B
<1>3. ASSUME NEW k \in Nat, ~Asks(sent[k + 1])
      PROVE  Asking(k + 1) = Asking(k)
  <2>1. \A i \in 1..(k + 1) : i \in 1..k \/ i = k + 1
    OBVIOUS
  <2>2. \A i \in 1..k : i \in 1..(k + 1)
    OBVIOUS
  <2>3. QED
    BY <1>1, <1>3, <2>1, <2>2
<1>4. ASSUME NEW k \in Nat, Asks(sent[k + 1])
      PROVE  /\ Max(Asking(k + 1)) = k + 1 /\ Asking(k + 1) # {}
             /\ Cardinality(Asking(k + 1)) = Cardinality(Asking(k)) + 1
  <2> DEFINE A == Asking(k)
             B == Asking(k + 1)
             j == k + 1
  <2>1. \A i : i \in 1..j <=> i \in 1..k \/ i = j
    OBVIOUS
  <2>2. j \in Nat /\ j \notin 1..k /\ j \in 1..j
    OBVIOUS
  <2> HIDE DEF j
  <2>3. B = A \union {j} /\ j \notin A
    BY <1>1, <1>4, <2>1, <2>2 DEF j
  <2>4. B \subseteq 1..j /\ j \in B
    BY <1>2, <2>2, <2>3 DEF j
  <2> HIDE DEF A, B
  <2>5. Max(B) = j
    BY <2>2, <2>4, LastIsMax
  <2>6. Cardinality(B) = Cardinality(A) + 1
    <3>1. IsFiniteSet(A)
      BY <1>2 DEF A
    <3>2. QED
      BY <2>3, <3>1, FS_AddElement
  <2>7. QED
    BY <2>4, <2>5, <2>6 DEF A, B, j
<1>5. QED
  BY <1>2, <1>3, <1>4

\* The handlers get the SETTINGS frames as they were meant.
LEMMA HandlerGets ==
    ASSUME NEW f \in Sendable, NEW frame, Arrives(f, frame)
    PROVE  /\ frame.type = f.type /\ frame.sid = f.sid /\ frame.flags = f.flags
           /\ f.type = SETTINGS_FRAME => frame.payload = f.fragment
<1>1. ASSUME NEW p, NEW q
      PROVE  /\ With(f, p, q).type = f.type /\ With(f, p, q).sid = f.sid
             /\ With(f, p, q).flags = f.flags /\ With(f, p, q).payload = p
  BY DEF With
<1>2. \E p, q : frame = With(f, p, q)
  BY Zenon DEF Arrives, Meant, Refused
<1>3. frame.type = f.type /\ frame.sid = f.sid /\ frame.flags = f.flags
  <2>1. PICK p, q : frame = With(f, p, q)
    BY <1>2
  <2>2. QED
    BY <1>1, <2>1
<1>4. ASSUME f.type = SETTINGS_FRAME PROVE frame.payload = f.fragment
  <2>1. /\ SETTINGS_FRAME \notin {DATA_FRAME, HEADERS_FRAME}
        /\ SETTINGS_FRAME # HEADERS_FRAME
    BY DEF SETTINGS_FRAME, DATA_FRAME, HEADERS_FRAME
  <2>2. f.pad = None /\ f.priority = None
    BY <1>4, <2>1, SendableAre, Zenon
  <2>3. Len(Fields(f)) = 0
    <3>1. Start(f) + Extra(f) = 0
      BY <2>2 DEF Start, Extra
    <3>2. QED
      BY <3>1, FieldsAre, Zenon
  <2>4. f.fragment \in Seq(Byte)
    BY SendableAre, Zenon
  <2>5. Len(f.fragment) >= 0
    BY <2>4
  <2>6. frame = With(f, f.fragment, f.priority)
    BY <2>3, <2>5, Zenon DEF Arrives, Meant
  <2>7. QED
    BY <1>1, <2>6, Zenon
<1>5. QED
  BY <1>3, <1>4

\* A frame is handled.
LEMMA HandleKeeps ==
    ASSUME IInv, handleFrame
    PROVE  IInv'
<1>0. StreamInv /\ WalkInv /\ FramesInv /\ StoredInv
  BY DEF IInv
<1> DEFINE frame == frames[handled + 1]
           asked == /\ frame.type = SETTINGS_FRAME /\ frame.sid = 0
                    /\ ~HasFlag(frame.flags, ACK)
           k == Len(frames)
           w == Whole
           i == handled + 1
           f == sent[i]
<1>1. /\ curr >= end /\ handled < k
      /\ IF asked THEN ackSettings(frame) ELSE UNCHANGED <<settings, acks>>
      /\ handled' = handled + 1
      /\ sent' = sent /\ wire' = wire /\ recvBuffer' = recvBuffer /\ end' = end
      /\ curr' = curr /\ frames' = frames
  BY Zenon DEF handleFrame, readVars
<1>2. /\ BytesRead' = BytesRead /\ Whole' = w
      /\ \A j : End(j)' = End(j) /\ Asking(j)' = Asking(j)
  BY <1>1, Zenon DEF BytesRead, Whole, End, Asking
<1>3. StreamInv'
  BY <1>0, <1>1, <1>2, Zenon DEF StreamInv
<1>4. WalkInv'
  BY <1>0, <1>1, <1>2, Zenon DEF WalkInv
<1>5. FramesInv'
  BY <1>0, <1>1, <1>2 DEF FramesInv
<1>6. handled \in Nat /\ k \in 0..Len(sent) /\ w \in 0..Len(sent) /\ Len(sent) \in Nat
      /\ handled \in 0..k /\ Stored(Asking(Min({handled, w})))
  BY <1>0, WholeIs DEF StreamInv, WalkInv, StoredInv
<1>7. /\ i \in Nat /\ i \in 1..k /\ i \in 0..Len(sent) /\ i \in 1..Len(sent)
      /\ i \in 0..k
  <2> HIDE DEF k, w
  <2>1. QED
    BY <1>1, <1>6
<1>8. f \in Sendable
  BY <1>0, <1>7, ElementOfSeq DEF StreamInv
<1> DEFINE asking == Asking(Min({handled, Whole}))
<1>9. Stored(asking)'
  <2>0. asking' = Asking(Min({i, w}))
    <3>1. Min({handled', Whole'}) = Min({i, w})
      BY <1>1, <1>2, Zenon
    <3>2. asking' = Asking(Min({handled', Whole'}))
      BY <1>2, Zenon
    <3>3. QED
      BY <3>1, <3>2, Zenon
  <2>1. CASE i <= w
    <3>1. Min({handled, w}) = handled /\ Min({i, w}) = i
      <4> HIDE DEF w
      <4>1. w \in Nat /\ handled <= w
        BY <1>6, <2>1
      <4>2. QED
        BY <1>6, <1>7, <2>1, <4>1, MinIs
    <3>2. Arrives(f, frame)
      <4>1. End(i) <= BytesRead
        BY <1>0, <1>7, <2>1, WholeIs, Zenon
      <4>2. IF End(i) <= BytesRead THEN Arrives(f, frame) ELSE frame = NewFrame
        BY <1>0, <1>7, Zenon DEF FramesInv
      <4>3. QED
        BY <4>1, <4>2, Zenon
    <3>3. /\ frame.type = f.type /\ frame.sid = f.sid /\ frame.flags = f.flags
          /\ f.type = SETTINGS_FRAME => frame.payload = f.fragment
      BY <1>8, <3>2, HandlerGets, Zenon
    <3>4. asked /\ Acceptable(f.fragment) <=> Asks(f)
      BY <3>3, Zenon DEF Asks
    <3>5. Stored(Asking(handled))
      BY <1>6, <3>1, Zenon
    <3>6. /\ ~Asks(f) => Asking(i) = Asking(handled)
          /\ Asks(f) => /\ Max(Asking(i)) = i /\ Asking(i) # {}
                        /\ Cardinality(Asking(i)) = Cardinality(Asking(handled)) + 1
      BY <1>6, AskingIs, Zenon
    <3>7. CASE asked
      <4> DEFINE decoded == decodeSettings(NewSettings, f.fragment)
      <4>1. frame.payload = f.fragment
        BY <3>3, <3>7, Zenon
      <4>2. IF decoded.error = NO_ERROR
            THEN settings' = decoded.settings /\ acks' = acks + 1
            ELSE UNCHANGED <<settings, acks>>
        BY <1>1, <3>7, <4>1, Zenon DEF ackSettings
      <4>3. f.fragment \in Seq(Byte)
        BY <1>8, SendableAre, Zenon
      <4>4. /\ decoded.error = NO_ERROR <=> Acceptable(f.fragment)
            /\ Acceptable(f.fragment) =>
                   decoded.settings = [value |-> Asked(f.fragment), dirty |-> {}]
        BY <4>3, SettingsDecoded, Zenon
      <4>5. CASE Acceptable(f.fragment)
        <5>1. /\ acks' = Cardinality(Asking(i))
              /\ settings' = [value |-> Asked(sent[Max(Asking(i))].fragment),
                              dirty |-> {}]
              /\ Asking(i) # {}
          BY <3>4, <3>5, <3>6, <3>7, <4>2, <4>4, <4>5, Zenon DEF Stored
        <5>2. asking' = Asking(i)
          BY <2>0, <3>1, Zenon
        <5> HIDE DEF asking
        <5>3. QED
          BY <1>1, <5>1, <5>2, Zenon DEF Stored
      <4>6. CASE ~Acceptable(f.fragment)
        <5>1. settings' = settings /\ acks' = acks
          BY <4>2, <4>4, <4>6
        <5>2. asking' = Asking(handled)
          BY <2>0, <3>1, <3>4, <3>6, <4>6, Zenon
        <5> HIDE DEF asking
        <5>3. QED
          BY <1>1, <3>5, <5>1, <5>2, Zenon DEF Stored
      <4>7. QED
        BY <4>5, <4>6
    <3>8. CASE ~asked
      <4>1. settings' = settings /\ acks' = acks
        BY <1>1, <3>8
      <4>2. asking' = Asking(handled)
        BY <2>0, <3>1, <3>4, <3>6, <3>8, Zenon
      <4> HIDE DEF asking
      <4>3. QED
        BY <1>1, <3>5, <4>1, <4>2, Zenon DEF Stored
    <3>9. QED
      BY <3>7, <3>8
  <2>2. CASE ~(i <= w)
    <3>1. Min({handled, w}) = w /\ Min({i, w}) = w
      <4> HIDE DEF w
      <4>1. w \in Nat /\ w <= handled
        BY <1>6, <2>2
      <4>2. handled <= w => handled = w
        BY <1>6, <4>1
      <4>3. QED
        BY <1>6, <1>7, <2>2, <4>1, <4>2, MinIs
    <3>2. frame = NewFrame
      <4>1. ~(End(i) <= BytesRead)
        BY <1>0, <1>7, <2>2, WholeIs, Zenon
      <4>2. IF End(i) <= BytesRead THEN Arrives(f, frame) ELSE frame = NewFrame
        BY <1>0, <1>7, Zenon DEF FramesInv
      <4>3. QED
        BY <4>1, <4>2, Zenon
    <3>3. ~asked
      BY <3>2 DEF NewFrame, PING_FRAME, SETTINGS_FRAME
    <3>4. settings' = settings /\ acks' = acks
      BY <1>1, <3>3
    <3>5. asking' = Asking(w) /\ Stored(Asking(w))
      BY <1>6, <2>0, <3>1, Zenon
    <3> HIDE DEF asking
    <3>6. QED
      BY <1>1, <3>4, <3>5, Zenon DEF Stored
  <2>3. QED
    BY <2>1, <2>2
<1>10. StoredInv'
  <2>1. handled' \in 0..Len(frames')
    BY <1>1, <1>7
  <2>2. QED
    BY <1>9, <2>1, Zenon DEF StoredInv
<1>11. QED
  BY <1>3, <1>4, <1>5, <1>10 DEF IInv

\* The invariant.
LEMMA Invariance == Spec => []IInv
<1>1. Init => IInv
  BY InitLemma
<1>2. ASSUME IInv, [Next]_vars
      PROVE  IInv'
  <2>1. CASE Read
    BY <1>2, <2>1, ReadKeeps
  <2>2. CASE toFrames
    BY <1>2, <2>2, TurnKeeps
  <2>3. CASE handleFrame
    BY <1>2, <2>3, HandleKeeps
  <2>4. CASE UNCHANGED vars
    <3>1. /\ sent' = sent /\ wire' = wire /\ recvBuffer' = recvBuffer /\ end' = end
          /\ curr' = curr /\ frames' = frames /\ handled' = handled
          /\ settings' = settings /\ acks' = acks
      BY <2>4 DEF vars, readVars, handleVars
    <3>2. /\ BytesRead' = BytesRead /\ Whole' = Whole
          /\ \A j : End(j)' = End(j) /\ Asking(j)' = Asking(j)
      BY <3>1, Zenon DEF BytesRead, Whole, End, Asking
    <3>3. StreamInv /\ WalkInv /\ FramesInv /\ StoredInv
      BY <1>2 DEF IInv
    <3>4. StreamInv'
      BY <3>1, <3>2, <3>3, Zenon DEF StreamInv
    <3>5. WalkInv'
      BY <3>1, <3>2, <3>3, Zenon DEF WalkInv
    <3>6. FramesInv'
      BY <3>1, <3>2, <3>3 DEF FramesInv
    <3>7. StoredInv'
      BY <3>1, <3>2, <3>3, Zenon DEF StoredInv, Stored
    <3>8. QED
      BY <3>4, <3>5, <3>6, <3>7 DEF IInv
  <2>5. QED
    BY <1>2, <2>1, <2>2, <2>3, <2>4 DEF Next, Waiting
<1>3. QED
  BY <1>1, <1>2, PTL DEF Spec

-----------------------------------------------------------------------------
(* The theorems. *)

\* Every variable has its type: what decode makes of a frame is one, with a
\* weight of 1..256, the settings have four bytes each and no frame is
\* acknowledged that was not handled.
THEOREM TypeCorrect == Spec => []TypeOK
<1>1. IInv => TypeOK
  <2> SUFFICES ASSUME IInv PROVE TypeOK
    OBVIOUS
  <2>0. StreamInv /\ WalkInv /\ FramesInv /\ StoredInv
    BY DEF IInv
  <2>1. /\ sent \in Seq(Sendable) /\ wire \in Seq(Byte) /\ recvBuffer \in Seq(Byte)
        /\ end \in Nat /\ curr \in Nat
    BY <2>0 DEF StreamInv
  <2>2. frames \in Seq(AnyFrame) /\ handled \in 0..Len(frames) /\ handled \in Nat
    BY <2>0 DEF FramesInv, StoredInv
  <2> DEFINE w == Whole
             m == Min({handled, w})
             asking == Asking(m)
  <2>3. Whole \in 0..Len(sent)
    BY <2>0, WholeIs, Zenon
  <2>4. m \in Nat /\ m <= handled /\ m <= w
    <3>1. w \in Nat
      BY <2>1, <2>3
    <3> HIDE DEF w
    <3>2. m = IF handled <= w THEN handled ELSE w
      BY <2>2, <3>1, MinIs
    <3> HIDE DEF m
    <3>3. QED
      BY <2>2, <3>1, <3>2
  <2>5. Stored(asking)
    BY <2>0, Zenon DEF StoredInv
  <2>6. asking \subseteq 1..m /\ Cardinality(asking) \in 0..m
    <3> HIDE DEF m
    <3>1. QED
      BY <2>4, AskingIs, Zenon
  <2>7. acks \in 0..handled
    <3> HIDE DEF m
    <3>1. acks \in 0..m
      BY <2>5, <2>6, Zenon DEF Stored
    <3>2. QED
      BY <2>2, <2>4, <3>1
  <2>8. ASSUME asking # {}
        PROVE  Asked(sent[Max(asking)].fragment) \in [SettingsType -> [1..4 -> Byte]]
    <3> DEFINE i == Max(asking)
    <3>1. asking \subseteq 0..m
      <4> HIDE DEF asking, m
      <4>1. QED
        BY <2>6
    <3>2. i \in asking
      <4> HIDE DEF asking, m
      <4>1. QED
        BY <2>4, <2>8, <3>1, Highest
    <3>3. i \in 1..m
      BY <2>6, <3>2
    <3>4. i \in 1..Len(sent)
      <4> HIDE DEF i, m
      <4>1. QED
        BY <2>1, <2>3, <2>4, <3>3
    <3> HIDE DEF i
    <3>5. sent[i] \in Sendable
      BY <2>1, <3>4, ElementOfSeq
    <3>6. sent[i].fragment \in Seq(Byte)
      BY <3>5, SendableAre, Zenon
    <3>7. QED
      BY <3>6, AskedIs, Zenon DEF i
  <2>9. settings.value \in [SettingsType -> [1..4 -> Byte]] /\ settings.dirty = {}
    <3> DEFINE v == IF asking = {} THEN Defaults ELSE Asked(sent[Max(asking)].fragment)
    <3>1. v \in [SettingsType -> [1..4 -> Byte]]
      BY <2>8, DefaultsAre, Zenon
    <3>2. settings = [value |-> v, dirty |-> {}]
      BY <2>5, Zenon DEF Stored
    <3> HIDE DEF v
    <3>3. settings.value = v /\ settings.dirty = {}
      BY <3>2
    <3>4. QED
      BY <3>1, <3>3
  <2>10. QED
    BY <2>1, <2>2, <2>7, <2>9 DEF TypeOK
<1>2. QED
  BY <1>1, Invariance, PTL

\* Which frames have arrived.
LEMMA ArrivedAre ==
    ASSUME IInv
    PROVE  /\ Whole \in Nat /\ Len(frames) \in Nat
           /\ \A i \in 1..Len(frames) :
                  IF i <= Whole THEN Arrives(sent[i], frames[i])
                  ELSE frames[i] = NewFrame
<1>1. StreamInv /\ WalkInv /\ FramesInv
  BY DEF IInv
<1>2. Whole \in 0..Len(sent) /\ Len(sent) \in Nat /\ Len(frames) \in 0..Len(sent)
  BY <1>1, WholeIs DEF StreamInv, WalkInv
<1>3. ASSUME NEW i \in 1..Len(frames)
      PROVE  IF i <= Whole THEN Arrives(sent[i], frames[i])
             ELSE frames[i] = NewFrame
  <2>1. i \in 0..Len(sent)
    BY <1>2
  <2>2. End(i) <= BytesRead <=> i <= Whole
    BY <1>1, <2>1, WholeIs, Zenon
  <2>3. IF End(i) <= BytesRead THEN Arrives(sent[i], frames[i])
        ELSE frames[i] = NewFrame
    BY <1>1 DEF FramesInv
  <2>4. QED
    BY <2>2, <2>3, Zenon
<1>4. QED
  BY <1>2, <1>3

\* Every frame that is read whole arrives in its place and as it was meant.
THEOREM FramesArrive == Spec => []WholeFramesArrive
<1>1. IInv => WholeFramesArrive
  <2> SUFFICES ASSUME IInv PROVE WholeFramesArrive
    OBVIOUS
  <2>1. /\ Len(frames) \in Nat /\ frames \in Seq(AnyFrame)
        /\ curr >= end => Len(frames) >= Whole
    BY WalkIs DEF IInv, FramesInv
  <2>2. ASSUME NEW i \in 1..Whole \intersect DOMAIN frames,
               Len(sent[i].fragment) >= Len(Fields(sent[i]))
        PROVE  frames[i] = Meant(sent[i])
    <3>1. i \in 1..Len(frames) /\ i <= Whole
      BY <2>1, ArrivedAre
    <3>2. Arrives(sent[i], frames[i])
      BY <3>1, ArrivedAre, Zenon
    <3>3. QED
      BY <2>2, <3>2, Zenon DEF Arrives
  <2>3. QED
    BY <2>1, <2>2, Zenon DEF WholeFramesArrive
<1>2. QED
  BY <1>1, Invariance, PTL

\* A whole frame has its payload or none, and a torn one is a PING without
\* payload.
THEOREM PiecesStayOut == Spec => []NoPieces
<1>1. IInv => NoPieces
  <2> SUFFICES ASSUME IInv PROVE NoPieces
    OBVIOUS
  <2>1. Len(frames) <= Whole + 1
    BY WalkIs, Zenon DEF IInv
  <2>2. ASSUME NEW i \in 1..Len(frames)
        PROVE  IF i <= Whole
               THEN frames[i] = Meant(sent[i]) \/ frames[i] \in Refused(sent[i])
               ELSE frames[i] = NewFrame
    <3>1. IF i <= Whole THEN Arrives(sent[i], frames[i]) ELSE frames[i] = NewFrame
      BY ArrivedAre, Zenon
    <3>2. QED
      BY <3>1, Zenon DEF Arrives
  <2>3. QED
    BY <2>1, <2>2, Zenon DEF NoPieces
<1>2. QED
  BY <1>1, Invariance, PTL

\* The settings kept are those of the last acceptable SETTINGS frame, and the
\* acceptable frames are the ones acknowledged.
THEOREM SettingsAreStored == Spec => []SettingsStored
<1>1. IInv => SettingsStored
  <2> SUFFICES ASSUME IInv PROVE SettingsStored
    OBVIOUS
  <2> DEFINE asking == Asking(Min({handled, Whole}))
             v == IF asking = {} THEN Defaults ELSE Asked(sent[Max(asking)].fragment)
  <2>1. acks = Cardinality(asking) /\ settings = [value |-> v, dirty |-> {}]
    BY Zenon DEF IInv, StoredInv, Stored
  <2> HIDE DEF v
  <2>2. settings.value = v
    BY <2>1
  <2>3. QED
    BY <2>1, <2>2, Zenon DEF SettingsStored, v
<1>2. QED
  BY <1>1, Invariance, PTL
=============================================================================
