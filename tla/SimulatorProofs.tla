-------------------------- MODULE SimulatorProofs ---------------------------
(***************************************************************************)
(* Proofs about the simulator of A5: for every width of registers, size of *)
(* a page, number of buckets, listing and arguments.  Words and bytes of   *)
(* the memory first, then the table, the listing and the arguments, then   *)
(* the run itself.                                                         *)
(***************************************************************************)
EXTENDS Simulator, InductionLemmas

LEMMA Widths == ByteValues \in {4, 16, 256} /\ HalfValues = ByteValues * ByteValues /\ WordValues = HalfValues * HalfValues
  <1>1. CASE Width = 8
    <2>1. Width \div 4 = 2 /\ Width \div 2 = 4
      BY <1>1
    <2> QED BY <1>1, <2>1 DEF ByteValues, HalfValues, WordValues
  <1>2. CASE Width = 16
    <2>1. Width \div 4 = 4 /\ Width \div 2 = 8
      BY <1>2
    <2> QED BY <1>2, <2>1 DEF ByteValues, HalfValues, WordValues
  <1>3. CASE Width = 32
    <2>1. Width \div 4 = 8 /\ Width \div 2 = 16
      BY <1>3
    <2> QED BY <1>3, <2>1 DEF ByteValues, HalfValues, WordValues
  <1> QED BY <1>1, <1>2, <1>3, WidthAssumption

LEMMA Weights == /\ ByteValues^0 = 1 /\ ByteValues^1 = ByteValues /\ ByteValues^2 = ByteValues * ByteValues
                 /\ ByteValues^3 = ByteValues * ByteValues * ByteValues
  <1>1. CASE ByteValues = 4
    BY <1>1
  <1>2. CASE ByteValues = 16
    BY <1>2
  <1>3. CASE ByteValues = 256
    BY <1>3
  <1> QED BY <1>1, <1>2, <1>3, Widths

\* Division with remainder: what it is, and that it is the only one.
LEMMA Divided ==
  ASSUME NEW w \in Int, NEW B \in Nat \ {0}
  PROVE  \E q \in Int, r \in 0..(B - 1) : q = w \div B /\ r = w % B /\ w = q * B + r
  <1>1. w \div B \in Int /\ w % B \in 0..(B - 1)
    OBVIOUS
  <1>2. w % B = w - B * (w \div B)
    OBVIOUS
  <1> DEFINE q == w \div B
             r == w % B
  <1>3. q \in Int /\ r \in Int /\ r = w - B * q
    BY <1>1, <1>2
  <1> HIDE DEF q, r
  <1>4. w = q * B + r
    BY <1>3
  <1>5. q = w \div B /\ r = w % B /\ r \in 0..(B - 1)
    BY <1>1 DEF q, r
  <1> QED BY <1>3, <1>4, <1>5

LEMMA DividedOnce ==
  ASSUME NEW B \in Nat \ {0}, NEW q \in Int, NEW r \in 0..(B - 1)
  PROVE  (q * B + r) \div B = q /\ (q * B + r) % B = r
OBVIOUS

LEMMA Distributed ==
  ASSUME NEW p \in Int, NEW s \in Int, NEW r \in Int, NEW A \in Int, NEW B \in Int
  PROVE  (p * B + s) * A + r = p * (A * B) + (s * A + r)
OBVIOUS

LEMMA TwoDigits ==
  ASSUME NEW A \in Nat \ {0}, NEW B \in Nat \ {0}, NEW r \in 0..(A - 1), NEW s \in 0..(B - 1)
  PROVE  s * A + r \in 0..(A * B - 1) /\ A * B \in Nat \ {0}
  <1>1. s * A >= 0 /\ s * A <= (B - 1) * A
    OBVIOUS
  <1>2. (B - 1) * A = A * B - A
    OBVIOUS
  <1>3. s * A \in Int /\ A * B \in Int /\ A * B > 0
    OBVIOUS
  <1> QED BY <1>1, <1>2, <1>3

\* Dividing twice, and the remainder of a remainder.
LEMMA DividedTwice ==
  ASSUME NEW w \in Int, NEW A \in Nat \ {0}, NEW B \in Nat \ {0}
  PROVE  /\ (w \div A) \div B = w \div (A * B)
         /\ (w % (A * B)) % A = w % A /\ (w % (A * B)) \div A = (w \div A) % B
         /\ w % (A * B) = (w % A) + A * ((w \div A) % B)
  <1>1. PICK q \in Int, r \in 0..(A - 1) : q = w \div A /\ r = w % A /\ w = q * A + r
    BY Divided
  <1>2. PICK p \in Int, s \in 0..(B - 1) : p = q \div B /\ s = q % B /\ q = p * B + s
    BY Divided
  <1>3. w = p * (A * B) + (s * A + r)
    <2>1. (p * B + s) * A + r = p * (A * B) + (s * A + r)
      BY Distributed
    <2> QED BY <1>1, <1>2, <2>1
  <1>4. s * A + r \in 0..(A * B - 1) /\ A * B \in Nat \ {0}
    BY TwoDigits
  <1>5. PICK C \in Nat \ {0}, t \in Nat : C = A * B /\ t = s * A + r /\ t \in 0..(C - 1)
    BY <1>4
  <1>6. w \div C = p /\ w % C = t
    BY <1>3, <1>5, DividedOnce
  <1>7. t % A = r /\ t \div A = s
    BY <1>5, DividedOnce
  <1>8. w \div (A * B) = p /\ w % (A * B) = t
    BY <1>5, <1>6
  <1>9. (w \div A) \div B = p /\ (w \div A) % B = s /\ w % A = r
    BY <1>1, <1>2
  <1>10. (w \div A) \div B = w \div (A * B)
    BY <1>8, <1>9
  <1>11. (w % (A * B)) % A = w % A /\ (w % (A * B)) \div A = (w \div A) % B
    BY <1>7, <1>8, <1>9
  <1>12. w % (A * B) = (w % A) + A * ((w \div A) % B)
    <2>1. w % (A * B) = r + A * s
      BY <1>5, <1>8
    <2> QED BY <2>1, <1>9
  <1> QED BY <1>10, <1>11, <1>12

\* The number with the digits c0 to c3 to the base B.
Number(B, c0, c1, c2, c3) == c0 + B * c1 + B * B * c2 + B * B * B * c3

LEMMA Horner ==
  ASSUME NEW B \in Int, NEW c0 \in Int, NEW c1 \in Int, NEW c2 \in Int, NEW c3 \in Int
  PROVE  ((c3 * B + c2) * B + c1) * B + c0 = Number(B, c0, c1, c2, c3)
BY DEF Number

LEMMA NumberIs ==
  ASSUME NEW B \in Int, NEW c0 \in Int, NEW c1 \in Int, NEW c2 \in Int, NEW c3 \in Int
  PROVE  /\ Number(B, c0, c1, c2, c3) \in Int
         /\ Number(B, c0, c1, c2, c3) = (c0 + B * c1) + (c2 + B * c3) * (B * B)
  <1>1. (c2 + B * c3) * (B * B) = B * B * c2 + B * B * B * c3
    OBVIOUS
  <1>2. (c2 + B * c3) * (B * B) \in Int
    OBVIOUS
  <1> QED BY <1>1, <1>2 DEF Number

\* Another digit at one of its places.
LEMMA OtherDigit0 ==
  ASSUME NEW B \in Int, NEW c0 \in Int, NEW c1 \in Int, NEW c2 \in Int, NEW c3 \in Int, NEW c \in Int
  PROVE  Number(B, c0, c1, c2, c3) + (c - c0) * 1 = Number(B, c, c1, c2, c3)
BY DEF Number

LEMMA OtherDigit1 ==
  ASSUME NEW B \in Int, NEW c0 \in Int, NEW c1 \in Int, NEW c2 \in Int, NEW c3 \in Int, NEW c \in Int
  PROVE  Number(B, c0, c1, c2, c3) + (c - c1) * B = Number(B, c0, c, c2, c3)
  <1>1. (c - c1) * B = B * c - B * c1
    OBVIOUS
  <1> QED BY <1>1 DEF Number

LEMMA OtherDigit2 ==
  ASSUME NEW B \in Int, NEW c0 \in Int, NEW c1 \in Int, NEW c2 \in Int, NEW c3 \in Int, NEW c \in Int
  PROVE  Number(B, c0, c1, c2, c3) + (c - c2) * (B * B) = Number(B, c0, c1, c, c3)
  <1>1. (c - c2) * (B * B) = B * B * c - B * B * c2
    OBVIOUS
  <1> QED BY <1>1 DEF Number

LEMMA OtherDigit3 ==
  ASSUME NEW B \in Int, NEW c0 \in Int, NEW c1 \in Int, NEW c2 \in Int, NEW c3 \in Int, NEW c \in Int
  PROVE  Number(B, c0, c1, c2, c3) + (c - c3) * (B * B * B) = Number(B, c0, c1, c2, c)
  <1>1. (c - c3) * (B * B * B) = B * B * B * c - B * B * B * c3
    OBVIOUS
  <1> QED BY <1>1 DEF Number

LEMMA QuotientTwice ==
  ASSUME NEW w \in Int, NEW A \in Nat \ {0}, NEW B \in Nat \ {0}
  PROVE  (w \div A) \div B = w \div (A * B)
BY DividedTwice, Zenon

\* The four bytes of a word.
LEMMA BytesOfWord ==
  ASSUME NEW B \in Nat \ {0}, NEW w \in 0..(B * B * (B * B) - 1)
  PROVE  /\ w % B \in 0..(B - 1) /\ (w \div B) % B \in 0..(B - 1)
         /\ (w \div (B * B)) % B \in 0..(B - 1) /\ (w \div (B * B * B)) % B \in 0..(B - 1)
         /\ w = Number(B, w % B, (w \div B) % B, (w \div (B * B)) % B, (w \div (B * B * B)) % B)
  <1>1. w \in Int /\ B * B \in Nat \ {0} /\ B * B * B \in Nat \ {0}
    OBVIOUS
  <1>2. PICK a \in Int, x0 \in 0..(B - 1) : a = w \div B /\ x0 = w % B /\ w = a * B + x0
    BY <1>1, Divided
  <1>3. PICK b \in Int, x1 \in 0..(B - 1) : b = a \div B /\ x1 = a % B /\ a = b * B + x1
    BY Divided
  <1>4. PICK c \in Int, x2 \in 0..(B - 1) : c = b \div B /\ x2 = b % B /\ b = c * B + x2
    BY Divided
  <1>5. b = w \div (B * B)
    <2>1. (w \div B) \div B = w \div (B * B)
      BY <1>1, QuotientTwice, Zenon
    <2> QED BY <2>1, <1>2, <1>3, Zenon
  <1>6. c = w \div (B * B * B)
    <2>1. (w \div (B * B)) \div B = w \div (B * B * B)
      BY <1>1, QuotientTwice, Zenon
    <2> QED BY <2>1, <1>4, <1>5, Zenon
  <1>7. w = Number(B, x0, x1, x2, c)
    <2>1. w = ((c * B + x2) * B + x1) * B + x0
      BY <1>2, <1>3, <1>4
    <2> QED BY <2>1, Horner
  <1>8. c \in 0..(B - 1)
    <2> DEFINE E == B * B * B
               r == w % E
    <2>1. w = c * E + r /\ r \in 0..(E - 1) /\ E \in Nat \ {0}
      <3> HIDE DEF E
      <3>1. E \in Nat \ {0} /\ c = w \div E
        BY <1>1, <1>6 DEF E
      <3> QED BY <3>1, Divided
    <2>2. B * B * (B * B) = B * E
      OBVIOUS
    <2> HIDE DEF E, r
    <2>3. w < B * E /\ w >= 0
      BY <2>2
    <2>4. c < B
      <3> SUFFICES ASSUME c >= B PROVE FALSE
        OBVIOUS
      <3>1. c * E >= B * E
        BY <2>1
      <3> QED BY <2>1, <2>3, <3>1
    <2>5. c >= 0
      <3> SUFFICES ASSUME c <= -1 PROVE FALSE
        OBVIOUS
      <3>1. c * E <= (-1) * E
        BY <2>1
      <3> QED BY <2>1, <2>3, <3>1
    <2> QED BY <2>4, <2>5
  <1>9. c % B = c
    BY <1>8
  <1>10. w % B = x0 /\ (w \div B) % B = x1 /\ (w \div (B * B)) % B = x2 /\ (w \div (B * B * B)) % B = c
    BY <1>2, <1>3, <1>4, <1>5, <1>6, <1>9
  <1> QED BY <1>7, <1>8, <1>10

LEMMA WordOfBytes ==
  ASSUME NEW B \in Nat \ {0}, NEW c0 \in 0..(B - 1), NEW c1 \in 0..(B - 1), NEW c2 \in 0..(B - 1), NEW c3 \in 0..(B - 1),
         NEW w, w = Number(B, c0, c1, c2, c3)
  PROVE  /\ w \in 0..(B * B * (B * B) - 1)
         /\ w % B = c0 /\ (w \div B) % B = c1 /\ (w \div (B * B)) % B = c2 /\ (w \div (B * B * B)) % B = c3
  <1> DEFINE b == c3 * B + c2
             a == b * B + c1
  <1>1. b \in Int /\ a \in Int /\ w \in Int /\ w = a * B + c0
    <2>1. b \in Int /\ a \in Int
      OBVIOUS
    <2>2. a * B + c0 = ((c3 * B + c2) * B + c1) * B + c0
      OBVIOUS
    <2>3. ((c3 * B + c2) * B + c1) * B + c0 = w
      BY Horner
    <2> QED BY <2>1, <2>2, <2>3
  <1>2. B * B \in Nat \ {0} /\ B * B * B \in Nat \ {0}
    OBVIOUS
  <1>3. w \div B = a /\ w % B = c0
    <2> HIDE DEF a
    <2> QED BY <1>1, DividedOnce
  <1>4. a \div B = b /\ a % B = c1
    <2> HIDE DEF b
    <2> QED BY <1>1, DividedOnce
  <1>5. b \div B = c3 /\ b % B = c2
    BY DividedOnce
  <1>6. w \div (B * B) = b
    <2>1. (w \div B) \div B = w \div (B * B)
      <3> HIDE DEF a, b
      <3> QED BY <1>1, DividedTwice
    <2> QED BY <2>1, <1>3, <1>4
  <1>7. w \div (B * B * B) = c3
    <2>1. (w \div (B * B)) \div B = w \div (B * B * B)
      <3> HIDE DEF a, b
      <3> QED BY <1>1, <1>2, DividedTwice
    <2>2. (w \div (B * B)) \div B = b \div B
      <3> HIDE DEF a, b
      <3> QED BY <1>6
    <2> QED BY <2>1, <2>2, <1>5
  <1>8. c3 % B = c3
    OBVIOUS
  <1>9. w \in 0..(B * B * (B * B) - 1)
    <2>1. b >= 0 /\ b <= B * B - 1
      <3>1. c3 * B >= 0 /\ c3 * B <= (B - 1) * B /\ (B - 1) * B = B * B - B
        OBVIOUS
      <3> QED BY <3>1
    <2> HIDE DEF b
    <2> DEFINE C == B * B
    <2>2. C \in Nat \ {0} /\ b \in 0..(C - 1)
      BY <2>1, <1>1
    <2>3. c1 * B + c0 \in 0..(C - 1)
      <3>1. c1 * B >= 0 /\ c1 * B <= (B - 1) * B /\ (B - 1) * B = B * B - B
        OBVIOUS
      <3> QED BY <3>1
    <2>4. w = b * C + (c1 * B + c0)
      <3>1. w = (b * B + c1) * B + c0
        BY <1>1
      <3> QED BY <3>1, <1>1
    <2> HIDE DEF C
    <2>5. b * C >= 0 /\ b * C <= (C - 1) * C /\ (C - 1) * C = C * C - C
      BY <2>2
    <2>6. w \in 0..(C * C - 1)
      BY <2>2, <2>3, <2>4, <2>5
    <2> QED BY <2>6 DEF C
  <1> QED BY <1>3, <1>4, <1>5, <1>6, <1>7, <1>8, <1>9

Words == -(WordValues \div 2)..(WordValues \div 2 - 1)

\* A byte of an unsigned word.
Digit(w, k) == (w \div ByteValues^k) % ByteValues

LEMMA Numbers == /\ ByteValues \in Nat \ {0} /\ HalfValues \in Nat \ {0} /\ WordValues \in Nat \ {0}
                 /\ WordValues % 4 = 0 /\ WordValues % 2 = 0 /\ WordValues \div 2 \in Nat \ {0}
                 /\ WordValues = 2 * (WordValues \div 2) /\ (WordValues \div 2) % 4 = 0
                 /\ ByteValues % 2 = 0 /\ HalfValues % 2 = 0
  <1>1. CASE ByteValues = 4
    <2>1. HalfValues = 16 /\ WordValues = 256
      BY <1>1, Widths
    <2> QED BY <1>1, <2>1
  <1>2. CASE ByteValues = 16
    <2>1. HalfValues = 256 /\ WordValues = 65536
      BY <1>2, Widths
    <2> QED BY <1>2, <2>1
  <1>3. CASE ByteValues = 256
    <2>1. HalfValues = 65536 /\ WordValues = 4294967296
      BY <1>3, Widths
    <2> QED BY <1>3, <2>1
  <1> QED BY <1>1, <1>2, <1>3, Widths

LEMMA SignedIs ==
  ASSUME NEW v \in Int
  PROVE  /\ Signed(v) \in Words /\ Unsigned(v) \in 0..(WordValues - 1)
         /\ Unsigned(Signed(v)) = Unsigned(v)
         /\ Signed(v) = IF Unsigned(v) < WordValues \div 2 THEN Unsigned(v) ELSE Unsigned(v) - WordValues
  <1>1. PICK W \in Nat \ {0}, H \in Nat \ {0} : W = WordValues /\ H = WordValues \div 2 /\ W = 2 * H
    BY Numbers
  <1>2. PICK q \in Int, r \in 0..(W - 1) : r = v % W /\ v = q * W + r
    BY <1>1, Divided
  <1>3. CASE r < H
    <2>1. v + H = q * W + (r + H) /\ r + H \in 0..(W - 1)
      BY <1>1, <1>2, <1>3
    <2>2. (v + H) % W = r + H
      <3>1. PICK t \in 0..(W - 1) : t = r + H
        BY <2>1
      <3>2. (q * W + t) % W = t
        BY DividedOnce
      <3> QED BY <3>1, <3>2, <2>1
    <2>3. Signed(v) = r
      BY <2>2, <1>1 DEF Signed
    <2>4. r % W = r
      BY <1>1
    <2> QED BY <2>3, <2>4, <1>1, <1>2, <1>3 DEF Unsigned, Words
  <1>4. CASE r >= H
    <2>1. v + H = (q + 1) * W + (r - H) /\ r - H \in 0..(W - 1)
      BY <1>1, <1>2, <1>4
    <2>2. (v + H) % W = r - H
      <3>1. PICK t \in 0..(W - 1) : t = r - H
        BY <2>1
      <3>2. PICK p \in Int : p = q + 1
        OBVIOUS
      <3>3. (p * W + t) % W = t
        BY DividedOnce
      <3> QED BY <3>1, <3>2, <3>3, <2>1
    <2>3. Signed(v) = r - W
      BY <2>2, <1>1 DEF Signed
    <2>4. (r - W) % W = r
      <3>1. r - W = (-1) * W + r
        BY <1>1
      <3> QED BY <3>1, <1>1, DividedOnce
    <2> QED BY <2>3, <2>4, <1>1, <1>2, <1>4 DEF Unsigned, Words
  <1> QED BY <1>1, <1>2, <1>3, <1>4

\* The same low bits.
LEMMA SameBits ==
  ASSUME NEW v \in Int, NEW w \in Int, Unsigned(v) = Unsigned(w)
  PROVE  Signed(v) = Signed(w)
BY SignedIs

LEMMA SignedWord ==
  ASSUME NEW v \in Words
  PROVE  Signed(v) = v /\ v \in Int /\ v = IF Unsigned(v) < WordValues \div 2 THEN Unsigned(v) ELSE Unsigned(v) - WordValues
  <1>1. PICK W \in Nat \ {0}, H \in Nat \ {0} : W = WordValues /\ H = WordValues \div 2 /\ W = 2 * H
    BY Numbers
  <1>2. v + H \in 0..(W - 1) /\ v \in Int
    BY <1>1 DEF Words
  <1>3. (v + H) % W = v + H
    BY <1>2, <1>1
  <1>4. Signed(v) = v
    BY <1>3, <1>2, <1>1 DEF Signed
  <1> QED BY <1>2, <1>4, SignedIs

LEMMA UnsignedWord ==
  ASSUME NEW v \in 0..(WordValues - 1)
  PROVE  Unsigned(v) = v
BY Numbers DEF Unsigned

LEMMA UnsignedAligned ==
  ASSUME NEW v \in Int
  PROVE  Unsigned(v) % 4 = v % 4 /\ Unsigned(v) % 2 = v % 2
  <1>1. PICK W4 \in Nat \ {0} : WordValues = 4 * W4
    <2>1. WordValues = 4 * (WordValues \div 4) /\ WordValues \div 4 \in Nat \ {0}
      BY Numbers
    <2> QED BY <2>1
  <1>2. (v % (4 * W4)) % 4 = v % 4
    <2>1. PICK four \in Nat \ {0} : four = 4
      OBVIOUS
    <2>2. (v % (four * W4)) % four = v % four
      BY DividedTwice
    <2> QED BY <2>1, <2>2
  <1>3. PICK W2 \in Nat \ {0} : WordValues = 2 * W2
    BY Numbers
  <1>4. (v % (2 * W2)) % 2 = v % 2
    <2>1. PICK two \in Nat \ {0} : two = 2
      OBVIOUS
    <2>2. (v % (two * W2)) % two = v % two
      BY DividedTwice
    <2> QED BY <2>1, <2>2
  <1> QED BY <1>1, <1>2, <1>3, <1>4 DEF Unsigned

LEMMA UnsignedIs ==
  ASSUME NEW v \in Int
  PROVE  /\ Unsigned(v) \in 0..(WordValues - 1) /\ Unsigned(v) \in Int /\ Unsigned(Unsigned(v)) = Unsigned(v)
         /\ Unsigned(v) % 4 = v % 4 /\ Unsigned(v) % 2 = v % 2
  <1>1. Unsigned(v) \in 0..(WordValues - 1)
    BY SignedIs
  <1>2. Unsigned(v) \in Int
    BY <1>1, Numbers
  <1>3. Unsigned(Unsigned(v)) = Unsigned(v)
    BY <1>1, UnsignedWord
  <1>4. Unsigned(v) % 4 = v % 4 /\ Unsigned(v) % 2 = v % 2
    BY UnsignedAligned
  <1> QED BY <1>1, <1>2, <1>3, <1>4

\* The words of the memory of a program: pages of words.
MemoryOK(m) ==
  /\ DOMAIN m \subseteq Nat
  /\ \A p \in DOMAIN m : m[p] \in [0..(PageBytes \div 4 - 1) -> Words]

LEMMA Pages == PageBytes \div 4 \in Nat \ {0} /\ PageBytes = 4 * (PageBytes \div 4)
BY MemoryAssumption

\* Where the word of an address is.
LEMMA PlaceOf ==
  ASSUME NEW a \in Int
  PROVE  /\ PageOf(a) = (Unsigned(a) \div 4) \div (PageBytes \div 4)
         /\ IndexOf(a) = (Unsigned(a) \div 4) % (PageBytes \div 4)
         /\ PageOf(a) \in Nat /\ IndexOf(a) \in 0..(PageBytes \div 4 - 1)
  <1>1. PICK u \in Nat, W \in Nat \ {0} : u = Unsigned(a) /\ W = PageBytes \div 4 /\ PageBytes = 4 * W
    <2>1. Unsigned(a) \in Nat
      BY SignedIs, Numbers
    <2> QED BY <2>1, Pages
  <1>2. (u \div 4) \div W = u \div (4 * W) /\ (u % (4 * W)) \div 4 = (u \div 4) % W
    <2>1. PICK four \in Nat \ {0} : four = 4
      OBVIOUS
    <2>2. u \in Int
      OBVIOUS
    <2>3. (u \div four) \div W = u \div (four * W) /\ (u % (four * W)) \div four = (u \div four) % W
      BY <2>2, DividedTwice, Zenon
    <2> QED BY <2>1, <2>3
  <1>3. u \div 4 \in Nat
    OBVIOUS
  <1>4. (u \div 4) \div W \in Nat /\ (u \div 4) % W \in 0..(W - 1)
    BY <1>3
  <1> QED BY <1>1, <1>2, <1>4 DEF PageOf, IndexOf

LEMMA SamePlace ==
  ASSUME NEW a \in Int, NEW b \in Int
  PROVE  PageOf(a) = PageOf(b) /\ IndexOf(a) = IndexOf(b) <=> Unsigned(a) \div 4 = Unsigned(b) \div 4
  <1>1. PICK W \in Nat \ {0} : W = PageBytes \div 4
    BY Pages
  <1> DEFINE u == Unsigned(a) \div 4
             v == Unsigned(b) \div 4
  <1>2. u \in Int /\ v \in Int
    BY SignedIs
  <1> HIDE DEF u, v
  <1>3. PICK q \in Int, r \in 0..(W - 1) : q = u \div W /\ r = u % W /\ u = q * W + r
    BY <1>2, Divided
  <1>4. PICK p \in Int, s \in 0..(W - 1) : p = v \div W /\ s = v % W /\ v = p * W + s
    BY <1>2, Divided
  <1>5. PageOf(a) = q /\ IndexOf(a) = r /\ PageOf(b) = p /\ IndexOf(b) = s
    BY <1>1, <1>3, <1>4, PlaceOf DEF u, v
  <1>6. u = v <=> q = p /\ r = s
    BY <1>3, <1>4
  <1> QED BY <1>5, <1>6 DEF u, v

LEMMA GetPage ==
  ASSUME NEW m, MemoryOK(m), NEW a \in Int
  PROVE  /\ MemoryOK(get_page(m, a)) /\ PageOf(a) \in DOMAIN get_page(m, a)
         /\ DOMAIN get_page(m, a) = DOMAIN m \cup {PageOf(a)}
  <1>1. 0 \in Words
    BY Numbers DEF Words
  <1>2. PageOf(a) \in Nat
    BY PlaceOf
  <1> QED BY <1>1, <1>2 DEF get_page, MemoryOK

LEMMA WordIs ==
  ASSUME NEW m, MemoryOK(m), NEW a \in Int
  PROVE  /\ Word(m, a) \in 0..(WordValues - 1)
         /\ get_page(m, a)[PageOf(a)][IndexOf(a)] \in Words
         /\ Word(m, a) = IF PageOf(a) \in DOMAIN m THEN Unsigned(m[PageOf(a)][IndexOf(a)]) ELSE 0
  <1>1. get_page(m, a)[PageOf(a)][IndexOf(a)] \in Words
    <2>1. get_page(m, a)[PageOf(a)] \in [0..(PageBytes \div 4 - 1) -> Words]
      BY GetPage DEF MemoryOK
    <2> QED BY <2>1, PlaceOf
  <1>2. Unsigned(0) = 0
    BY Numbers DEF Unsigned
  <1>3. Word(m, a) \in 0..(WordValues - 1)
    <2> DEFINE v == get_page(m, a)[PageOf(a)][IndexOf(a)]
    <2>1. v \in Int
      BY <1>1, SignedWord
    <2> HIDE DEF v
    <2>2. Unsigned(v) \in 0..(WordValues - 1)
      BY <2>1, SignedIs
    <2> QED BY <2>2 DEF v, Word
  <1>4. Word(m, a) = IF PageOf(a) \in DOMAIN m THEN Unsigned(m[PageOf(a)][IndexOf(a)]) ELSE 0
    BY <1>2, PlaceOf DEF Word, get_page
  <1> QED BY <1>1, <1>3, <1>4

\* Reading a word keeps every word; writing one sets that word.
LEMMA WordKept ==
  ASSUME NEW m, MemoryOK(m), NEW a \in Int, NEW b \in Int
  PROVE  Word(get_page(m, a), b) = Word(m, b)
  <1>1. Word(m, b) = IF PageOf(b) \in DOMAIN m THEN Unsigned(m[PageOf(b)][IndexOf(b)]) ELSE 0
    BY WordIs
  <1>2. Word(get_page(m, a), b) = IF PageOf(b) \in DOMAIN get_page(m, a)
                                  THEN Unsigned(get_page(m, a)[PageOf(b)][IndexOf(b)]) ELSE 0
    BY WordIs, GetPage
  <1>3. Unsigned(0) = 0
    BY Numbers DEF Unsigned
  <1> QED BY <1>1, <1>2, <1>3, PlaceOf DEF get_page

LEMMA WordSet ==
  ASSUME NEW m, MemoryOK(m), NEW a \in Int, NEW d \in Int
  PROVE  /\ MemoryOK(SetWord(m, a, d))
         /\ \A b \in Int : Word(SetWord(m, a, d), b) =
              IF Unsigned(b) \div 4 = Unsigned(a) \div 4 THEN Unsigned(d) ELSE Word(m, b)
  <1> DEFINE g == get_page(m, a)
             n == SetWord(m, a, d)
  <1>1. MemoryOK(g) /\ PageOf(a) \in DOMAIN g
    BY GetPage
  <1>2. IndexOf(a) \in 0..(PageBytes \div 4 - 1) /\ Signed(d) \in Words
    BY PlaceOf, SignedIs
  <1> HIDE DEF g
  <1>3. DOMAIN n = DOMAIN g /\ \A p \in DOMAIN g : n[p] = IF p = PageOf(a) THEN [g[p] EXCEPT ![IndexOf(a)] = Signed(d)] ELSE g[p]
    BY <1>1 DEF g, SetWord
  <1> HIDE DEF n
  <1>4. MemoryOK(n)
    <2>1. DOMAIN n \subseteq Nat
      BY <1>1, <1>3 DEF MemoryOK
    <2>2. ASSUME NEW p \in DOMAIN n PROVE n[p] \in [0..(PageBytes \div 4 - 1) -> Words]
      <3>1. g[p] \in [0..(PageBytes \div 4 - 1) -> Words]
        BY <1>1, <1>3, <2>2 DEF MemoryOK
      <3> QED BY <3>1, <1>2, <1>3, <2>2
    <2> QED BY <2>1, <2>2 DEF MemoryOK
  <1>5. ASSUME NEW b \in Int
        PROVE  Word(n, b) = IF Unsigned(b) \div 4 = Unsigned(a) \div 4 THEN Unsigned(d) ELSE Word(m, b)
    <2>1. Word(n, b) = IF PageOf(b) \in DOMAIN n THEN Unsigned(n[PageOf(b)][IndexOf(b)]) ELSE 0
      BY <1>4, WordIs
    <2>2. Word(g, b) = IF PageOf(b) \in DOMAIN g THEN Unsigned(g[PageOf(b)][IndexOf(b)]) ELSE 0
      BY <1>1, WordIs
    <2>3. Word(g, b) = Word(m, b)
      BY WordKept DEF g
    <2>4. CASE Unsigned(b) \div 4 = Unsigned(a) \div 4
      <3>1. PageOf(a) = PageOf(b) /\ IndexOf(a) = IndexOf(b)
        BY <2>4, SamePlace
      <3>2. g[PageOf(a)] \in [0..(PageBytes \div 4 - 1) -> Words]
        BY <1>1 DEF MemoryOK
      <3>3. n[PageOf(b)][IndexOf(b)] = Signed(d)
        BY <3>1, <3>2, <1>1, <1>2, <1>3
      <3>4. Unsigned(Signed(d)) = Unsigned(d)
        BY SignedIs
      <3> QED BY <2>1, <2>4, <3>1, <3>3, <3>4, <1>1, <1>3
    <2>5. CASE Unsigned(b) \div 4 # Unsigned(a) \div 4
      <3>1. ~(PageOf(a) = PageOf(b) /\ IndexOf(a) = IndexOf(b))
        BY <2>5, SamePlace
      <3>2. PageOf(b) \in DOMAIN n => n[PageOf(b)][IndexOf(b)] = g[PageOf(b)][IndexOf(b)]
        <4>1. PageOf(a) \in DOMAIN g /\ g[PageOf(a)] \in [0..(PageBytes \div 4 - 1) -> Words]
          BY <1>1 DEF MemoryOK
        <4>2. IndexOf(b) \in 0..(PageBytes \div 4 - 1)
          BY PlaceOf
        <4> QED BY <3>1, <4>1, <4>2, <1>2, <1>3
      <3> QED BY <2>1, <2>2, <2>3, <2>5, <3>2, <1>3
    <2> QED BY <2>4, <2>5
  <1> QED BY <1>4, <1>5 DEF n

LEMMA Places4 == \A k \in 0..3 : k = 0 \/ k = 1 \/ k = 2 \/ k = 3
OBVIOUS

\* A word is the number of its bytes.
LEMMA Digits ==
  ASSUME NEW w \in 0..(WordValues - 1)
  PROVE  /\ \A k \in 0..3 : Digit(w, k) \in 0..(ByteValues - 1)
         /\ w = Number(ByteValues, Digit(w, 0), Digit(w, 1), Digit(w, 2), Digit(w, 3))
         /\ w % HalfValues = Digit(w, 0) + ByteValues * Digit(w, 1)
         /\ w \div HalfValues = Digit(w, 2) + ByteValues * Digit(w, 3)
  <1>1. PICK B \in Nat \ {0} : B = ByteValues
    BY Numbers
  <1>2. w \in 0..(B * B * (B * B) - 1) /\ w \in Int /\ HalfValues = B * B /\ WordValues = B * B * (B * B)
    BY <1>1, Widths
  <1>3. Digit(w, 0) = w % B /\ Digit(w, 1) = (w \div B) % B /\ Digit(w, 2) = (w \div (B * B)) % B
          /\ Digit(w, 3) = (w \div (B * B * B)) % B
    <2>1. w \div 1 = w
      BY <1>2
    <2> QED BY <2>1, <1>1, Weights DEF Digit
  <1>4. /\ w % B \in 0..(B - 1) /\ (w \div B) % B \in 0..(B - 1)
        /\ (w \div (B * B)) % B \in 0..(B - 1) /\ (w \div (B * B * B)) % B \in 0..(B - 1)
        /\ w = Number(B, w % B, (w \div B) % B, (w \div (B * B)) % B, (w \div (B * B * B)) % B)
    BY <1>2, BytesOfWord, Zenon
  <1>5. PICK c0 \in 0..(B - 1), c1 \in 0..(B - 1), c2 \in 0..(B - 1), c3 \in 0..(B - 1) :
          /\ c0 = Digit(w, 0) /\ c1 = Digit(w, 1) /\ c2 = Digit(w, 2) /\ c3 = Digit(w, 3)
          /\ w = Number(B, c0, c1, c2, c3)
    BY <1>3, <1>4, Zenon
  <1>6. w % HalfValues = c0 + B * c1 /\ w \div HalfValues = c2 + B * c3
    <2>1. c1 * B + c0 \in 0..(B * B - 1) /\ B * B \in Nat \ {0}
      BY TwoDigits
    <2>2. PICK C \in Nat \ {0}, t \in Nat : C = B * B /\ t = c0 + B * c1 /\ t \in 0..(C - 1)
      BY <2>1
    <2>3. PICK h \in Int : h = c2 + B * c3
      OBVIOUS
    <2>4. w = h * C + t
      <3>1. Number(B, c0, c1, c2, c3) = (c0 + B * c1) + (c2 + B * c3) * (B * B)
        BY NumberIs
      <3>2. w = t + h * C
        BY <3>1, <2>2, <2>3, <1>5
      <3>3. h * C \in Int
        OBVIOUS
      <3> QED BY <3>2, <3>3
    <2>5. (h * C + t) \div C = h /\ (h * C + t) % C = t
      <3>1. t \in 0..(C - 1)
        BY <2>2
      <3> QED BY <3>1, DividedOnce
    <2> QED BY <1>2, <2>2, <2>3, <2>4, <2>5
  <1> QED BY <1>1, <1>5, <1>6, Places4

\* The number of four bytes is a word with those bytes.
LEMMA FromDigits ==
  ASSUME NEW c0 \in 0..(ByteValues - 1), NEW c1 \in 0..(ByteValues - 1),
         NEW c2 \in 0..(ByteValues - 1), NEW c3 \in 0..(ByteValues - 1)
  PROVE  LET w == Number(ByteValues, c0, c1, c2, c3) IN
         /\ w \in 0..(WordValues - 1)
         /\ Digit(w, 0) = c0 /\ Digit(w, 1) = c1 /\ Digit(w, 2) = c2 /\ Digit(w, 3) = c3
  <1>1. PICK B \in Nat \ {0} : B = ByteValues
    BY Numbers
  <1>2. HalfValues = B * B /\ WordValues = B * B * (B * B)
    BY <1>1, Widths
  <1>3. PICK w : w = Number(B, c0, c1, c2, c3)
    OBVIOUS
  <1>4. /\ w \in 0..(B * B * (B * B) - 1)
        /\ w % B = c0 /\ (w \div B) % B = c1 /\ (w \div (B * B)) % B = c2 /\ (w \div (B * B * B)) % B = c3
    BY <1>1, <1>3, WordOfBytes
  <1>5. w \div 1 = w
    <2>1. w \in Int
      BY <1>4, <1>2, Numbers
    <2> QED BY <2>1
  <1>6. Digit(w, 0) = w % B /\ Digit(w, 1) = (w \div B) % B /\ Digit(w, 2) = (w \div (B * B)) % B
          /\ Digit(w, 3) = (w \div (B * B * B)) % B
    BY <1>5, <1>1, Weights DEF Digit
  <1> QED BY <1>1, <1>2, <1>3, <1>4, <1>6

\* A word with another byte in place k, and with other bytes in a half of it.
LEMMA WithByte ==
  ASSUME NEW w \in 0..(WordValues - 1), NEW k \in 0..3, NEW c \in 0..(ByteValues - 1)
  PROVE  /\ w + (c - Digit(w, k)) * ByteValues^k \in 0..(WordValues - 1)
         /\ \A j \in 0..3 : Digit(w + (c - Digit(w, k)) * ByteValues^k, j) = IF j = k THEN c ELSE Digit(w, j)
  <1>1. ByteValues \in Nat \ {0}
    BY Numbers
  <1> DEFINE v == w + (c - Digit(w, k)) * ByteValues^k
  <1>2. PICK c0 \in 0..(ByteValues - 1), c1 \in 0..(ByteValues - 1), c2 \in 0..(ByteValues - 1), c3 \in 0..(ByteValues - 1) :
          /\ c0 = Digit(w, 0) /\ c1 = Digit(w, 1) /\ c2 = Digit(w, 2) /\ c3 = Digit(w, 3)
          /\ w = Number(ByteValues, c0, c1, c2, c3)
    BY Digits
  <1>3. c0 \in Int /\ c1 \in Int /\ c2 \in Int /\ c3 \in Int /\ c \in Int /\ ByteValues \in Int
    BY <1>1
  <1>4. CASE k = 0
    <2>1. v = w + (c - c0) * 1
      BY <1>4, <1>2, Weights
    <2>2. v = Number(ByteValues, c, c1, c2, c3)
      BY <2>1, <1>2, <1>3, OtherDigit0
    <2> QED BY <2>2, <1>2, <1>4, FromDigits, Places4
  <1>5. CASE k = 1
    <2>1. v = w + (c - c1) * ByteValues
      BY <1>5, <1>2, Weights
    <2>2. v = Number(ByteValues, c0, c, c2, c3)
      <3>1. Number(ByteValues, c0, c1, c2, c3) + (c - c1) * ByteValues = Number(ByteValues, c0, c, c2, c3)
        BY <1>3, OtherDigit1
      <3> QED BY <2>1, <3>1, <1>2
    <2> QED BY <2>2, <1>2, <1>5, FromDigits, Places4
  <1>6. CASE k = 2
    <2>1. v = w + (c - c2) * (ByteValues * ByteValues)
      BY <1>6, <1>2, Weights
    <2>2. v = Number(ByteValues, c0, c1, c, c3)
      <3>1. Number(ByteValues, c0, c1, c2, c3) + (c - c2) * (ByteValues * ByteValues) = Number(ByteValues, c0, c1, c, c3)
        BY <1>3, OtherDigit2
      <3> QED BY <2>1, <3>1, <1>2
    <2> QED BY <2>2, <1>2, <1>6, FromDigits, Places4
  <1>7. CASE k = 3
    <2>1. v = w + (c - c3) * (ByteValues * ByteValues * ByteValues)
      BY <1>7, <1>2, Weights
    <2>2. v = Number(ByteValues, c0, c1, c2, c)
      <3>1. Number(ByteValues, c0, c1, c2, c3) + (c - c3) * (ByteValues * ByteValues * ByteValues) = Number(ByteValues, c0, c1, c2, c)
        BY <1>3, OtherDigit3
      <3> QED BY <2>1, <3>1, <1>2
    <2> QED BY <2>2, <1>2, <1>7, FromDigits, Places4
  <1> QED BY <1>4, <1>5, <1>6, <1>7, Places4

LEMMA Halved ==
  ASSUME NEW h \in 0..(HalfValues - 1)
  PROVE  /\ h % ByteValues \in 0..(ByteValues - 1) /\ h \div ByteValues \in 0..(ByteValues - 1)
         /\ h = (h % ByteValues) + ByteValues * (h \div ByteValues)
         /\ (h \div ByteValues) % ByteValues = h \div ByteValues
  <1>1. PICK B \in Nat \ {0} : B = ByteValues /\ HalfValues = B * B
    BY Numbers, Widths
  <1>2. h \in Int
    BY <1>1
  <1>3. PICK q \in Int, r \in 0..(B - 1) : q = h \div B /\ r = h % B /\ h = q * B + r
    BY <1>2, Divided
  <1>4. q * B + r < B * B /\ q * B + r >= 0
    BY <1>1, <1>3
  <1>5. q < B
    <2> SUFFICES ASSUME q >= B PROVE FALSE
      OBVIOUS
    <2>1. q * B >= B * B
      OBVIOUS
    <2> QED BY <2>1, <1>4
  <1>6. q >= 0
    <2> SUFFICES ASSUME q <= -1 PROVE FALSE
      OBVIOUS
    <2>1. q * B <= (-1) * B
      OBVIOUS
    <2> QED BY <2>1, <1>4
  <1>7. q % B = q /\ h = r + B * q
    BY <1>3, <1>5, <1>6
  <1> QED BY <1>1, <1>3, <1>5, <1>6, <1>7

LEMMA OtherHalf ==
  ASSUME NEW B \in Int, NEW c0 \in Int, NEW c1 \in Int, NEW c2 \in Int, NEW c3 \in Int, NEW n0 \in Int, NEW n1 \in Int
  PROVE  /\ (Number(B, c0, c1, c2, c3) - (c0 + B * c1)) + (n0 + B * n1) = Number(B, n0, n1, c2, c3)
         /\ (c0 + B * c1) + (n0 + B * n1) * (B * B) = Number(B, c0, c1, n0, n1)
  <1>1. (c2 + B * c3) * (B * B) \in Int
    OBVIOUS
  <1>2. Number(B, c0, c1, c2, c3) = (c0 + B * c1) + (c2 + B * c3) * (B * B)
          /\ Number(B, n0, n1, c2, c3) = (n0 + B * n1) + (c2 + B * c3) * (B * B)
          /\ Number(B, c0, c1, n0, n1) = (c0 + B * c1) + (n0 + B * n1) * (B * B)
    BY NumberIs
  <1> QED BY <1>1, <1>2

LEMMA WithHalf ==
  ASSUME NEW w \in 0..(WordValues - 1), NEW n \in 0..(HalfValues - 1)
  PROVE  /\ (w - (w % HalfValues)) + n \in 0..(WordValues - 1)
         /\ \A j \in 0..3 : Digit((w - (w % HalfValues)) + n, j) =
              IF j = 0 THEN n % ByteValues ELSE IF j = 1 THEN n \div ByteValues ELSE Digit(w, j)
         /\ (w % HalfValues) + n * HalfValues \in 0..(WordValues - 1)
         /\ \A j \in 0..3 : Digit((w % HalfValues) + n * HalfValues, j) =
              IF j = 2 THEN n % ByteValues ELSE IF j = 3 THEN n \div ByteValues ELSE Digit(w, j)
  <1>1. ByteValues \in Nat \ {0} /\ HalfValues = ByteValues * ByteValues
    BY Numbers, Widths
  <1>2. PICK c0 \in 0..(ByteValues - 1), c1 \in 0..(ByteValues - 1), c2 \in 0..(ByteValues - 1), c3 \in 0..(ByteValues - 1) :
          /\ c0 = Digit(w, 0) /\ c1 = Digit(w, 1) /\ c2 = Digit(w, 2) /\ c3 = Digit(w, 3)
          /\ w = Number(ByteValues, c0, c1, c2, c3) /\ w % HalfValues = c0 + ByteValues * c1
    BY Digits
  <1>3. PICK n0 \in 0..(ByteValues - 1), n1 \in 0..(ByteValues - 1) :
          n0 = n % ByteValues /\ n1 = n \div ByteValues /\ n = n0 + ByteValues * n1
    BY Halved
  <1>4. /\ c0 \in Int /\ c1 \in Int /\ c2 \in Int /\ c3 \in Int /\ n0 \in Int /\ n1 \in Int /\ ByteValues \in Int
    BY <1>1
  <1>5. (w - (w % HalfValues)) + n = Number(ByteValues, n0, n1, c2, c3)
    <2>1. PICK l, h, m : l = c0 + ByteValues * c1 /\ h = n0 + ByteValues * n1 /\ m = Number(ByteValues, c0, c1, c2, c3)
      OBVIOUS
    <2>2. w % HalfValues = l /\ n = h /\ w = m
      BY <2>1, <1>2, <1>3, Zenon
    <2>3. (m - l) + h = Number(ByteValues, n0, n1, c2, c3)
      BY <2>1, <1>4, OtherHalf
    <2> QED BY <2>2, <2>3
  <1>6. (w % HalfValues) + n * HalfValues = Number(ByteValues, c0, c1, n0, n1)
    <2>1. (w % HalfValues) + n * HalfValues = (c0 + ByteValues * c1) + (n0 + ByteValues * n1) * (ByteValues * ByteValues)
      BY <1>1, <1>2, <1>3
    <2>2. (c0 + ByteValues * c1) + (n0 + ByteValues * n1) * (ByteValues * ByteValues) = Number(ByteValues, c0, c1, n0, n1)
      BY <1>4, OtherHalf
    <2> QED BY <2>1, <2>2
  <1>7. \A j \in 0..3 : Digit((w - (w % HalfValues)) + n, j) =
                IF j = 0 THEN n % ByteValues ELSE IF j = 1 THEN n \div ByteValues ELSE Digit(w, j)
    <2>1. PICK v : v = (w - (w % HalfValues)) + n
      OBVIOUS
    <2>2. Digit(v, 0) = n0 /\ Digit(v, 1) = n1 /\ Digit(v, 2) = c2 /\ Digit(v, 3) = c3
      BY <2>1, <1>5, FromDigits
    <2> QED BY <2>1, <2>2, <1>2, <1>3, Places4
  <1>8. \A j \in 0..3 : Digit((w % HalfValues) + n * HalfValues, j) =
                IF j = 2 THEN n % ByteValues ELSE IF j = 3 THEN n \div ByteValues ELSE Digit(w, j)
    <2>1. PICK v : v = (w % HalfValues) + n * HalfValues
      OBVIOUS
    <2>2. Digit(v, 0) = c0 /\ Digit(v, 1) = c1 /\ Digit(v, 2) = n0 /\ Digit(v, 3) = n1
      BY <2>1, <1>6, FromDigits
    <2> QED BY <2>1, <2>2, <1>2, <1>3, Places4
  <1>9. (w - (w % HalfValues)) + n \in 0..(WordValues - 1) /\ (w % HalfValues) + n * HalfValues \in 0..(WordValues - 1)
    BY <1>5, <1>6, FromDigits
  <1> QED BY <1>7, <1>8, <1>9

LEMMA ByteIs ==
  ASSUME NEW m, MemoryOK(m), NEW a \in Int
  PROVE  /\ a % 4 \in 0..3 /\ memory_rd_b(m, a) = Digit(Word(m, a), a % 4)
         /\ memory_rd_b(m, a) \in 0..(ByteValues - 1)
         /\ Word(m, a) = Word(m, Unsigned(a)) /\ memory_rd_b(m, a) = memory_rd_b(m, Unsigned(a))
  <1>1. a % 4 \in 0..3
    OBVIOUS
  <1>2. memory_rd_b(m, a) = Digit(Word(m, a), a % 4)
    BY DEF memory_rd_b, Digit
  <1>3. memory_rd_b(m, a) \in 0..(ByteValues - 1)
    BY <1>1, <1>2, WordIs, Digits
  <1>4. Unsigned(a) \in 0..(WordValues - 1) /\ Unsigned(Unsigned(a)) = Unsigned(a) /\ Unsigned(a) % 4 = a % 4
          /\ Unsigned(a) \in Int
    BY UnsignedIs
  <1>5. PageOf(Unsigned(a)) = PageOf(a) /\ IndexOf(Unsigned(a)) = IndexOf(a)
    BY <1>4 DEF PageOf, IndexOf
  <1>6. Word(m, a) = Word(m, Unsigned(a))
    BY <1>5, <1>4, WordIs
  <1>7. memory_rd_b(m, a) = memory_rd_b(m, Unsigned(a))
    BY <1>6, <1>4 DEF memory_rd_b
  <1> QED BY <1>1, <1>2, <1>3, <1>6, <1>7

\* An address is its word and its place in it.
LEMMA AddressIs ==
  ASSUME NEW q \in Int, NEW a \in Int
  PROVE  /\ q \div 4 \in Int /\ q = 4 * (q \div 4) + (q % 4) /\ q % 4 \in 0..3
         /\ q = a <=> q \div 4 = a \div 4 /\ q % 4 = a % 4
OBVIOUS

\* memory_wr_b sets one byte,
LEMMA ByteWritten ==
  ASSUME NEW m, MemoryOK(m), NEW a \in Int, NEW d \in Int
  PROVE  /\ MemoryOK(memory_wr_b(m, a, d))
         /\ \A q \in 0..(WordValues - 1) :
              memory_rd_b(memory_wr_b(m, a, d), q) = IF q = Unsigned(a) THEN d % ByteValues ELSE memory_rd_b(m, q)
  <1> DEFINE w == Word(m, a)
             k == a % 4
             c == d % ByteValues
             v == w + (c - Digit(w, k)) * ByteValues^k
  <1>1. w \in 0..(WordValues - 1) /\ k \in 0..3 /\ c \in 0..(ByteValues - 1)
    BY WordIs, Numbers
  <1>2. memory_wr_b(m, a, d) = SetWord(m, a, v)
    BY DEF memory_wr_b, Digit
  <1>3. k = Unsigned(a) % 4
    BY UnsignedAligned
  <1> HIDE DEF w, k, c
  <1>4. v \in 0..(WordValues - 1) /\ \A j \in 0..3 : Digit(v, j) = IF j = k THEN c ELSE Digit(w, j)
    BY <1>1, WithByte
  <1> HIDE DEF v
  <1>5. v \in Int /\ Unsigned(v) = v
    BY <1>4, UnsignedWord, Numbers
  <1> DEFINE n == SetWord(m, a, v)
  <1>6. MemoryOK(n) /\ \A b \in Int : Word(n, b) = IF Unsigned(b) \div 4 = Unsigned(a) \div 4 THEN v ELSE Word(m, b)
    BY <1>5, WordSet
  <1> HIDE DEF n
  <1>7. ASSUME NEW q \in 0..(WordValues - 1)
        PROVE  memory_rd_b(n, q) = IF q = Unsigned(a) THEN c ELSE memory_rd_b(m, q)
    <2>1. q \in Int /\ Unsigned(q) = q /\ Unsigned(a) \in Int
      BY UnsignedWord, SignedIs, Numbers
    <2>2. memory_rd_b(n, q) = Digit(Word(n, q), q % 4) /\ memory_rd_b(m, q) = Digit(Word(m, q), q % 4) /\ q % 4 \in 0..3
      BY <1>6, <2>1, ByteIs
    <2>3. CASE q \div 4 = Unsigned(a) \div 4
      <3>1. Word(n, q) = v
        BY <1>6, <2>1, <2>3
      <3>2. Word(m, q) = w
        <4>1. PageOf(q) = PageOf(a) /\ IndexOf(q) = IndexOf(a)
          BY <2>1, <2>3, SamePlace
        <4> QED BY <4>1, <2>1, WordIs DEF w
      <3>3. q = Unsigned(a) <=> q % 4 = k
        BY <2>1, <2>3, <1>3, AddressIs
      <3> QED BY <3>1, <3>2, <3>3, <2>2, <1>4
    <2>4. CASE q \div 4 # Unsigned(a) \div 4
      BY <2>1, <2>2, <2>4, <1>6
    <2> QED BY <2>3, <2>4
  <1> QED BY <1>2, <1>6, <1>7 DEF n, c

\* memory_wr_h two,
HalfStored(m, a, d, q) ==
  IF q = Unsigned(a) THEN d % ByteValues
  ELSE IF q = Unsigned(a) + 1 THEN (d \div ByteValues) % ByteValues
  ELSE memory_rd_b(m, q)

LEMMA HalfWritten ==
  ASSUME NEW m, MemoryOK(m), NEW a \in Int, a % 2 = 0, NEW d \in Int
  PROVE  /\ MemoryOK(memory_wr_h(m, a, d)) /\ Unsigned(a) + 1 \in 0..(WordValues - 1)
         /\ \A q \in 0..(WordValues - 1) :
              memory_rd_b(memory_wr_h(m, a, d), q) = HalfStored(m, a, d, q)
  <1> DEFINE w == Word(m, a)
             e == d % HalfValues
             v == IF a % 4 < 2 THEN (w - (w % HalfValues)) + e ELSE (w % HalfValues) + e * HalfValues
  <1>1. w \in 0..(WordValues - 1) /\ e \in 0..(HalfValues - 1)
    BY WordIs, Numbers
  <1>2. memory_wr_h(m, a, d) = SetWord(m, a, v)
    BY DEF memory_wr_h
  <1>3. a % 4 = Unsigned(a) % 4 /\ (a % 4 = 0 \/ a % 4 = 2) /\ Unsigned(a) \in 0..(WordValues - 1)
    <2>1. a % 4 = 0 \/ a % 4 = 2
      OBVIOUS
    <2> QED BY <2>1, UnsignedIs
  <1>4. e % ByteValues = d % ByteValues /\ e \div ByteValues = (d \div ByteValues) % ByteValues
    <2>1. ByteValues \in Nat \ {0} /\ HalfValues = ByteValues * ByteValues
      BY Numbers, Widths
    <2> QED BY <2>1, DividedTwice
  <1> HIDE DEF w, e
  <1>5. v \in 0..(WordValues - 1)
          /\ \A j \in 0..3 : Digit(v, j) = IF j = a % 4 THEN e % ByteValues
                                           ELSE IF j = (a % 4) + 1 THEN e \div ByteValues ELSE Digit(w, j)
    <2>1. CASE a % 4 = 0
      <3>1. v = (w - (w % HalfValues)) + e
        BY <2>1
      <3>2. (a % 4) + 1 = 1
        BY <2>1
      <3> HIDE DEF v
      <3> QED BY <3>1, <3>2, <2>1, <1>1, WithHalf
    <2>2. CASE a % 4 = 2
      <3>1. v = (w % HalfValues) + e * HalfValues
        BY <2>2
      <3>2. (a % 4) + 1 = 3
        BY <2>2
      <3> HIDE DEF v
      <3> QED BY <3>1, <3>2, <2>2, <1>1, WithHalf
    <2> QED BY <2>1, <2>2, <1>3
  <1> HIDE DEF v
  <1>6. v \in Int /\ Unsigned(v) = v
    BY <1>5, UnsignedWord, Numbers
  <1> DEFINE n == SetWord(m, a, v)
  <1>7. MemoryOK(n) /\ \A b \in Int : Word(n, b) = IF Unsigned(b) \div 4 = Unsigned(a) \div 4 THEN v ELSE Word(m, b)
    BY <1>6, WordSet
  <1> HIDE DEF n
  <1>8. PICK u \in 0..(WordValues - 1) : u = Unsigned(a) /\ u % 4 = a % 4 /\ u \in Int
    BY <1>3, Numbers
  <1>9. (u + 1) \div 4 = u \div 4 /\ (u + 1) % 4 = (u % 4) + 1 /\ u + 1 \in 0..(WordValues - 1)
    <2>1. (u + 1) \div 4 = u \div 4 /\ (u + 1) % 4 = (u % 4) + 1
      BY <1>3, <1>8
    <2>2. u # WordValues - 1
      BY <1>3, <1>8, Numbers
    <2> QED BY <2>1, <2>2, <1>8, Numbers
  <1>10. ASSUME NEW q \in 0..(WordValues - 1)
         PROVE  memory_rd_b(n, q) = IF q = u THEN e % ByteValues ELSE IF q = u + 1 THEN e \div ByteValues
                                    ELSE memory_rd_b(m, q)
    <2>1. q \in Int /\ Unsigned(q) = q
      BY UnsignedWord, Numbers
    <2>2. memory_rd_b(n, q) = Digit(Word(n, q), q % 4) /\ memory_rd_b(m, q) = Digit(Word(m, q), q % 4) /\ q % 4 \in 0..3
      BY <1>7, <2>1, ByteIs
    <2>3. CASE q \div 4 = u \div 4
      <3>1. Word(n, q) = v
        BY <1>7, <1>8, <2>1, <2>3
      <3>2. Word(m, q) = w
        <4>1. PageOf(q) = PageOf(a) /\ IndexOf(q) = IndexOf(a)
          BY <1>8, <2>1, <2>3, SamePlace
        <4> QED BY <4>1, <2>1, WordIs DEF w
      <3>3. (q = u <=> q % 4 = a % 4) /\ (q = u + 1 <=> q % 4 = (a % 4) + 1)
        BY <2>1, <2>3, <1>8, <1>9, AddressIs
      <3> QED BY <3>1, <3>2, <3>3, <2>2, <1>5
    <2>4. CASE q \div 4 # u \div 4
      <3>1. q # u /\ q # u + 1
        BY <2>4, <1>9
      <3> QED BY <3>1, <2>1, <2>2, <2>4, <1>7, <1>8
    <2> QED BY <2>3, <2>4
  <1> QED BY <1>2, <1>4, <1>7, <1>8, <1>9, <1>10 DEF n, HalfStored

\* memory_wr_w four.
WordStored(m, a, d, q) ==
  IF q \in Unsigned(a)..(Unsigned(a) + 3) THEN Digit(Unsigned(d), q - Unsigned(a)) ELSE memory_rd_b(m, q)

LEMMA WordWritten ==
  ASSUME NEW m, MemoryOK(m), NEW a \in Int, a % 4 = 0, NEW d \in Int
  PROVE  /\ MemoryOK(memory_wr_w(m, a, d)) /\ Unsigned(a) + 3 \in 0..(WordValues - 1)
         /\ \A q \in 0..(WordValues - 1) :
              memory_rd_b(memory_wr_w(m, a, d), q) = WordStored(m, a, d, q)
  <1>1. PICK u \in 0..(WordValues - 1) : u = Unsigned(a) /\ u % 4 = 0 /\ u \in Int
    BY UnsignedIs
  <1>2. u + 3 \in 0..(WordValues - 1)
    BY <1>1, Numbers
  <1> DEFINE n == SetWord(m, a, d)
  <1>3. MemoryOK(n) /\ \A b \in Int : Word(n, b) = IF Unsigned(b) \div 4 = u \div 4 THEN Unsigned(d) ELSE Word(m, b)
    BY <1>1, WordSet
  <1> HIDE DEF n
  <1>4. ASSUME NEW q \in 0..(WordValues - 1)
        PROVE  memory_rd_b(n, q) = IF q \in u..(u + 3) THEN Digit(Unsigned(d), q - u) ELSE memory_rd_b(m, q)
    <2>1. q \in Int /\ Unsigned(q) = q
      BY UnsignedWord, Numbers
    <2>2. memory_rd_b(n, q) = Digit(Word(n, q), q % 4) /\ memory_rd_b(m, q) = Digit(Word(m, q), q % 4)
      BY <1>3, <2>1, ByteIs
    <2>3. q \in u..(u + 3) <=> q \div 4 = u \div 4
      BY <1>1, <2>1
    <2>4. q \in u..(u + 3) => q % 4 = q - u
      BY <1>1, <2>1
    <2> QED BY <2>1, <2>2, <2>3, <2>4, <1>3
  <1> QED BY <1>1, <1>2, <1>3, <1>4 DEF n, memory_wr_w, WordStored

\* The other way round: what memory_rd_w and memory_rd_h read is made of the bytes.
LEMMA WordRead ==
  ASSUME NEW m, MemoryOK(m), NEW u \in 0..(WordValues - 1), u % 4 = 0
  PROVE  /\ u \in Int /\ u + 3 \in 0..(WordValues - 1)
         /\ Word(m, u) = (memory_rd_b(m, u) + ByteValues * memory_rd_b(m, u + 1))
                           + (memory_rd_b(m, u + 2) + ByteValues * memory_rd_b(m, u + 3)) * (ByteValues * ByteValues)
         /\ \A k \in 0..3 : memory_rd_b(m, u + k) = Digit(Word(m, u), k)
  <1>1. u \in Int /\ u + 3 \in 0..(WordValues - 1)
    BY Numbers
  <1>2. ASSUME NEW k \in 0..3 PROVE memory_rd_b(m, u + k) = Digit(Word(m, u), k)
    <2>1. (u + k) \div 4 = u \div 4 /\ (u + k) % 4 = k /\ u + k \in 0..(WordValues - 1) /\ u + k \in Int
      BY <1>1, Numbers
    <2>2. Unsigned(u + k) = u + k /\ Unsigned(u) = u
      BY <2>1, UnsignedWord
    <2>3. PageOf(u + k) = PageOf(u) /\ IndexOf(u + k) = IndexOf(u)
      BY <1>1, <2>1, <2>2, SamePlace
    <2>4. Word(m, u + k) = Word(m, u)
      BY <2>3, <2>1, <1>1, WordIs
    <2> QED BY <2>4, <2>1, ByteIs
  <1>3. PICK w \in 0..(WordValues - 1) : w = Word(m, u)
    BY <1>1, WordIs
  <1>4. w = Number(ByteValues, Digit(w, 0), Digit(w, 1), Digit(w, 2), Digit(w, 3))
    BY Digits
  <1>5. Digit(w, 0) \in Int /\ Digit(w, 1) \in Int /\ Digit(w, 2) \in Int /\ Digit(w, 3) \in Int /\ ByteValues \in Int
    BY Digits, Numbers
  <1>6. w = (Digit(w, 0) + ByteValues * Digit(w, 1)) + (Digit(w, 2) + ByteValues * Digit(w, 3)) * (ByteValues * ByteValues)
    <2>1. PICK c0 \in Int, c1 \in Int, c2 \in Int, c3 \in Int, B \in Int :
            /\ c0 = Digit(w, 0) /\ c1 = Digit(w, 1) /\ c2 = Digit(w, 2) /\ c3 = Digit(w, 3) /\ B = ByteValues
            /\ w = Number(B, c0, c1, c2, c3)
      BY <1>4, <1>5
    <2>2. Number(B, c0, c1, c2, c3) = (c0 + B * c1) + (c2 + B * c3) * (B * B)
      BY NumberIs, SMTT(30)
    <2> QED BY <2>1, <2>2
  <1>7. memory_rd_b(m, u) = Digit(w, 0) /\ memory_rd_b(m, u + 1) = Digit(w, 1) /\ memory_rd_b(m, u + 2) = Digit(w, 2)
          /\ memory_rd_b(m, u + 3) = Digit(w, 3)
    <2>1. u + 0 = u
      BY <1>1
    <2> QED BY <2>1, <1>2, <1>3
  <1> QED BY <1>1, <1>2, <1>3, <1>6, <1>7

LEMMA HalfRead ==
  ASSUME NEW m, MemoryOK(m), NEW u \in 0..(WordValues - 1), u % 2 = 0
  PROVE  /\ u \in Int /\ u + 1 \in 0..(WordValues - 1)
         /\ memory_rd_h(m, u) = memory_rd_b(m, u) + ByteValues * memory_rd_b(m, u + 1)
  <1>1. u \in Int /\ u + 1 \in 0..(WordValues - 1) /\ u + 1 \in Int
    BY Numbers
  <1>2. (u % 4 = 0 \/ u % 4 = 2) /\ (u + 1) \div 4 = u \div 4 /\ (u + 1) % 4 = (u % 4) + 1
    BY <1>1
  <1>3. Unsigned(u + 1) = u + 1 /\ Unsigned(u) = u
    BY <1>1, UnsignedWord
  <1>4. PageOf(u + 1) = PageOf(u) /\ IndexOf(u + 1) = IndexOf(u)
    BY <1>1, <1>2, <1>3, SamePlace
  <1>5. Word(m, u + 1) = Word(m, u)
    BY <1>4, <1>1, WordIs
  <1>6. memory_rd_b(m, u) = Digit(Word(m, u), u % 4) /\ memory_rd_b(m, u + 1) = Digit(Word(m, u), (u % 4) + 1)
    BY <1>1, <1>2, <1>5, ByteIs
  <1>7. PICK w \in 0..(WordValues - 1) : w = Word(m, u)
    BY <1>1, WordIs
  <1>8. w % HalfValues = Digit(w, 0) + ByteValues * Digit(w, 1) /\ w \div HalfValues = Digit(w, 2) + ByteValues * Digit(w, 3)
    BY Digits
  <1>9. CASE u % 4 = 0
    <2>1. (u % 4) + 1 = 1
      BY <1>9
    <2> QED BY <2>1, <1>9, <1>6, <1>7, <1>8, <1>1 DEF memory_rd_h
  <1>10. CASE u % 4 = 2
    <2>1. (u % 4) + 1 = 3
      BY <1>10
    <2> QED BY <2>1, <1>10, <1>6, <1>7, <1>8, <1>1 DEF memory_rd_h
  <1> QED BY <1>1, <1>2, <1>9, <1>10

\* Reading makes pages and changes no byte.
LEMMA BytesKept ==
  ASSUME NEW m, MemoryOK(m), NEW a \in Int, NEW q \in Int
  PROVE  memory_rd_b(get_page(m, a), q) = memory_rd_b(m, q)
BY WordKept DEF memory_rd_b

-----------------------------------------------------------------------------
(* The assembly table                                                       *)

InsnAddrs == 0..(WordValues \div 2 - 1)
Entries   == {NoEntry} \cup {Entry(addr, text) : addr \in InsnAddrs, text \in STRING}

Tables(size) == [0..(size - 1) -> Entries]
AllTables    == UNION {Tables(size) : size \in Nat \ {0}}

\* The entries that a table holds.
Held(t) == {t[i] : i \in {j \in DOMAIN t : t[j].valid}}

\* A table holds one entry of an address, where a lookup of it comes to.
GoodTable(t) ==
  /\ t \in AllTables
  /\ \A i, j \in DOMAIN t : t[i].valid /\ t[j].valid /\ t[i].addr = t[j].addr => i = j
  /\ \A i \in DOMAIN t : t[i].valid => \E k \in 0..(Probes - 1) : Probe(t, t[i].addr, k) = i

LEMMA EntryIs ==
  /\ NoEntry.valid = FALSE
  /\ \A addr, text : Entry(addr, text).valid = TRUE /\ Entry(addr, text).addr = addr /\ Entry(addr, text).text = text
  /\ \A e \in Entries : /\ e.valid \in BOOLEAN /\ (~e.valid => e = NoEntry)
                        /\ (e.valid => e.addr \in InsnAddrs /\ e.text \in STRING /\ e = Entry(e.addr, e.text))
  <1>1. NoEntry.valid = FALSE
    BY DEF NoEntry
  <1>2. ASSUME NEW addr, NEW text
        PROVE  Entry(addr, text).valid = TRUE /\ Entry(addr, text).addr = addr /\ Entry(addr, text).text = text
    BY DEF Entry
  <1>3. ASSUME NEW e \in Entries
        PROVE  /\ e.valid \in BOOLEAN /\ (~e.valid => e = NoEntry)
               /\ (e.valid => e.addr \in InsnAddrs /\ e.text \in STRING /\ e = Entry(e.addr, e.text))
    <2>1. CASE e = NoEntry
      BY <2>1, <1>1
    <2>2. ASSUME NEW addr \in InsnAddrs, NEW text \in STRING, e = Entry(addr, text)
          PROVE  e.valid = TRUE /\ e.addr \in InsnAddrs /\ e.text \in STRING /\ e = Entry(e.addr, e.text)
      <3>1. e.valid = TRUE /\ e.addr = addr /\ e.text = text
        BY <2>2, <1>2
      <3> QED BY <3>1, <2>2
    <2>3. e = NoEntry \/ \E addr \in InsnAddrs, text \in STRING : e = Entry(addr, text)
      BY DEF Entries
    <2>4. CASE \E addr \in InsnAddrs, text \in STRING : e = Entry(addr, text)
      <3>1. PICK addr \in InsnAddrs, text \in STRING : e = Entry(addr, text)
        BY <2>4
      <3>2. e.valid = TRUE /\ e.addr \in InsnAddrs /\ e.text \in STRING /\ e = Entry(e.addr, e.text)
        BY <3>1, <2>2
      <3> QED BY <3>2
    <2> QED BY <2>1, <2>3, <2>4
  <1> QED BY <1>1, <1>2, <1>3

LEMMA TableIs ==
  ASSUME NEW size \in Nat \ {0}, NEW t \in Tables(size)
  PROVE  /\ DOMAIN t = 0..(size - 1) /\ Size(t) = size /\ t # NoTable /\ t \in AllTables
         /\ \A addr \in Int : \A k \in Int : Probe(t, addr, k) = (addr + k) % size /\ Probe(t, addr, k) \in DOMAIN t
  <1>1. DOMAIN t = 0..(size - 1)
    BY DEF Tables
  <1>2. Cardinality(0..(size - 1)) = size
    BY FS_Interval
  <1>3. 0 \in DOMAIN t /\ DOMAIN NoTable = {}
    BY <1>1 DEF NoTable
  <1>4. Size(t) = size
    BY <1>1, <1>2 DEF Size
  <1>5. \A v \in Int : v % size \in 0..(size - 1)
    OBVIOUS
  <1> QED BY <1>1, <1>3, <1>4, <1>5 DEF AllTables, Probe

LEMMA TableHasSize ==
  ASSUME NEW t \in AllTables
  PROVE  Size(t) \in Nat \ {0} /\ t \in Tables(Size(t))
  <1>1. PICK size \in Nat \ {0} : t \in Tables(size)
    BY DEF AllTables
  <1> QED BY <1>1, TableIs

\* What First finds.
LEMMA FirstIs ==
  ASSUME NEW t, NEW addr, NEW wanted, NOT_FOUND \notin wanted
  PROVE  LET found == First(t, addr, wanted) IN
         /\ found # NOT_FOUND => found \in wanted /\ \E k \in 0..(Probes - 1) : Probe(t, addr, k) = found
         /\ \A k \in 0..(Probes - 1) : Probe(t, addr, k) \in wanted => found \in wanted
  <1> DEFINE hits == {k \in 0..(Probes - 1) : Probe(t, addr, k) \in wanted}
             least == CHOOSE k \in hits : \A h \in hits : k <= h
  <1>1. CASE hits = {}
    BY <1>1 DEF First
  <1>2. CASE hits # {}
    <2>1. hits \in SUBSET Nat
      BY TableAssumption
    <2>2. \E k \in hits : \A h \in hits : k <= h
      <3> HIDE DEF hits
      <3> QED BY <1>2, <2>1, LeastNumber
    <2>3. least \in hits
      <3> HIDE DEF hits
      <3> QED BY <2>2
    <2>4. First(t, addr, wanted) = Probe(t, addr, least)
      BY <1>2 DEF First
    <2> HIDE DEF least
    <2> QED BY <2>3, <2>4
  <1> QED BY <1>1, <1>2

LEMMA FindEntry ==
  ASSUME NEW t, GoodTable(t), NEW addr \in InsnAddrs
  PROVE  LET idx == assembly_find_entry(t, addr) IN
         /\ idx = NOT_FOUND => \A e \in Held(t) : e.addr # addr
         /\ idx # NOT_FOUND => idx \in DOMAIN t /\ t[idx].valid /\ t[idx].addr = addr /\ t[idx] \in Held(t)
  <1> DEFINE wanted == {i \in DOMAIN t : t[i].valid /\ t[i].addr = addr}
             idx == assembly_find_entry(t, addr)
  <1>1. t \in Tables(Size(t)) /\ Size(t) \in Nat \ {0}
    BY TableHasSize DEF GoodTable
  <1>2. DOMAIN t \subseteq Nat /\ NOT_FOUND \notin DOMAIN t
    BY <1>1, TableIs DEF NOT_FOUND
  <1>3. NOT_FOUND \notin wanted
    BY <1>2
  <1>4. idx = First(t, addr, wanted)
    BY DEF assembly_find_entry
  <1>5. ASSUME idx # NOT_FOUND
        PROVE  idx \in DOMAIN t /\ t[idx].valid /\ t[idx].addr = addr /\ t[idx] \in Held(t)
    <2>1. idx \in wanted
      <3> HIDE DEF wanted, idx
      <3> QED BY <1>3, <1>4, <1>5, FirstIs
    <2> HIDE DEF idx
    <2> QED BY <2>1 DEF Held
  <1>6. ASSUME NEW e \in Held(t), e.addr = addr
        PROVE  idx # NOT_FOUND
    <2>1. PICK i \in DOMAIN t : t[i].valid /\ e = t[i]
      BY DEF Held
    <2>2. PICK k \in 0..(Probes - 1) : Probe(t, addr, k) = i
      BY <1>6, <2>1 DEF GoodTable
    <2>3. i \in wanted
      BY <1>6, <2>1
    <2>4. idx \in wanted
      <3> HIDE DEF wanted, idx
      <3> QED BY <1>3, <1>4, <2>2, <2>3, FirstIs
    <2> QED BY <2>4, <1>3
  <1> QED BY <1>5, <1>6

\* What a lookup returns.
LEMMA GetIs ==
  ASSUME NEW t, GoodTable(t), NEW addr \in InsnAddrs
  PROVE  /\ \A e \in Held(t) : e.addr = addr => assembly_get(t, addr) = e.text
         /\ (\A e \in Held(t) : e.addr # addr) => assembly_get(t, addr) = ""
  <1> DEFINE idx == assembly_find_entry(t, addr)
  <1>1. ASSUME NEW e \in Held(t), e.addr = addr
        PROVE  assembly_get(t, addr) = e.text
    <2>1. idx # NOT_FOUND
      BY <1>1, FindEntry
    <2>2. idx \in DOMAIN t /\ t[idx].valid /\ t[idx].addr = addr
      BY <2>1, FindEntry
    <2>3. PICK i \in DOMAIN t : t[i].valid /\ e = t[i]
      BY DEF Held
    <2>4. i = idx
      <3> HIDE DEF idx
      <3> QED BY <1>1, <2>2, <2>3 DEF GoodTable
    <2> QED BY <2>1, <2>3, <2>4 DEF assembly_get
  <1>2. ASSUME \A e \in Held(t) : e.addr # addr
        PROVE  assembly_get(t, addr) = ""
    <2>1. idx = NOT_FOUND
      BY <1>2, FindEntry
    <2> QED BY <2>1 DEF assembly_get
  <1> QED BY <1>1, <1>2

LEMMA FindEmpty ==
  ASSUME NEW t, t \in AllTables, NEW addr
  PROVE  LET idx == assembly_find_empty(t, addr) IN
         /\ idx # NOT_FOUND => /\ idx \in DOMAIN t /\ ~t[idx].valid
                               /\ \E k \in 0..(Probes - 1) : Probe(t, addr, k) = idx
         /\ \A k \in 0..(Probes - 1) : Probe(t, addr, k) \in DOMAIN t /\ ~t[Probe(t, addr, k)].valid => idx # NOT_FOUND
  <1> DEFINE wanted == {i \in DOMAIN t : ~t[i].valid}
             idx == assembly_find_empty(t, addr)
  <1>1. t \in Tables(Size(t)) /\ Size(t) \in Nat \ {0}
    BY TableHasSize
  <1>2. DOMAIN t \subseteq Nat /\ NOT_FOUND \notin DOMAIN t
    BY <1>1, TableIs DEF NOT_FOUND
  <1>3. NOT_FOUND \notin wanted
    BY <1>2
  <1>4. idx = First(t, addr, wanted)
    BY DEF assembly_find_empty
  <1> HIDE DEF wanted, idx
  <1>5. idx # NOT_FOUND => idx \in wanted /\ \E k \in 0..(Probes - 1) : Probe(t, addr, k) = idx
    BY <1>3, <1>4, FirstIs
  <1>6. \A k \in 0..(Probes - 1) : Probe(t, addr, k) \in wanted => idx # NOT_FOUND
    BY <1>3, <1>4, FirstIs
  <1> QED BY <1>5, <1>6 DEF wanted, idx

\* An entry of a new address in an empty place that a lookup of it comes to,
LEMMA PutNew ==
  ASSUME NEW t, GoodTable(t), NEW e \in Entries, e.valid, \A h \in Held(t) : h.addr # e.addr,
         NEW idx \in DOMAIN t, ~t[idx].valid, \E k \in 0..(Probes - 1) : Probe(t, e.addr, k) = idx,
         NEW n, n = [t EXCEPT ![idx] = e]
  PROVE  GoodTable(n) /\ Held(n) = Held(t) \cup {e} /\ Size(n) = Size(t) /\ DOMAIN n = DOMAIN t
  <1>1. Size(t) \in Nat \ {0} /\ t \in Tables(Size(t))
    BY TableHasSize DEF GoodTable
  <1>2. DOMAIN n = DOMAIN t /\ n[idx] = e /\ \A i \in DOMAIN t \ {idx} : n[i] = t[i]
    BY <1>1 DEF Tables
  <1>3. n \in Tables(Size(t))
    BY <1>1 DEF Tables
  <1>4. n \in AllTables /\ Size(n) = Size(t)
    BY <1>1, <1>3, TableIs
  <1>5. Held(n) = Held(t) \cup {e}
    BY <1>2 DEF Held
  <1>6. \A addr, k : Probe(n, addr, k) = Probe(t, addr, k)
    BY <1>4 DEF Probe
  <1>7. ASSUME NEW i \in DOMAIN n, n[i].valid
        PROVE  \E k \in 0..(Probes - 1) : Probe(n, n[i].addr, k) = i
    <2>1. CASE i = idx
      BY <2>1, <1>2, <1>6
    <2>2. CASE i # idx
      <3>1. i \in DOMAIN t /\ t[i].valid /\ n[i] = t[i]
        BY <2>2, <1>2, <1>7
      <3>2. PICK k \in 0..(Probes - 1) : Probe(t, t[i].addr, k) = i
        BY <3>1 DEF GoodTable
      <3> QED BY <3>1, <3>2, <1>6
    <2> QED BY <2>1, <2>2
  <1>8. \A i \in DOMAIN t : t[i].valid => t[i].addr # e.addr
    BY DEF Held
  <1>9. \A i, j \in DOMAIN n : n[i].valid /\ n[j].valid /\ n[i].addr = n[j].addr => i = j
    BY <1>2, <1>8 DEF GoodTable
  <1> QED BY <1>2, <1>4, <1>5, <1>7, <1>9 DEF GoodTable

\* and another text in the place of an address.
LEMMA PutOld ==
  ASSUME NEW t, GoodTable(t), NEW addr \in InsnAddrs, NEW text \in STRING,
         NEW idx \in DOMAIN t, t[idx].valid, t[idx].addr = addr, NEW n, n = Put(t, idx, addr, text)
  PROVE  GoodTable(n) /\ Held(n) = {h \in Held(t) : h.addr # addr} \cup {Entry(addr, text)}
  <1>1. Size(t) \in Nat \ {0} /\ t \in Tables(Size(t))
    BY TableHasSize DEF GoodTable
  <1>2. PICK e \in Entries : e = Entry(addr, text) /\ e.valid /\ e.addr = addr
    BY EntryIs DEF Entries
  <1>3. DOMAIN n = DOMAIN t /\ n[idx] = e /\ \A i \in DOMAIN t \ {idx} : n[i] = t[i]
    BY <1>1, <1>2 DEF Tables, Put
  <1>4. n \in Tables(Size(t))
    BY <1>1, <1>2 DEF Tables, Put
  <1>5. n \in AllTables /\ Size(n) = Size(t)
    BY <1>1, <1>4, TableIs
  <1>6. \A i \in DOMAIN t : t[i].valid /\ t[i].addr = addr => i = idx
    BY DEF GoodTable
  <1>7. Held(n) = {h \in Held(t) : h.addr # addr} \cup {e}
    BY <1>2, <1>3, <1>6 DEF Held
  <1>8. \A a, k : Probe(n, a, k) = Probe(t, a, k)
    BY <1>5 DEF Probe
  <1>9. \A i \in DOMAIN n : n[i].valid => \E k \in 0..(Probes - 1) : Probe(n, n[i].addr, k) = i
    BY <1>2, <1>3, <1>8 DEF GoodTable
  <1>10. \A i, j \in DOMAIN n : n[i].valid /\ n[j].valid /\ n[i].addr = n[j].addr => i = j
    BY <1>2, <1>3, <1>6 DEF GoodTable
  <1> QED BY <1>2, <1>5, <1>7, <1>9, <1>10 DEF GoodTable

LEMMA EmptyTable ==
  ASSUME NEW size \in Nat \ {0}
  PROVE  Empty(size) \in Tables(size) /\ GoodTable(Empty(size)) /\ Held(Empty(size)) = {}
  <1>1. Empty(size) \in Tables(size) /\ \A i \in DOMAIN Empty(size) : ~Empty(size)[i].valid
    BY EntryIs DEF Empty, Tables, Entries
  <1>2. Empty(size) \in AllTables
    BY <1>1, TableIs
  <1> QED BY <1>1, <1>2 DEF GoodTable, Held

LEMMA MovedIs ==
  ASSUME NEW size \in Nat \ {0}, NEW t \in Tables(size), NEW e \in Entries
  PROVE  Moved(t, e) \in Tables(size) \cup {NoTable}
  <1>1. t \in AllTables /\ DOMAIN t = 0..(size - 1)
    BY TableIs
  <1>2. assembly_find_empty(t, e.addr) # NOT_FOUND => assembly_find_empty(t, e.addr) \in DOMAIN t
    BY <1>1, FindEmpty
  <1> QED BY <1>1, <1>2 DEF Moved, Tables

\* A place for every entry at its address.
AtHome(t) == \A i \in DOMAIN t : t[i].valid => t[i].addr = i

\* The entries of a table in a new one: if they have places there, it holds them.
LEMMA RehashIs ==
  ASSUME NEW old, GoodTable(old), NEW size \in Nat \ {0}
  PROVE  LET new == RehashAtSize(old, size) IN
         /\ new = NoTable \/ (GoodTable(new) /\ new \in Tables(size) /\ Held(new) = Held(old))
         /\ (\A e \in Held(old) : e.addr < size) => new # NoTable /\ AtHome(new)
  <1> DEFINE N == Size(old)
             S == Tables(size) \cup {NoTable}
             Turn(n, t) == IF t = NoTable \/ ~old[n - 1].valid THEN t ELSE Moved(t, old[n - 1])
             step == [n \in 1..N |-> [t \in S |-> Turn(n, t)]]
  <1>1. N \in Nat \ {0} /\ old \in Tables(N)
    BY TableHasSize DEF GoodTable
  <1> HIDE DEF N
  <1>2. \A n \in 1..N : n - 1 \in DOMAIN old /\ old[n - 1] \in Entries
    BY <1>1 DEF Tables
  <1>3. \A n \in 1..N, t \in S : Turn(n, t) \in S
    BY <1>2, MovedIs
  <1>4. Empty(size) \in S
    BY EmptyTable
  <1> HIDE DEF S, Turn
  <1>5. step \in Turns(N, S) /\ \A n \in 1..N, t \in S : step[n][t] = Turn(n, t)
    BY <1>3 DEF Turns
  <1> HIDE DEF step
  <1>6. PICK f \in [0..N -> S] : f[0] = Empty(size) /\ \A n \in 1..N : f[n] = step[n][f[n - 1]]
    <2>1. \E f \in [0..N -> S] : IsRun(f, N, Empty(size), step)
      BY <1>1, <1>4, <1>5, LoopExists
    <2> QED BY <2>1 DEF IsRun
  <1>7. f = [n \in 0..N |-> IF n = 0 THEN Empty(size) ELSE Turn(n, f[n - 1])]
    <2>1. \A n \in 1..N : f[n - 1] \in S
      BY <1>1
    <2>2. \A n \in 0..N : f[n] = IF n = 0 THEN Empty(size) ELSE Turn(n, f[n - 1])
      BY <1>1, <1>5, <1>6, <2>1
    <2> QED BY <1>6, <2>2
  <1>8. PICK m : /\ RehashAtSize(old, size) = m[N]
                 /\ m = [n \in 0..N |-> IF n = 0 THEN Empty(size) ELSE Turn(n, m[n - 1])]
    BY <1>7 DEF RehashAtSize, N, Turn
  <1> DEFINE Before(n) == {old[i] : i \in {j \in 0..(n - 1) : old[j].valid}}
             fits      == \A e \in Held(old) : e.addr < size
             T == {n \in 0..N : /\ m[n] = NoTable \/ (GoodTable(m[n]) /\ m[n] \in Tables(size) /\ Held(m[n]) = Before(n))
                                /\ fits => m[n] # NoTable /\ AtHome(m[n])}
  <1>9. 0 \in T
    <2>1. m[0] = Empty(size) /\ 0 \in 0..N /\ Before(0) = {}
      BY <1>1, <1>8
    <2>2. Empty(size) # NoTable
      BY EmptyTable, TableIs
    <2>3. AtHome(Empty(size))
      BY EntryIs DEF AtHome, Empty
    <2> HIDE DEF Before
    <2> QED BY <2>1, <2>2, <2>3, EmptyTable
  <1>10. ASSUME NEW n \in 0..(N - 1), n \in T PROVE n + 1 \in T
    <2>1. n + 1 \in 0..N /\ n + 1 # 0 /\ (n + 1) - 1 = n /\ n \in DOMAIN old /\ 0..((n + 1) - 1) = 0..(n - 1) \cup {n}
          /\ DOMAIN old = 0..(N - 1)
      BY <1>1, TableIs
    <2>2. m[n + 1] = Turn(n + 1, m[n])
      BY <1>8, <2>1
    <2>3. m[n + 1] = IF m[n] = NoTable \/ ~old[n].valid THEN m[n] ELSE Moved(m[n], old[n])
      BY <2>1, <2>2 DEF Turn
    <2>4. /\ m[n] = NoTable \/ (GoodTable(m[n]) /\ m[n] \in Tables(size) /\ Held(m[n]) = Before(n))
          /\ fits => m[n] # NoTable /\ AtHome(m[n])
      BY <1>10
    <2>5. Before(n + 1) = IF old[n].valid THEN Before(n) \cup {old[n]} ELSE Before(n)
      BY <2>1
    <2>6. CASE m[n] = NoTable
      <3> HIDE DEF Before, fits
      <3> QED BY <2>1, <2>3, <2>4, <2>6
    <2>7. CASE m[n] # NoTable /\ ~old[n].valid
      <3> HIDE DEF Before, fits
      <3> QED BY <2>1, <2>3, <2>4, <2>5, <2>7
    <2>8. CASE m[n] # NoTable /\ old[n].valid
      <3> DEFINE t == m[n]
                 e == old[n]
                 idx == assembly_find_empty(t, e.addr)
      <3>1. GoodTable(t) /\ t \in Tables(size) /\ Held(t) = Before(n) /\ t \in AllTables
        BY <2>4, <2>8 DEF GoodTable
      <3>2. e \in Entries /\ e.valid /\ e \in Held(old) /\ e.addr \in InsnAddrs
        <4>1. e \in Entries
          BY <1>1, <2>1 DEF Tables
        <4> QED BY <4>1, <2>1, <2>8, EntryIs DEF Held
      <3>3. \A h \in Held(t) : h.addr # e.addr
        <4>1. ASSUME NEW j \in 0..(n - 1), old[j].valid PROVE old[j].addr # e.addr
          <5>1. j \in DOMAIN old /\ j # n
            BY <1>1, <2>1
          <5> QED BY <5>1, <4>1, <2>1, <3>2 DEF GoodTable
        <4> QED BY <4>1, <3>1
      <3>4. m[n + 1] = Moved(t, e)
        BY <2>3, <2>8
      <3>5. Before(n + 1) = Before(n) \cup {e}
        BY <2>5, <2>8
      <3> HIDE DEF Before, t, e
      <3>6. idx # NOT_FOUND => idx \in DOMAIN t /\ ~t[idx].valid /\ \E k \in 0..(Probes - 1) : Probe(t, e.addr, k) = idx
        BY <3>1, FindEmpty
      <3>7. Moved(t, e) = NoTable \/ (GoodTable(Moved(t, e)) /\ Moved(t, e) \in Tables(size) /\ Held(Moved(t, e)) = Before(n + 1))
        <4>1. CASE idx = NOT_FOUND
          BY <4>1 DEF Moved
        <4>2. CASE idx # NOT_FOUND
          <5>1. Moved(t, e) = [t EXCEPT ![idx] = e]
            BY <4>2 DEF Moved
          <5>2. PICK u : u = [t EXCEPT ![idx] = e]
            OBVIOUS
          <5> HIDE DEF idx
          <5>3. GoodTable(u) /\ Held(u) = Held(t) \cup {e} /\ Size(u) = Size(t)
            BY <5>2, <4>2, <3>1, <3>2, <3>3, <3>6, PutNew
          <5>4. u \in Tables(size)
            BY <5>3, <3>1, TableIs, TableHasSize DEF GoodTable
          <5> QED BY <5>1, <5>2, <5>3, <5>4, <3>1, <3>5
        <4> QED BY <4>1, <4>2
      <3>8. ASSUME fits PROVE Moved(t, e) # NoTable /\ AtHome(Moved(t, e))
        <4>1. e.addr < size /\ e.addr \in Nat
          BY <3>2, <3>8, Numbers DEF InsnAddrs
        <4>2. e.addr \in DOMAIN t /\ Probe(t, e.addr, 0) = e.addr
          <5>1. Probe(t, e.addr, 0) = (e.addr + 0) % size /\ DOMAIN t = 0..(size - 1)
            BY <3>1, <4>1, TableIs
          <5>2. (e.addr + 0) % size = e.addr
            BY <4>1
          <5> QED BY <5>1, <5>2, <4>1
        <4>3. AtHome(t)
          BY <2>4, <3>8 DEF t
        <4>4. ~t[e.addr].valid
          <5>1. SUFFICES ASSUME t[e.addr].valid PROVE FALSE
            <6>1. t[e.addr] \in Entries
              BY <3>1, <4>2 DEF Tables
            <6> QED BY <6>1, EntryIs
          <5>2. t[e.addr].addr = e.addr /\ t[e.addr] \in Held(t)
            BY <5>1, <4>2, <4>3 DEF AtHome, Held
          <5> QED BY <5>2, <3>3
        <4>5. idx = e.addr
          <5>1. 0 \in 0..(Probes - 1)
            BY TableAssumption
          <5> DEFINE wanted == {i \in DOMAIN t : ~t[i].valid}
                     hits   == {k \in 0..(Probes - 1) : Probe(t, e.addr, k) \in wanted}
                     least  == CHOOSE k \in hits : \A h \in hits : k <= h
          <5>2. 0 \in hits /\ \A h \in hits : 0 <= h /\ h \in Int
            BY <5>1, <4>2, <4>4, TableAssumption
          <5>3. least \in hits /\ \A h \in hits : least <= h
            <6> HIDE DEF hits
            <6> QED BY <5>2
          <5>4. idx = Probe(t, e.addr, least)
            BY <5>2 DEF assembly_find_empty, First
          <5> HIDE DEF least, hits
          <5>5. least = 0
            BY <5>2, <5>3
          <5> QED BY <5>4, <5>5, <4>2
        <4>6. idx # NOT_FOUND
          BY <4>1, <4>5 DEF NOT_FOUND
        <4>7. Moved(t, e) = [t EXCEPT ![e.addr] = e]
          BY <4>5, <4>6 DEF Moved
        <4>8. DOMAIN Moved(t, e) = DOMAIN t /\ Moved(t, e)[e.addr] = e /\ \A i \in DOMAIN t \ {e.addr} : Moved(t, e)[i] = t[i]
          BY <4>7, <4>2
        <4>9. Moved(t, e) # NoTable
          BY <4>2, <4>8 DEF NoTable
        <4> QED BY <4>2, <4>3, <4>8, <4>9 DEF AtHome
      <3> HIDE DEF idx, fits
      <3> QED BY <2>1, <3>4, <3>7, <3>8
    <2> QED BY <2>6, <2>7, <2>8
  <1>11. N \in T
    <2> HIDE DEF T
    <2>1. N \in Nat
      BY <1>1
    <2>2. 0..N \subseteq T
      BY <2>1, <1>9, <1>10, InductionUpTo
    <2> QED BY <2>1, <2>2
  <1>12. Before(N) = Held(old)
    BY <1>1, TableIs DEF Held
  <1> HIDE DEF Before
  <1> QED BY <1>8, <1>11, <1>12

-----------------------------------------------------------------------------
(* Searches that go on until they succeed                                   *)

\* A search over the numbers, from s on to next[s], and so on, until one of Stop is
\* found: the recursive function of it exists, if all large numbers are in Stop.
IsSearch(f, Stop, value, next) == f = [s \in Nat |-> IF s \in Stop THEN value[s] ELSE f[next[s]]]

\* It ends: from big on, every number is in Stop.
Ending(Stop, next, big) ==
  /\ Stop \in SUBSET Nat /\ next \in [Nat -> Nat] /\ \A s \in Nat : next[s] > s
  /\ big \in Nat /\ \A s \in Nat : s >= big => s \in Stop

LEMMA SearchExists ==
  ASSUME NEW Stop, NEW next, NEW big, NEW value, Ending(Stop, next, big)
  PROVE  \E f : IsSearch(f, Stop, value, next)
  <1> USE DEF Ending
  <1> DEFINE From(d) == {s \in Nat : s >= big - d}
             T == {d \in Nat : \E f : f = [s \in From(d) |-> IF s \in Stop THEN value[s] ELSE f[next[s]]]}
  <1>1. 0 \in T
    <2> DEFINE f == [s \in From(0) |-> value[s]]
    <2>1. \A s \in From(0) : s \in Stop
      OBVIOUS
    <2>2. f = [s \in From(0) |-> IF s \in Stop THEN value[s] ELSE f[next[s]]]
      BY <2>1
    <2> HIDE DEF f
    <2> QED BY <2>2
  <1>2. ASSUME NEW d \in Nat, d \in T PROVE d + 1 \in T
    <2>1. PICK f : f = [s \in From(d) |-> IF s \in Stop THEN value[s] ELSE f[next[s]]]
      BY <1>2
    <2> DEFINE g == [s \in From(d + 1) |-> IF s \in Stop THEN value[s] ELSE f[next[s]]]
    <2>2. \A s \in From(d + 1) : next[s] \in From(d) /\ next[s] \in From(d + 1)
      <3>1. \A s \in Nat : next[s] \in Nat /\ next[s] >= s + 1
        OBVIOUS
      <3> QED BY <3>1
    <2>3. \A s \in From(d) : s \in From(d + 1) /\ g[s] = f[s]
      <3>1. \A s \in From(d) : f[s] = IF s \in Stop THEN value[s] ELSE f[next[s]]
        <4> HIDE DEF From
        <4> QED BY <2>1
      <3>2. \A s \in From(d) : s \in From(d + 1)
        OBVIOUS
      <3> QED BY <3>1, <3>2
    <2>4. \A s \in From(d + 1) : g[next[s]] = f[next[s]]
      BY <2>2, <2>3
    <2>5. g = [s \in From(d + 1) |-> IF s \in Stop THEN value[s] ELSE g[next[s]]]
      <3> HIDE DEF From
      <3> QED BY <2>4
    <2> HIDE DEF g, From
    <2> QED BY <2>5
  <1>3. Nat \subseteq T
    <2> HIDE DEF T
    <2> QED BY <1>1, <1>2, InductionOnNat
  <1>4. \E f : f = [s \in Nat |-> IF s \in Stop THEN value[s] ELSE f[next[s]]]
    <2>1. From(big) = Nat
      OBVIOUS
    <2>2. big \in T
      BY <1>3
    <2> HIDE DEF From
    <2> QED BY <2>1, <2>2
  <1> QED BY <1>4 DEF IsSearch

LEMMA SearchEnds ==
  ASSUME NEW Stop, NEW next, NEW big, NEW value, Ending(Stop, next, big),
         NEW f, IsSearch(f, Stop, value, next), NEW start \in Nat
  PROVE  \E r \in Stop : r >= start /\ f[start] = value[r]
  <1> USE DEF Ending
  <1> DEFINE From(d) == {s \in Nat : s >= big - d}
  <1> DEFINE Found(s) == \E r \in Stop : r >= s /\ f[s] = value[r]
             U == {d \in Nat : \A s \in From(d) : Found(s)}
  <1>1. \A s \in Nat : f[s] = IF s \in Stop THEN value[s] ELSE f[next[s]]
    BY DEF IsSearch
  <1>2. 0 \in U
    <2>1. \A s \in From(0) : s \in Stop /\ s >= s /\ f[s] = value[s]
      BY <1>1
    <2> QED BY <2>1
  <1>3. ASSUME NEW d \in Nat, d \in U PROVE d + 1 \in U
    <2>1. ASSUME NEW s \in From(d + 1) PROVE Found(s)
      <3>1. CASE s \in Stop
        BY <3>1, <1>1
      <3>2. CASE s \notin Stop
        <4>1. next[s] \in Nat /\ next[s] > s /\ f[s] = f[next[s]]
          BY <3>2, <1>1
        <4>2. next[s] \in From(d)
          BY <4>1
        <4>3. PICK r \in Stop : r >= next[s] /\ f[next[s]] = value[r]
          BY <4>2, <1>3
        <4>4. r >= s
          <5>1. r \in Nat /\ s \in Nat
            OBVIOUS
          <5> QED BY <5>1, <4>1, <4>3
        <4> QED BY <4>1, <4>3, <4>4
      <3> QED BY <3>1, <3>2
    <2> HIDE DEF Found, From
    <2> QED BY <2>1
  <1>4. big \in U
    <2> HIDE DEF U
    <2>1. Nat \subseteq U
      BY <1>2, <1>3, InductionOnNat
    <2> QED BY <2>1
  <1>5. \A s \in Nat : s \in From(big)
    OBVIOUS
  <1> HIDE DEF Found, From
  <1>6. \A s \in Nat : Found(s)
    BY <1>4, <1>5
  <1> QED BY <1>6 DEF Found

\* A loop without end: the recursive function of its turns exists.
LEMMA IterationExists ==
  ASSUME NEW S, NEW x \in S, NEW step \in [S -> S]
  PROVE  \E f \in [Nat -> S] : f = [n \in Nat |-> IF n = 0 THEN x ELSE step[f[n - 1]]]
  <1> DEFINE Run(N, f) == f \in [0..N -> S] /\ f[0] = x /\ \A n \in 1..N : f[n] = step[f[n - 1]]
             run(N) == CHOOSE f : Run(N, f)
             g == [n \in Nat |-> run(n)[n]]
  <1>1. ASSUME NEW N \in Nat PROVE Run(N, run(N))
    <2> DEFINE turns == [n \in 1..N |-> step]
    <2>1. turns \in Turns(N, S)
      BY DEF Turns
    <2>2. PICK f \in [0..N -> S] : IsRun(f, N, x, turns)
      <3> HIDE DEF turns
      <3> QED BY <2>1, LoopExists
    <2>3. Run(N, f)
      BY <2>2 DEF IsRun
    <2> HIDE DEF Run
    <2> QED BY <2>3
  <1>2. ASSUME NEW N \in Nat, NEW M \in Nat, N <= M, NEW f, NEW h, Run(N, f), Run(M, h)
        PROVE  f[N] = h[N]
    <2> DEFINE T == {n \in 0..N : f[n] = h[n]}
    <2>1. 0 \in T
      BY <1>2
    <2>2. ASSUME NEW n \in 0..(N - 1), n \in T PROVE n + 1 \in T
      <3>1. n + 1 \in 1..N /\ n + 1 \in 1..M /\ (n + 1) - 1 = n /\ n + 1 \in 0..N
        BY <1>2
      <3>2. f[n + 1] = step[f[n]] /\ h[n + 1] = step[h[n]]
        BY <1>2, <3>1
      <3> QED BY <2>2, <3>1, <3>2
    <2>3. 0..N \subseteq T
      <3> HIDE DEF T
      <3> QED BY <2>1, <2>2, InductionUpTo
    <2> QED BY <2>3
  <1>3. ASSUME NEW n \in Nat PROVE run(n)[n] \in S
    <2> HIDE DEF run
    <2>1. run(n) \in [0..n -> S]
      BY <1>1
    <2>2. n \in 0..n
      OBVIOUS
    <2> QED BY <2>1, <2>2
  <1>4. g \in [Nat -> S]
    <2> HIDE DEF run
    <2> QED BY <1>3
  <1>5. ASSUME NEW n \in Nat PROVE g[n] = IF n = 0 THEN x ELSE step[g[n - 1]]
    <2>1. Run(n, run(n))
      BY <1>1
    <2>2. CASE n = 0
      BY <2>1, <2>2
    <2>3. CASE n # 0
      <3>1. n - 1 \in Nat /\ n - 1 <= n /\ n \in 1..n
        BY <2>3
      <3>2. Run(n - 1, run(n - 1))
        BY <3>1, <1>1
      <3> HIDE DEF run
      <3>3. run(n - 1)[n - 1] = run(n)[n - 1]
        <4> HIDE DEF Run
        <4> QED BY <3>1, <3>2, <2>1, <1>2
      <3>4. run(n)[n] = step[run(n)[n - 1]]
        BY <2>1, <3>1
      <3> QED BY <2>3, <3>1, <3>3, <3>4
    <2> QED BY <2>2, <2>3
  <1> HIDE DEF g
  <1> QED BY <1>4, <1>5

\* The table that has grown holds the same.
LEMMA GrowIs ==
  ASSUME NEW old, GoodTable(old)
  PROVE  LET new == assembly_grow_and_rehash(old) IN
         /\ GoodTable(new) /\ Held(new) = Held(old) /\ Size(new) >= 1 + 2 * Size(old)
         /\ Size(new) >= WordValues \div 2 => AtHome(new)
  <1> DEFINE Stop  == {s \in Nat : RehashAtSize(old, s) # NoTable}
             next  == [s \in Nat |-> 1 + 2 * s]
             value == [s \in Nat |-> RehashAtSize(old, s)]
             big   == WordValues \div 2
  <1>1. \A e \in Held(old) : e.addr \in 0..(big - 1)
    <2>1. old \in Tables(Size(old)) /\ Size(old) \in Nat \ {0}
      BY TableHasSize DEF GoodTable
    <2>2. \A i \in DOMAIN old : old[i] \in Entries
      BY <2>1 DEF Tables
    <2> QED BY <2>2, EntryIs DEF Held, InsnAddrs
  <1>2. big \in Nat \ {0}
    BY Numbers
  <1> HIDE DEF big
  <1>3. ASSUME NEW s \in Nat, s >= big PROVE s \in Stop /\ AtHome(RehashAtSize(old, s))
    <2>1. s \in Nat \ {0} /\ \A e \in Held(old) : e.addr < s
      BY <1>1, <1>2, <1>3
    <2> QED BY <2>1, RehashIs
  <1>4. next \in [Nat -> Nat] /\ \A s \in Nat : next[s] > s /\ next[s] = 1 + 2 * s
    OBVIOUS
  <1>5. \A s \in Nat : value[s] = RehashAtSize(old, s)
    OBVIOUS
  <1>6. Stop \in SUBSET Nat
    OBVIOUS
  <1> HIDE DEF next, value
  <1>7. Ending(Stop, next, big)
    <2> HIDE DEF Stop
    <2>1. \A s \in Nat : next[s] > s
      BY <1>4
    <2>2. \A s \in Nat : s >= big => s \in Stop
      BY <1>3
    <2> QED BY <2>1, <2>2, <1>2, <1>4, <1>6 DEF Ending
  <1>8. PICK f : /\ assembly_grow_and_rehash(old) = f[1 + 2 * Size(old)]
                 /\ IsSearch(f, Stop, value, next)
    <2> DEFINE G(h) == [s \in Nat |-> IF RehashAtSize(old, s) = NoTable THEN h[1 + 2 * s] ELSE RehashAtSize(old, s)]
    <2>1. ASSUME NEW h PROVE IsSearch(h, Stop, value, next) <=> h = G(h)
      <3>1. [s \in Nat |-> IF s \in Stop THEN value[s] ELSE h[next[s]]] = G(h)
        BY <1>4, <1>5
      <3> QED BY <3>1, Zenon DEF IsSearch
    <2>2. assembly_grow_and_rehash(old) = (CHOOSE h : h = G(h))[1 + 2 * Size(old)]
      BY DEF assembly_grow_and_rehash
    <2> HIDE DEF G
    <2>3. \E h : h = G(h)
      <3> HIDE DEF Stop
      <3>1. \E h : IsSearch(h, Stop, value, next)
        BY <1>7, SearchExists
      <3> QED BY <2>1, <3>1
    <2>4. PICK h : h = G(h) /\ assembly_grow_and_rehash(old) = h[1 + 2 * Size(old)]
      BY <2>2, <2>3
    <2> QED BY <2>1, <2>4
  <1>9. Size(old) \in Nat \ {0}
    BY TableHasSize DEF GoodTable
  <1>10. PICK r \in Stop : r >= 1 + 2 * Size(old) /\ assembly_grow_and_rehash(old) = value[r]
    <2>1. PICK start \in Nat : start = 1 + 2 * Size(old)
      BY <1>9
    <2> HIDE DEF Stop
    <2>2. \E r \in Stop : r >= start /\ f[start] = value[r]
      BY <1>7, <1>8, SearchEnds
    <2> QED BY <2>1, <2>2, <1>8
  <1>11. r \in Nat \ {0} /\ assembly_grow_and_rehash(old) = RehashAtSize(old, r) /\ RehashAtSize(old, r) # NoTable
    <2>1. r \in Nat /\ r >= 1
      BY <1>9, <1>10
    <2> QED BY <2>1, <1>5, <1>10
  <1>12. PICK new : new = RehashAtSize(old, r)
    OBVIOUS
  <1>13. GoodTable(new) /\ new \in Tables(r) /\ Held(new) = Held(old)
    BY <1>11, <1>12, RehashIs
  <1>14. Size(new) = r
    BY <1>11, <1>13, TableIs
  <1>15. r >= big => AtHome(new)
    BY <1>3, <1>11, <1>12
  <1> QED BY <1>10, <1>11, <1>12, <1>13, <1>14, <1>15 DEF big

\* A new address is put into the table.
LEMMA InsertIs ==
  ASSUME NEW t, GoodTable(t), NEW addr \in InsnAddrs, NEW text \in STRING, \A h \in Held(t) : h.addr # addr
  PROVE  GoodTable(Insert(t, addr, text)) /\ Held(Insert(t, addr, text)) = Held(t) \cup {Entry(addr, text)}
  <1> DEFINE S    == {u \in AllTables : GoodTable(u)}
             step == [u \in S |-> assembly_grow_and_rehash(u)]
             IsGrown(g) == g = [k \in Nat |-> IF k = 0 THEN t ELSE assembly_grow_and_rehash(g[k - 1])]
             e    == Entry(addr, text)
  <1>1. t \in S /\ \A u \in S : assembly_grow_and_rehash(u) \in S
    BY GrowIs DEF GoodTable
  <1>2. step \in [S -> S] /\ \A u \in S : step[u] = assembly_grow_and_rehash(u)
    <2> HIDE DEF S
    <2> QED BY <1>1
  <1>3. \E g : IsGrown(g)
    <2>1. PICK g \in [Nat -> S] : g = [n \in Nat |-> IF n = 0 THEN t ELSE step[g[n - 1]]]
      <3> HIDE DEF S, step
      <3> QED BY <1>1, <1>2, IterationExists
    <2>2. ASSUME NEW n \in Nat, n # 0 PROVE step[g[n - 1]] = assembly_grow_and_rehash(g[n - 1])
      <3>1. n - 1 \in Nat
        BY <2>2
      <3> HIDE DEF S, step
      <3> QED BY <3>1, <2>1, <1>2
    <2>3. \A n \in Nat : g[n] = IF n = 0 THEN t ELSE assembly_grow_and_rehash(g[n - 1])
      <3> HIDE DEF S, step
      <3> QED BY <2>1, <2>2
    <2>4. DOMAIN g = Nat /\ g = [n \in Nat |-> g[n]]
      OBVIOUS
    <2>5. IsGrown(g)
      <3> HIDE DEF S, step
      <3> QED BY <2>3, <2>4
    <2> QED BY <2>5
  <1> DEFINE grown == CHOOSE g : IsGrown(g)
  <1>4. IsGrown(grown)
    <2> HIDE DEF IsGrown
    <2> QED BY <1>3
  <1> HIDE DEF grown
  <1>5. grown[0] = t /\ \A k \in Nat : grown[k + 1] = assembly_grow_and_rehash(grown[k])
    <2>1. \A k \in Nat : grown[k] = IF k = 0 THEN t ELSE assembly_grow_and_rehash(grown[k - 1])
      BY <1>4
    <2>2. ASSUME NEW k \in Nat PROVE grown[k + 1] = assembly_grow_and_rehash(grown[k])
      <3>1. k + 1 \in Nat /\ k + 1 # 0 /\ (k + 1) - 1 = k
        OBVIOUS
      <3> QED BY <2>1, <3>1
    <2> QED BY <2>1, <2>2
  <1> DEFINE Big(u, k) == k # 0 /\ Size(u) >= WordValues \div 2 => AtHome(u)
             T == {k \in Nat : /\ GoodTable(grown[k]) /\ Held(grown[k]) = Held(t)
                               /\ Size(grown[k]) > k /\ Big(grown[k], k)}
  <1>6. Nat \subseteq T
    <2>1. 0 \in T
      BY <1>5, TableHasSize DEF GoodTable
    <2>2. ASSUME NEW k \in Nat, k \in T PROVE k + 1 \in T
      <3>1. PICK u : u = grown[k]
        OBVIOUS
      <3>2. PICK v : v = assembly_grow_and_rehash(u)
        OBVIOUS
      <3>3. GoodTable(u) /\ Held(u) = Held(t) /\ Size(u) > k /\ Size(u) \in Nat
        BY <2>2, <3>1, TableHasSize DEF GoodTable
      <3>4. GoodTable(v) /\ Held(v) = Held(u) /\ Size(v) >= 1 + 2 * Size(u) /\ (Size(v) >= WordValues \div 2 => AtHome(v))
        BY <3>2, <3>3, GrowIs
      <3>5. Size(v) \in Nat
        BY <3>4, TableHasSize DEF GoodTable
      <3>6. Size(v) > k + 1
        BY <3>3, <3>4, <3>5
      <3>7. grown[k + 1] = v
        BY <1>5, <3>1, <3>2
      <3> QED BY <3>3, <3>4, <3>6, <3>7
    <2> HIDE DEF T
    <2> QED BY <2>1, <2>2, InductionOnNat
  <1>7. \A k \in Nat : /\ GoodTable(grown[k]) /\ Held(grown[k]) = Held(t) /\ grown[k] \in AllTables
                       /\ Size(grown[k]) > k /\ Big(grown[k], k)
    <2> HIDE DEF Big
    <2> QED BY <1>6 DEF GoodTable
  <1> HIDE DEF T
  <1> DEFINE place(k) == assembly_find_empty(grown[k], addr)
             Stop  == {k \in Nat : place(k) # NOT_FOUND}
             next  == [k \in Nat |-> k + 1]
             value == [k \in Nat |-> Put(grown[k], place(k), addr, text)]
             big   == WordValues \div 2 + 1
             IsFrom(f) == f = [k \in Nat |-> IF place(k) = NOT_FOUND THEN f[k + 1] ELSE Put(grown[k], place(k), addr, text)]
  <1>8. e \in Entries /\ e.valid /\ e.addr = addr /\ addr \in Nat
    BY EntryIs, Numbers DEF Entries, InsnAddrs
  <1>9. big \in Nat
    BY Numbers
  <1>10. ASSUME NEW k \in Nat, k >= big PROVE k \in Stop
    <2>1. PICK u : u = grown[k]
      OBVIOUS
    <2>2. /\ GoodTable(u) /\ Held(u) = Held(t) /\ u \in AllTables /\ Size(u) > k /\ Size(u) \in Nat \ {0}
          /\ u \in Tables(Size(u))
      BY <2>1, <1>7, TableHasSize
    <2>3. k # 0 /\ k >= WordValues \div 2 + 1 /\ WordValues \div 2 \in Nat
      BY <1>10, Numbers
    <2>4. Size(u) >= WordValues \div 2 /\ addr < Size(u)
      BY <2>2, <2>3 DEF InsnAddrs
    <2>5. AtHome(u)
      BY <2>1, <2>3, <2>4, <1>7
    <2>6. DOMAIN u = 0..(Size(u) - 1) /\ addr \in DOMAIN u /\ Probe(u, addr, 0) = addr
      <3>1. DOMAIN u = 0..(Size(u) - 1) /\ Probe(u, addr, 0) = (addr + 0) % Size(u)
        BY <2>2, <1>8, TableIs
      <3>2. (addr + 0) % Size(u) = addr
        BY <2>2, <2>4, <1>8
      <3> QED BY <3>1, <3>2, <2>2, <2>4, <1>8
    <2>7. ~u[addr].valid
      <3>1. u[addr] \in Entries
        BY <2>2, <2>6 DEF Tables
      <3>2. SUFFICES ASSUME u[addr].valid PROVE FALSE
        BY <3>1, EntryIs
      <3>3. u[addr].addr = addr /\ u[addr] \in Held(u)
        BY <3>2, <2>5, <2>6 DEF AtHome, Held
      <3> QED BY <3>3, <2>2
    <2>8. 0 \in 0..(Probes - 1)
      BY TableAssumption
    <2>9. assembly_find_empty(u, addr) # NOT_FOUND
      BY <2>2, <2>6, <2>7, <2>8, FindEmpty
    <2> QED BY <2>1, <2>9
  <1>11. next \in [Nat -> Nat] /\ \A k \in Nat : next[k] > k /\ next[k] = k + 1
    OBVIOUS
  <1>12. \A k \in Nat : value[k] = Put(grown[k], place(k), addr, text)
    OBVIOUS
  <1>13. Stop \in SUBSET Nat /\ \A k \in Nat : k \in Stop <=> place(k) # NOT_FOUND
    OBVIOUS
  <1> HIDE DEF next, value, Stop, place, big
  <1>14. Ending(Stop, next, big)
    <2>1. \A s \in Nat : next[s] > s
      BY <1>11
    <2>2. \A s \in Nat : s >= big => s \in Stop
      BY <1>10
    <2> QED BY <2>1, <2>2, <1>9, <1>11, <1>13 DEF Ending
  <1>15. ASSUME NEW f PROVE IsFrom(f) <=> IsSearch(f, Stop, value, next)
    <2>1. [k \in Nat |-> IF place(k) = NOT_FOUND THEN f[k + 1] ELSE Put(grown[k], place(k), addr, text)]
            = [s \in Nat |-> IF s \in Stop THEN value[s] ELSE f[next[s]]]
      BY <1>11, <1>12, <1>13
    <2> QED BY <2>1, Zenon DEF IsSearch
  <1> DEFINE from == CHOOSE f : IsFrom(f)
  <1>16. IsFrom(from)
    <2> HIDE DEF IsFrom
    <2>1. \E f : IsSearch(f, Stop, value, next)
      BY <1>14, SearchExists
    <2> QED BY <2>1, <1>15
  <1>17. Insert(t, addr, text) = from[0]
    BY DEF Insert, grown, place
  <1> HIDE DEF from
  <1>18. PICK r \in Stop : r \in Nat /\ from[0] = Put(grown[r], place(r), addr, text)
    <2>1. IsSearch(from, Stop, value, next)
      <3> HIDE DEF IsFrom
      <3> QED BY <1>15, <1>16
    <2>2. PICK r \in Stop : from[0] = value[r]
      <3>1. 0 \in Nat
        OBVIOUS
      <3> QED BY <2>1, <3>1, <1>14, SearchEnds
    <2>3. r \in Nat
      BY <1>13
    <2> QED BY <2>2, <2>3, <1>12
  <1>19. PICK u, idx : u = grown[r] /\ idx = assembly_find_empty(u, addr) /\ idx = place(r) /\ idx # NOT_FOUND
    BY <1>13, <1>18 DEF place
  <1>20. GoodTable(u) /\ Held(u) = Held(t) /\ u \in AllTables
    BY <1>7, <1>18, <1>19
  <1>21. idx \in DOMAIN u /\ ~u[idx].valid /\ \E k \in 0..(Probes - 1) : Probe(u, addr, k) = idx
    BY <1>19, <1>20, FindEmpty
  <1>22. PICK n : n = [u EXCEPT ![idx] = e]
    OBVIOUS
  <1>23. Insert(t, addr, text) = n
    BY <1>17, <1>18, <1>19, <1>22 DEF Put
  <1> HIDE DEF e
  <1>24. GoodTable(n) /\ Held(n) = Held(u) \cup {e}
    <2>1. \A h \in Held(u) : h.addr # e.addr
      BY <1>8, <1>20
    <2>2. \E k \in 0..(Probes - 1) : Probe(u, e.addr, k) = idx
      BY <1>8, <1>21
    <2> QED BY <2>1, <2>2, <1>8, <1>20, <1>21, <1>22, PutNew
  <1> QED BY <1>20, <1>23, <1>24 DEF e

\* An instruction line is put into the table.
LEMMA SetIs ==
  ASSUME NEW t, GoodTable(t), NEW addr \in InsnAddrs, NEW text \in STRING
  PROVE  /\ GoodTable(assembly_set(t, addr, text))
         /\ Held(assembly_set(t, addr, text)) = {h \in Held(t) : h.addr # addr} \cup {Entry(addr, text)}
  <1> DEFINE idx == assembly_find_entry(t, addr)
  <1>1. CASE idx = NOT_FOUND
    <2>1. \A h \in Held(t) : h.addr # addr
      BY <1>1, FindEntry
    <2>2. assembly_set(t, addr, text) = Insert(t, addr, text)
      BY <1>1 DEF assembly_set
    <2>3. {h \in Held(t) : h.addr # addr} = Held(t)
      BY <2>1
    <2> QED BY <2>1, <2>2, <2>3, InsertIs
  <1>2. CASE idx # NOT_FOUND
    <2>1. idx \in DOMAIN t /\ t[idx].valid /\ t[idx].addr = addr
      BY <1>2, FindEntry
    <2>2. PICK n : n = Put(t, idx, addr, text)
      OBVIOUS
    <2>3. assembly_set(t, addr, text) = n
      BY <1>2, <2>2 DEF assembly_set
    <2> HIDE DEF idx
    <2> QED BY <2>1, <2>2, <2>3, PutOld
  <1> QED BY <1>1, <1>2

-----------------------------------------------------------------------------
(* The listing                                                              *)

\* A command that sim is called with, and the lines of its listing that are read.
CommandInv ==
  /\ \E command \in Commands : listing = command.listing /\ args = command.args
  /\ lineNo \in 0..Len(listing)

LEMMA CommandIs ==
  ASSUME NEW command \in Commands
  PROVE  /\ DOMAIN command.listing = 1..Len(command.listing) /\ Len(command.listing) \in Nat
         /\ \A k \in DOMAIN command.listing : IsLine(command.listing[k])
         /\ command.args \in Seq(Seq(1..(ByteValues - 1)))
         /\ ArgExtent(command.args) \subseteq 0..(WordValues \div 2 - 1)
         /\ \A k \in DOMAIN command.listing : command.listing[k].kind = "data" =>
              command.listing[k].addr..(command.listing[k].addr + Len(command.listing[k].bytes) - 1)
                \cap ArgExtent(command.args) = {}
  BY CommandsAssumption, Zenon

LEMMA ListingIs ==
  ASSUME CommandInv
  PROVE  /\ DOMAIN listing = 1..Len(listing) /\ Len(listing) \in Nat
         /\ \A k \in DOMAIN listing : IsLine(listing[k])
         /\ args \in Seq(Seq(1..(ByteValues - 1)))
         /\ ArgExtent(args) \subseteq 0..(WordValues \div 2 - 1)
         /\ \A k \in DOMAIN listing : listing[k].kind = "data" =>
              listing[k].addr..(listing[k].addr + Len(listing[k].bytes) - 1) \cap ArgExtent(args) = {}
  <1>1. PICK command \in Commands : listing = command.listing /\ args = command.args
    BY DEF CommandInv
  <1> QED BY <1>1, CommandIs

\* The line that is read next.
LEMMA LineIs ==
  ASSUME CommandInv, lineNo < Len(listing)
  PROVE  /\ lineNo \in Nat /\ lineNo + 1 \in DOMAIN listing /\ lineNo + 1 \in 0..Len(listing)
         /\ line = listing[lineNo + 1] /\ IsLine(line)
  BY ListingIs DEF CommandInv, line

LEMMA CommandKept == CommandInv /\ [Next]_vars => CommandInv'
  <1> SUFFICES ASSUME CommandInv, [Next]_vars PROVE CommandInv'
    OBVIOUS
  <1>1. UNCHANGED <<listing, args>>
    BY DEF Next, vars, loaded, pass_args_to_program, ReadLine, Start, simulate
  <1>2. lineNo' \in 0..Len(listing)
    <2>1. CASE ReadLine
      BY <2>1, LineIs DEF ReadLine, NextLine
    <2>2. CASE ~ReadLine
      <3>1. lineNo' = lineNo
        BY <2>2 DEF Next, vars, loaded, pass_args_to_program, Start, simulate
      <3> QED BY <3>1 DEF CommandInv
    <2> QED BY <2>1, <2>2
  <1> QED BY <1>1, <1>2 DEF CommandInv

-----------------------------------------------------------------------------
(* The table has the latest texts                                           *)

\* The lines among the first n that give addr a text, and the last of some lines.
TextLines(n, addr) == {k \in 1..n : listing[k].kind = "insn" /\ listing[k].addr = addr /\ listing[k].text # ""}
Latest(S) == CHOOSE k \in S : \A j \in S : j <= k

\* The entries for the texts of the first n lines.
TextEntries(n) == {Entry(addr, listing[Latest(TextLines(n, addr))].text) : addr \in {b \in InsnAddrs : TextLines(n, b) # {}}}

TableInv == CommandInv /\ GoodTable(table) /\ Held(table) = TextEntries(lineNo)

LEMMA LatestIs ==
  ASSUME NEW n \in Nat, NEW S \in SUBSET (1..n), n + 1 \notin S
  PROVE  Latest(S \cup {n + 1}) = n + 1
  <1>1. \A j \in S : j \in Int /\ j <= n
    OBVIOUS
  <1>2. \A j \in S \cup {n + 1} : j \in Int /\ j <= n + 1
    BY <1>1
  <1>3. \A k \in S \cup {n + 1} : (\A j \in S \cup {n + 1} : j <= k) => k = n + 1
    BY <1>2
  <1> DEFINE last == CHOOSE k \in S \cup {n + 1} : \A j \in S \cup {n + 1} : j <= k
  <1>4. last \in S \cup {n + 1} /\ \A j \in S \cup {n + 1} : j <= last
    BY <1>2
  <1> HIDE DEF last
  <1>5. last = n + 1
    BY <1>3, <1>4
  <1> QED BY <1>5 DEF last, Latest

LEMMA InsnLineIs ==
  ASSUME IsLine(line), line.kind = "insn"
  PROVE  /\ line.addr \in InsnAddrs /\ line.text \in STRING /\ line.addr % 4 = 0
         /\ ISA!IsInstruction(line.insn) /\ line.word = ISA!Encode(line.insn)
  <1>1. "insn" # "other" /\ "insn" # "start" /\ "insn" # "data"
    OBVIOUS
  <1> QED BY <1>1, Zenon DEF IsLine, InsnAddrs

\* The entries after one more line.
LEMMA NextEntries ==
  ASSUME CommandInv, lineNo < Len(listing)
  PROVE  TextEntries(lineNo + 1) =
           IF line.kind = "insn" /\ line.text # ""
           THEN {h \in TextEntries(lineNo) : h.addr # line.addr} \cup {Entry(line.addr, line.text)}
           ELSE TextEntries(lineNo)
  <1> DEFINE n == lineNo
             adds == line.kind = "insn" /\ line.text # ""
             of(m, b) == Entry(b, listing[Latest(TextLines(m, b))].text)
  <1>1. n \in Nat /\ line = listing[n + 1] /\ IsLine(line)
    BY LineIs
  <1>2. 1..(n + 1) = 1..n \cup {n + 1} /\ n + 1 \notin 1..n
    BY <1>1
  <1>3. ASSUME NEW b
        PROVE  TextLines(n + 1, b) = IF adds /\ line.addr = b THEN TextLines(n, b) \cup {n + 1} ELSE TextLines(n, b)
    BY <1>1, <1>2 DEF TextLines
  <1>4. ASSUME NEW b, adds, line.addr = b PROVE Latest(TextLines(n + 1, b)) = n + 1
    <2>1. TextLines(n, b) \in SUBSET (1..n) /\ n + 1 \notin TextLines(n, b)
      BY <1>2 DEF TextLines
    <2>2. TextLines(n + 1, b) = TextLines(n, b) \cup {n + 1}
      BY <1>3, <1>4
    <2> HIDE DEF n
    <2> QED BY <1>1, <2>1, <2>2, LatestIs
  <1>5. TextEntries(n) = {of(n, b) : b \in {c \in InsnAddrs : TextLines(n, c) # {}}}
    BY DEF TextEntries
  <1>6. TextEntries(n + 1) = {of(n + 1, b) : b \in {c \in InsnAddrs : TextLines(n + 1, c) # {}}}
    BY DEF TextEntries
  <1>7. CASE ~adds
    <2>1. \A b : TextLines(n + 1, b) = TextLines(n, b)
      BY <1>3, <1>7
    <2> HIDE DEF n, adds
    <2>2. TextEntries(n + 1) = TextEntries(n)
      BY <2>1, <1>5, <1>6
    <2> QED BY <2>2, <1>7 DEF n, adds
  <1>8. CASE adds
    <2> DEFINE addr == line.addr
    <2>1. addr \in InsnAddrs
      BY <1>1, <1>8, InsnLineIs
    <2>2. of(n + 1, addr) = Entry(addr, line.text) /\ TextLines(n + 1, addr) # {}
      <3>1. Latest(TextLines(n + 1, addr)) = n + 1 /\ n + 1 \in TextLines(n + 1, addr)
        BY <1>3, <1>4, <1>8
      <3> QED BY <3>1, <1>1
    <2>3. \A b : b # addr => TextLines(n + 1, b) = TextLines(n, b) /\ of(n + 1, b) = of(n, b)
      BY <1>3
    <2>4. \A m, b : of(m, b).addr = b
      BY EntryIs
    <2> HIDE DEF n, addr, adds, of
    <2>5. TextEntries(n + 1) = {h \in TextEntries(n) : h.addr # addr} \cup {Entry(addr, line.text)}
      <3>1. ASSUME NEW h \in TextEntries(n + 1) PROVE h \in {g \in TextEntries(n) : g.addr # addr} \cup {Entry(addr, line.text)}
        BY <1>5, <1>6, <2>2, <2>3, <2>4
      <3>2. ASSUME NEW h \in TextEntries(n), h.addr # addr PROVE h \in TextEntries(n + 1)
        <4>1. PICK b \in InsnAddrs : TextLines(n, b) # {} /\ h = of(n, b)
          BY <1>5
        <4>2. b # addr
          BY <3>2, <4>1, <2>4
        <4>3. TextLines(n + 1, b) # {} /\ h = of(n + 1, b)
          BY <4>1, <4>2, <2>3
        <4> QED BY <4>3, <1>6
      <3>3. Entry(addr, line.text) \in TextEntries(n + 1)
        BY <2>1, <2>2, <1>6
      <3> QED BY <3>1, <3>2, <3>3
    <2> QED BY <2>5, <1>8 DEF n, addr, adds
  <1> QED BY <1>7, <1>8

LEMMA TableInitially == Init => TableInv
  <1> SUFFICES ASSUME Init PROVE TableInv
    OBVIOUS
  <1>1. CommandInv
    <2>1. PICK command \in Commands : listing = command.listing /\ args = command.args
      BY DEF Init
    <2>2. Len(command.listing) \in Nat
      BY <2>1, CommandIs
    <2>3. lineNo = 0
      BY DEF Init
    <2>4. lineNo \in 0..Len(listing)
      BY <2>1, <2>2, <2>3
    <2> QED BY <2>1, <2>4 DEF CommandInv
  <1>2. table = Empty(InitialSize) /\ InitialSize \in Nat \ {0} /\ lineNo = 0
    BY TableAssumption DEF Init, assembly_create
  <1>3. TextEntries(0) = {}
    BY DEF TextEntries, TextLines
  <1> QED BY <1>1, <1>2, <1>3, EmptyTable DEF TableInv

LEMMA TableKept == TableInv /\ [Next]_vars => TableInv'
  <1> SUFFICES ASSUME TableInv, [Next]_vars PROVE TableInv'
    OBVIOUS
  <1>1. CommandInv /\ CommandInv'
    BY CommandKept DEF TableInv
  <1>2. listing' = listing
    BY DEF Next, vars, loaded, pass_args_to_program, ReadLine, Start, simulate
  <1>3. ASSUME NEW n PROVE TextEntries(n)' = {Entry(addr, listing[Latest(TextLines(n, addr))].text) : addr \in {b \in InsnAddrs : TextLines(n, b) # {}}}
    BY <1>2 DEF TextEntries, TextLines, Latest, Entry
  <1>4. CASE ReadLine
    <2>1. lineNo < Len(listing) /\ lineNo' = lineNo + 1
      BY <1>4 DEF ReadLine, NextLine
    <2>2. TextEntries(lineNo)' = TextEntries(lineNo + 1)
      BY <2>1, <1>2 DEF TextEntries, TextLines, Latest, Entry
    <2>3. IsLine(line)
      BY <1>1, <2>1, LineIs
    <2>4. CASE line.kind = "insn" /\ line.text # ""
      <3>1. table' = assembly_set(table, line.addr, line.text)
        BY <1>4, <2>4 DEF ReadLine, DataLine, InsnLine, StartLine, OtherLine
      <3>2. line.addr \in InsnAddrs /\ line.text \in STRING
        BY <2>3, <2>4, InsnLineIs
      <3>3. PICK t : t = table
        OBVIOUS
      <3>4. GoodTable(t) /\ Held(t) = TextEntries(lineNo)
        BY <3>3 DEF TableInv
      <3>5. GoodTable(table') /\ Held(table') = {h \in Held(t) : h.addr # line.addr} \cup {Entry(line.addr, line.text)}
        <4>1. PICK addr, text : addr = line.addr /\ text = line.text
          OBVIOUS
        <4>2. addr \in InsnAddrs /\ text \in STRING /\ table' = assembly_set(t, addr, text)
          BY <3>1, <3>2, <3>3, <4>1
        <4>3. GoodTable(assembly_set(t, addr, text)) /\ Held(assembly_set(t, addr, text)) = {h \in Held(t) : h.addr # addr} \cup {Entry(addr, text)}
          BY <3>4, <4>2, SetIs
        <4> QED BY <4>1, <4>2, <4>3
      <3>6. GoodTable(table)' /\ Held(table)' = TextEntries(lineNo)'
        BY <3>4, <3>5, <2>1, <2>2, <2>4, <1>1, NextEntries DEF GoodTable, Held
      <3> QED BY <3>6, <1>1 DEF TableInv
    <2>5. CASE ~(line.kind = "insn" /\ line.text # "")
      <3>1. table' = table
        BY <1>4, <2>5 DEF ReadLine, DataLine, InsnLine, StartLine, OtherLine
      <3> QED BY <3>1, <2>1, <2>2, <2>5, <1>1, NextEntries DEF TableInv, GoodTable, Held
    <2> QED BY <2>4, <2>5
  <1>5. CASE ~ReadLine
    <2>1. table' = table /\ lineNo' = lineNo
      BY <1>5 DEF Next, vars, loaded, pass_args_to_program, Start, simulate
    <2>2. TextEntries(lineNo)' = TextEntries(lineNo)
      BY <2>1, <1>2 DEF TextEntries, TextLines, Latest, Entry
    <2> QED BY <2>1, <2>2, <1>1 DEF TableInv, GoodTable, Held
  <1> QED BY <1>4, <1>5

LEMMA TableThen == TableInv => TableHasTheTexts
  <1> SUFFICES ASSUME TableInv, NEW addr \in InsnAddrs
               PROVE  assembly_get(table, addr) = IF TextLines(lineNo, addr) = {} THEN ""
                                                  ELSE listing[Latest(TextLines(lineNo, addr))].text
    BY DEF TableHasTheTexts, InsnAddrs, TextLines, Latest
  <1> DEFINE t == table
             texts == TextEntries(lineNo)
  <1>1. GoodTable(t) /\ Held(t) = texts
    BY DEF TableInv
  <1>2. /\ \A e \in Held(t) : e.addr = addr => assembly_get(t, addr) = e.text
        /\ (\A e \in Held(t) : e.addr # addr) => assembly_get(t, addr) = ""
    <2> HIDE DEF t
    <2> QED BY <1>1, GetIs
  <1>3. CASE TextLines(lineNo, addr) = {}
    <2>1. \A e \in texts : e.addr # addr
      BY <1>3, EntryIs DEF TextEntries
    <2> QED BY <1>1, <1>2, <1>3, <2>1
  <1>4. CASE TextLines(lineNo, addr) # {}
    <2> DEFINE e == Entry(addr, listing[Latest(TextLines(lineNo, addr))].text)
    <2>1. e \in texts
      BY <1>4 DEF TextEntries
    <2>2. e.addr = addr /\ e.text = listing[Latest(TextLines(lineNo, addr))].text
      BY EntryIs
    <2> HIDE DEF e, texts
    <2> QED BY <1>1, <1>2, <1>4, <2>1, <2>2
  <1> QED BY <1>3, <1>4

\* The table has the latest text of every address.
THEOREM LatestTexts == Spec => []TableHasTheTexts
  <1>1. TableInv /\ UNCHANGED vars => TableInv'
    BY TableKept
  <1> QED BY TableInitially, TableKept, TableThen, PTL DEF Spec

-----------------------------------------------------------------------------
(* Bytes that are written one by one                                        *)

LEMMA BytesWritten ==
  ASSUME NEW m, MemoryOK(m), NEW a \in Nat, NEW bs, Len(bs) \in Nat,
         \A k \in 1..Len(bs) : bs[k] \in 0..(ByteValues - 1), a + Len(bs) <= WordValues
  PROVE  /\ MemoryOK(WriteBytes(m, a, bs))
         /\ \A q \in 0..(WordValues - 1) :
              memory_rd_b(WriteBytes(m, a, bs), q) = IF q \in a..(a + Len(bs) - 1) THEN bs[q - a + 1] ELSE memory_rd_b(m, q)
  <1> DEFINE n == Len(bs)
             Is_(k, f) == f = [i \in 0..k |-> IF i = 0 THEN m ELSE memory_wr_b(f[i - 1], a + i - 1, bs[i])]
             T == {k \in 0..n : \E f : Is_(k, f)}
  <1> HIDE DEF n
  <1>n. n \in Nat
    BY DEF n
  <1>1. 0 \in T
    <2> DEFINE f == [i \in 0..0 |-> m]
    <2>1. f = [i \in 0..0 |-> IF i = 0 THEN m ELSE memory_wr_b(f[i - 1], a + i - 1, bs[i])]
      OBVIOUS
    <2> HIDE DEF f
    <2> QED BY <2>1, <1>n
  <1>2. ASSUME NEW k \in 0..(n - 1), k \in T PROVE k + 1 \in T
    <2>1. PICK f : Is_(k, f)
      BY <1>2
    <2> DEFINE g == [i \in 0..(k + 1) |-> IF i = 0 THEN m ELSE memory_wr_b(f[i - 1], a + i - 1, bs[i])]
    <2>2. \A i \in 0..k : i \in 0..(k + 1) /\ f[i] = IF i = 0 THEN m ELSE memory_wr_b(f[i - 1], a + i - 1, bs[i])
      BY <2>1
    <2>3. \A i \in 0..k : g[i] = f[i]
      BY <2>2
    <2>4. \A i \in 0..(k + 1) : i # 0 => i - 1 \in 0..k
      OBVIOUS
    <2>5. \A i \in 0..(k + 1) : i # 0 => g[i - 1] = f[i - 1]
      BY <2>3, <2>4
    <2>6. g = [i \in 0..(k + 1) |-> IF i = 0 THEN m ELSE memory_wr_b(g[i - 1], a + i - 1, bs[i])]
      BY <2>5
    <2> HIDE DEF g
    <2>7. Is_(k + 1, g)
      BY <2>6
    <2>8. k + 1 \in 0..n
      BY <1>n
    <2> QED BY <2>7, <2>8
  <1>3. n \in T
    <2> HIDE DEF T
    <2>1. 0..n \subseteq T
      BY <1>n, <1>1, <1>2, InductionUpTo
    <2> QED BY <2>1, <1>n
  <1>4. PICK f : WriteBytes(m, a, bs) = f[n] /\ Is_(n, f)
    <2> DEFINE F == CHOOSE f : Is_(n, f)
    <2>1. WriteBytes(m, a, bs) = F[n]
      BY DEF WriteBytes, n
    <2>2. Is_(n, F)
      <3> HIDE DEF Is_
      <3> QED BY <1>3
    <2> HIDE DEF F
    <2> QED BY <2>1, <2>2
  <1> DEFINE Done(k, q) == memory_rd_b(f[k], q) = IF q \in a..(a + k - 1) THEN bs[q - a + 1] ELSE memory_rd_b(m, q)
             U == {k \in 0..n : MemoryOK(f[k]) /\ \A q \in 0..(WordValues - 1) : Done(k, q)}
  <1>5. \A i \in 0..n : f[i] = IF i = 0 THEN m ELSE memory_wr_b(f[i - 1], a + i - 1, bs[i])
    BY <1>4
  <1>6. 0 \in U
    <2>1. f[0] = m /\ 0 \in 0..n
      BY <1>5, <1>n
    <2>2. \A q : q \notin a..(a + 0 - 1)
      OBVIOUS
    <2> QED BY <2>1, <2>2
  <1>7. ASSUME NEW k \in 0..(n - 1), k \in U PROVE k + 1 \in U
    <2>1. k + 1 \in 0..n /\ k + 1 # 0 /\ (k + 1) - 1 = k /\ k + 1 \in 1..Len(bs) /\ a + (k + 1) - 1 = a + k
      BY <1>n DEF n
    <2>2. PICK c, u : c = bs[k + 1] /\ u = a + k
      OBVIOUS
    <2>3. c \in 0..(ByteValues - 1) /\ u \in Int /\ u \in 0..(WordValues - 1)
      <3>1. u \in 0..(WordValues - 1)
        BY <2>2, <1>n, Numbers DEF n
      <3> QED BY <3>1, <2>1, <2>2
    <2>4. Unsigned(u) = u /\ c % ByteValues = c /\ c \in Int
      <3>1. Unsigned(u) = u
        BY <2>3, UnsignedWord
      <3> QED BY <3>1, <2>3, Numbers, SMTT(20)
    <2>5. PICK old, new : old = f[k] /\ new = f[k + 1]
      OBVIOUS
    <2>6. new = memory_wr_b(old, u, c)
      BY <2>1, <2>2, <2>5, <1>5
    <2>7. MemoryOK(old) /\ \A q \in 0..(WordValues - 1) : memory_rd_b(old, q) = IF q \in a..(a + k - 1) THEN bs[q - a + 1] ELSE memory_rd_b(m, q)
      BY <1>7, <2>5
    <2>8. MemoryOK(new) /\ \A q \in 0..(WordValues - 1) : memory_rd_b(new, q) = IF q = u THEN c ELSE memory_rd_b(old, q)
      <3>1. /\ MemoryOK(memory_wr_b(old, u, c))
            /\ \A q \in 0..(WordValues - 1) :
                 memory_rd_b(memory_wr_b(old, u, c), q) = IF q = Unsigned(u) THEN c % ByteValues ELSE memory_rd_b(old, q)
        BY <2>3, <2>4, <2>7, ByteWritten
      <3> QED BY <3>1, <2>4, <2>6
    <2>9. ASSUME NEW q \in 0..(WordValues - 1) PROVE Done(k + 1, q)
      <3>1. q \in Int /\ (q \in a..(a + (k + 1) - 1) <=> q \in a..(a + k - 1) \/ q = u) /\ (q = u => q - a + 1 = k + 1 /\ q \notin a..(a + k - 1))
        BY <2>2, Numbers
      <3> QED BY <3>1, <2>2, <2>5, <2>7, <2>8
    <2> HIDE DEF Done
    <2> QED BY <2>1, <2>5, <2>8, <2>9
  <1>8. n \in U
    <2> HIDE DEF U
    <2>1. 0..n \subseteq U
      BY <1>n, <1>6, <1>7, InductionUpTo
    <2> QED BY <2>1, <1>n
  <1> QED BY <1>4, <1>8 DEF n

-----------------------------------------------------------------------------
(* The arguments                                                            *)

\* Where the strings end: the k-th is behind the others.
Lengths  == [k \in DOMAIN args |-> Len(args[k]) + 1]
StringsTo(k) == StringsStart + SumOver(1..k, Lengths)

LEMMA ArgsAre ==
  ASSUME args \in Seq(Seq(1..(ByteValues - 1)))
  PROVE  /\ Len(args) \in Nat /\ DOMAIN args = 1..Len(args)
         /\ \A k \in DOMAIN args : /\ Len(args[k]) \in Nat /\ DOMAIN args[k] = 1..Len(args[k])
                                   /\ \A j \in DOMAIN args[k] : args[k][j] \in 1..(ByteValues - 1)
  <1>1. Len(args) \in Nat /\ DOMAIN args = 1..Len(args) /\ \A k \in DOMAIN args : args[k] \in Seq(1..(ByteValues - 1))
    OBVIOUS
  <1>2. ASSUME NEW B, NEW s \in Seq(B)
        PROVE  Len(s) \in Nat /\ DOMAIN s = 1..Len(s) /\ \A j \in DOMAIN s : s[j] \in B
    OBVIOUS
  <1>3. PICK B : B = 1..(ByteValues - 1)
    OBVIOUS
  <1> QED BY <1>1, <1>2, <1>3

LEMMA StringsAre ==
  ASSUME args \in Seq(Seq(1..(ByteValues - 1)))
  PROVE  /\ StringsTo(0) = StringsStart /\ StringsStart \in Nat
         /\ \A k \in 1..Len(args) : /\ StringsTo(k) = StringsTo(k - 1) + Len(args[k]) + 1
                                    /\ StringsTo(k - 1) \in Nat /\ StringsTo(k - 1) >= StringsStart
         /\ ArgExtent(args) = ArgBase..(StringsTo(Len(args)) - 1)
         /\ \A j, k \in 0..Len(args) : j <= k => StringsTo(j) <= StringsTo(k)
         /\ StringsTo(Len(args)) \in Nat
  <1> DEFINE n == Len(args)
  <1>1. n \in Nat /\ DOMAIN args = 1..n /\ \A k \in 1..n : Len(args[k]) \in Nat
    BY ArgsAre
  <1>2. StringsStart \in Nat /\ ArgBase \in Nat /\ StringsStart = ArgBase + 4 + 4 * n
    <2>1. ArgBase \in Nat
      BY CommandsAssumption, Zenon
    <2> QED BY <2>1, <1>1 DEF StringsStart
  <1> HIDE DEF n
  <1>3. Lengths = [k \in 1..n |-> Len(args[k]) + 1]
    BY <1>1 DEF Lengths
  <1>4. \A k \in 1..n : Lengths[k] = Len(args[k]) + 1 /\ Lengths[k] \in Nat \ {0}
    BY <1>1, <1>3
  <1>5. ASSUME NEW k \in 0..n PROVE IsFiniteSet(1..k) /\ IntOn(Lengths, 1..k) /\ SumOver(1..k, Lengths) \in Nat
    <2>1. IsFiniteSet(1..k) /\ \A j \in 1..k : Lengths[j] \in Nat
      <3>1. k \in Int /\ 1..k \subseteq 1..n
        BY <1>1
      <3> QED BY <3>1, <1>4, FS_Interval
    <2>2. PICK S, f : S = 1..k /\ f = Lengths
      OBVIOUS
    <2>3. SumOver(S, f) \in Nat
      BY <2>1, <2>2, SumOfNat
    <2> QED BY <2>1, <2>2, <2>3 DEF IntOn
  <1>6. StringsTo(0) = StringsStart
    <2>1. 1..0 = {}
      OBVIOUS
    <2> QED BY <2>1, <1>2, SumOfNone DEF StringsTo
  <1>7. ASSUME NEW k \in 0..n PROVE StringsTo(k) \in Nat /\ StringsTo(k) >= StringsStart
    BY <1>2, <1>5 DEF StringsTo
  <1>8. ASSUME NEW k \in 1..n PROVE StringsTo(k) = StringsTo(k - 1) + Len(args[k]) + 1 /\ k - 1 \in 0..n
    <2>1. PICK S, f : S = 1..k /\ f = Lengths
      OBVIOUS
    <2>2. IsFiniteSet(S) /\ IntOn(f, S) /\ k \in S /\ k \in 0..n /\ k - 1 \in 0..n
      <3>1. k \in 0..n /\ k \in S /\ k - 1 \in 0..n
        BY <1>1, <2>1
      <3> QED BY <3>1, <2>1, <1>5
    <2>3. SumOver(S, f) = f[k] + SumOver(S \ {k}, f)
      BY <2>2, SumTakes
    <2>4. S \ {k} = 1..(k - 1)
      BY <2>1
    <2>5. SumOver(1..k, Lengths) = (Len(args[k]) + 1) + SumOver(1..(k - 1), Lengths)
      BY <2>1, <2>3, <2>4, <1>4
    <2>6. SumOver(1..(k - 1), Lengths) \in Nat /\ SumOver(1..k, Lengths) \in Nat /\ Len(args[k]) \in Nat
      BY <2>2, <1>1, <1>5
    <2>7. StringsTo(k) = StringsStart + SumOver(1..k, Lengths) /\ StringsTo(k - 1) = StringsStart + SumOver(1..(k - 1), Lengths)
      BY Zenon DEF StringsTo
    <2>8. PICK s, x, y, l \in Int : s = StringsStart /\ x = SumOver(1..k, Lengths) /\ y = SumOver(1..(k - 1), Lengths) /\ l = Len(args[k])
      BY <2>6, <1>2
    <2>9. StringsTo(k) = s + x /\ StringsTo(k - 1) = s + y /\ x = (l + 1) + y
      BY <2>5, <2>7, <2>8, Zenon
    <2>10. s + x = (s + y) + l + 1
      BY <2>9
    <2> QED BY <2>2, <2>8, <2>9, <2>10, Zenon
  <1>9. ASSUME NEW j \in 0..n PROVE \A k \in 0..n : j <= k => StringsTo(j) <= StringsTo(k)
    <2> DEFINE T == {k \in 0..n : j <= k => StringsTo(j) <= StringsTo(k)}
    <2>1. 0 \in T
      BY <1>1, <1>7
    <2>2. ASSUME NEW k \in 0..(n - 1), k \in T PROVE k + 1 \in T
      <3>1. k + 1 \in 1..n /\ (k + 1) - 1 = k /\ k \in 0..n /\ k + 1 \in 0..n
        BY <1>1
      <3>2. StringsTo(k + 1) = StringsTo(k) + Len(args[k + 1]) + 1 /\ Len(args[k + 1]) \in Nat
        BY <3>1, <1>1, <1>8
      <3>3. StringsTo(k) \in Nat /\ StringsTo(j) \in Nat
        BY <3>1, <1>7
      <3> QED BY <2>2, <3>1, <3>2, <3>3
    <2>3. 0..n \subseteq T
      <3> HIDE DEF T
      <3> QED BY <1>1, <2>1, <2>2, InductionUpTo
    <2> QED BY <2>3
  <1>10. ArgExtent(args) = ArgBase..(StringsTo(n) - 1)
    <2>1. SumOver(DOMAIN args, [k \in DOMAIN args |-> Len(args[k]) + 1]) = SumOver(1..n, Lengths) /\ n \in 0..n
      BY <1>1 DEF Lengths
    <2>2. SumOver(1..n, Lengths) \in Nat
      BY <2>1, <1>5
    <2>3. ArgBase + 3 + 4 * n + SumOver(1..n, Lengths) = StringsTo(n) - 1
      BY <2>2, <1>1, <1>2 DEF StringsTo
    <2> QED BY <2>1, <2>3 DEF ArgExtent, n
  <1>11. n \in 0..n
    BY <1>1
  <1> QED BY <1>1, <1>2, <1>6, <1>7, <1>8, <1>9, <1>10, <1>11 DEF n

LEMMA StringAtIs ==
  ASSUME args \in Seq(Seq(1..(ByteValues - 1)))
  PROVE  \A k \in 1..Len(args) : StringAt[k] = StringsTo(k - 1)
  <1> DEFINE n == Len(args)
             f == [k \in 1..n |-> StringsTo(k - 1)]
             Body(g) == [k \in 1..n |-> IF k = 1 THEN StringsStart ELSE g[k - 1] + Len(args[k - 1]) + 1]
  <1>1. n \in Nat /\ StringsTo(0) = StringsStart /\ \A k \in 1..n : StringsTo(k) = StringsTo(k - 1) + Len(args[k]) + 1
    BY ArgsAre, StringsAre
  <1>2. StringAt = CHOOSE g : g = Body(g)
    BY DEF StringAt
  <1> HIDE DEF n
  <1>3. f = Body(f)
    <2>1. \A k \in 1..n : f[k] = StringsTo(k - 1)
      OBVIOUS
    <2>2. ASSUME NEW k \in 1..n PROVE f[k] = IF k = 1 THEN StringsStart ELSE f[k - 1] + Len(args[k - 1]) + 1
      <3>1. CASE k = 1
        BY <2>1, <3>1, <1>1
      <3>2. CASE k # 1
        <4>1. k - 1 \in 1..n
          BY <3>2, <1>1
        <4>2. f[k - 1] = StringsTo((k - 1) - 1) /\ StringsTo(k - 1) = StringsTo((k - 1) - 1) + Len(args[k - 1]) + 1
          BY <2>1, <4>1, <1>1
        <4> QED BY <2>1, <3>2, <4>2
      <3> QED BY <3>1, <3>2
    <2> QED BY <2>2
  <1>4. StringAt = Body(StringAt)
    <2> HIDE DEF Body, f
    <2> QED BY <1>2, <1>3
  <1>5. \A k \in 1..n : StringAt[k] = IF k = 1 THEN StringsStart ELSE StringAt[k - 1] + Len(args[k - 1]) + 1
    <2>1. PICK g : g = StringAt
      OBVIOUS
    <2>2. g = Body(g)
      BY <2>1, <1>4
    <2> QED BY <2>1, <2>2
  <1> DEFINE T == {k \in 0..n : k # 0 => StringAt[k] = StringsTo(k - 1)}
  <1>6. 0 \in T
    BY <1>1
  <1>7. ASSUME NEW k \in 0..(n - 1), k \in T PROVE k + 1 \in T
    <2>1. k + 1 \in 1..n /\ k + 1 \in 0..n /\ (k + 1) - 1 = k /\ (k + 1 = 1 <=> k = 0)
      BY <1>1
    <2>2. CASE k = 0
      BY <2>1, <2>2, <1>1, <1>5
    <2>3. CASE k # 0
      <3>1. k \in 1..n /\ StringAt[k] = StringsTo(k - 1)
        BY <2>3, <1>1, <1>7
      <3> QED BY <2>1, <2>3, <3>1, <1>1, <1>5
    <2> QED BY <2>2, <2>3
  <1>8. 0..n \subseteq T
    <2> HIDE DEF T
    <2> QED BY <1>1, <1>6, <1>7, InductionUpTo
  <1>9. ASSUME NEW k \in 1..n PROVE StringAt[k] = StringsTo(k - 1)
    <2>1. k \in T /\ k # 0
      BY <1>1, <1>8
    <2> QED BY <2>1
  <1> QED BY <1>9 DEF n

\* The same bytes, the same word.
LEMMA ReadKept ==
  ASSUME NEW m, MemoryOK(m), NEW n, MemoryOK(n), NEW u \in 0..(WordValues - 1), u % 4 = 0,
         \A i \in 0..3 : memory_rd_b(n, u + i) = memory_rd_b(m, u + i)
  PROVE  memory_rd_w(n, u) = memory_rd_w(m, u)
  <1>1. /\ memory_rd_b(n, u) = memory_rd_b(m, u) /\ memory_rd_b(n, u + 1) = memory_rd_b(m, u + 1)
        /\ memory_rd_b(n, u + 2) = memory_rd_b(m, u + 2) /\ memory_rd_b(n, u + 3) = memory_rd_b(m, u + 3)
    <2>1. u + 0 = u /\ 0 \in 0..3 /\ 1 \in 0..3 /\ 2 \in 0..3 /\ 3 \in 0..3
      BY Numbers
    <2> QED BY <2>1
  <1>2. Word(m, u) = (memory_rd_b(m, u) + ByteValues * memory_rd_b(m, u + 1))
                       + (memory_rd_b(m, u + 2) + ByteValues * memory_rd_b(m, u + 3)) * (ByteValues * ByteValues)
    BY WordRead
  <1>3. Word(n, u) = (memory_rd_b(n, u) + ByteValues * memory_rd_b(n, u + 1))
                       + (memory_rd_b(n, u + 2) + ByteValues * memory_rd_b(n, u + 3)) * (ByteValues * ByteValues)
    BY WordRead
  <1> QED BY <1>1, <1>2, <1>3 DEF memory_rd_w

\* A word that has been written, and the others.
LEMMA WriteThenRead ==
  ASSUME NEW m, MemoryOK(m), NEW u \in 0..(WordValues - 1), u % 4 = 0, NEW d \in 0..(WordValues \div 2 - 1)
  PROVE  LET n == memory_wr_w(m, u, d) IN
         /\ MemoryOK(n) /\ memory_rd_w(n, u) = d
         /\ \A q \in 0..(WordValues - 1) \ (u..(u + 3)) : memory_rd_b(n, q) = memory_rd_b(m, q)
  <1> DEFINE n == memory_wr_w(m, u, d)
  <1>1. u \in Int /\ d \in Int /\ d \in Words
    BY Numbers DEF Words
  <1>2. Unsigned(u) = u /\ Signed(d) = d
    BY <1>1, UnsignedWord, SignedWord
  <1>3. MemoryOK(n) /\ Word(n, u) = Unsigned(d)
    BY <1>1, WordSet DEF memory_wr_w
  <1>4. memory_rd_w(n, u) = d
    <2>1. Unsigned(Unsigned(d)) = Unsigned(d) /\ Unsigned(d) \in Int
      BY <1>1, UnsignedIs
    <2>2. Signed(Unsigned(d)) = Signed(d)
      BY <2>1, <1>1, SameBits
    <2> QED BY <2>2, <1>2, <1>3 DEF memory_rd_w
  <1>5. ASSUME NEW q \in 0..(WordValues - 1) \ (u..(u + 3)) PROVE memory_rd_b(n, q) = memory_rd_b(m, q)
    <2>1. \A p \in 0..(WordValues - 1) :
            memory_rd_b(n, p) = WordStored(m, u, d, p)
      BY <1>1, WordWritten
    <2> QED BY <2>1, <1>2 DEF WordStored
  <1> QED BY <1>3, <1>4, <1>5

\* The i-th argument is where the pointer to it says.
ArgThere(m, i) ==
  /\ memory_rd_w(m, ArgBase + 4 * i) = StringsTo(i - 1)
  /\ \A j \in 1..Len(args[i]) : memory_rd_b(m, StringsTo(i - 1) + j - 1) = args[i][j]
  /\ memory_rd_b(m, StringsTo(i - 1) + Len(args[i])) = 0

ArgsThere(m, k) == memory_rd_w(m, ArgBase) = Len(args) /\ \A i \in 1..k : ArgThere(m, i)

\* Where the pointers and the strings are.
LEMMA ArgPlaces ==
  ASSUME CommandInv
  PROVE  /\ ArgBase \in Nat /\ ArgBase % 4 = 0 /\ Len(args) \in Nat /\ StringsStart = ArgBase + 4 + 4 * Len(args)
         /\ StringsTo(Len(args)) <= WordValues \div 2 /\ StringsStart <= StringsTo(Len(args))
         /\ ArgExtent(args) = ArgBase..(StringsTo(Len(args)) - 1)
         /\ \A i \in 0..Len(args) : /\ ArgBase + 4 * i \in Nat /\ (ArgBase + 4 * i) % 4 = 0
                                    /\ ArgBase + 4 * i + 3 < StringsStart /\ ArgBase + 4 * i \in 0..(WordValues - 1)
                                    /\ StringsTo(i) \in Nat /\ StringsTo(i) >= StringsStart
  <1>1. ArgBase \in Nat /\ ArgBase % 4 = 0
    BY CommandsAssumption, Zenon
  <1>2. args \in Seq(Seq(1..(ByteValues - 1))) /\ ArgExtent(args) \subseteq 0..(WordValues \div 2 - 1)
    BY ListingIs
  <1>3. Len(args) \in Nat
    BY <1>2, ArgsAre
  <1>4. ArgExtent(args) = ArgBase..(StringsTo(Len(args)) - 1) /\ StringsTo(0) = StringsStart
        /\ \A j, k \in 0..Len(args) : j <= k => StringsTo(j) <= StringsTo(k)
    BY <1>2, StringsAre
  <1>5. ASSUME NEW i \in 0..Len(args) PROVE StringsTo(i) \in Nat
    <2>1. CASE i = Len(args)
      BY <2>1, <1>2, StringsAre
    <2>2. CASE i # Len(args)
      <3>1. i + 1 \in 1..Len(args) /\ (i + 1) - 1 = i
        BY <2>2, <1>3
      <3>2. \A k \in 1..Len(args) : StringsTo(k - 1) \in Nat
        BY <1>2, StringsAre
      <3> QED BY <3>1, <3>2
    <2> QED BY <2>1, <2>2
  <1>6. StringsStart = ArgBase + 4 + 4 * Len(args)
    BY DEF StringsStart
  <1>7. \A i \in 0..Len(args) : 0 <= i /\ i <= Len(args) /\ StringsTo(i) >= StringsStart
    <2>1. 0 \in 0..Len(args)
      BY <1>3
    <2> QED BY <2>1, <1>3, <1>4
  <1>8. StringsTo(Len(args)) <= WordValues \div 2 /\ StringsStart <= StringsTo(Len(args))
    <2>1. PICK top : top = StringsTo(Len(args)) /\ top \in Nat /\ top >= StringsStart
      <3>1. Len(args) \in 0..Len(args)
        BY <1>3
      <3> QED BY <3>1, <1>5, <1>7
    <2>2. top - 1 \in ArgBase..(top - 1)
      BY <2>1, <1>1, <1>3, <1>6
    <2>3. top - 1 \in 0..(WordValues \div 2 - 1)
      BY <2>1, <2>2, <1>2, <1>4
    <2> QED BY <2>1, <2>3, <1>1, <1>3, <1>6, Numbers
  <1>9. ASSUME NEW i \in 0..Len(args)
        PROVE  /\ ArgBase + 4 * i \in Nat /\ (ArgBase + 4 * i) % 4 = 0
               /\ ArgBase + 4 * i + 3 < StringsStart /\ ArgBase + 4 * i \in 0..(WordValues - 1)
    <2>1. ArgBase + 4 * i \in Nat /\ (ArgBase + 4 * i) % 4 = 0 /\ ArgBase + 4 * i + 3 < StringsStart
      BY <1>1, <1>3, <1>6
    <2>2. PICK top : top = StringsTo(Len(args)) /\ top \in Nat
      <3>1. Len(args) \in 0..Len(args)
        BY <1>3
      <3> QED BY <3>1, <1>5
    <2> QED BY <2>1, <2>2, <1>1, <1>3, <1>6, <1>8, Numbers
  <1> QED BY <1>1, <1>3, <1>4, <1>5, <1>6, <1>7, <1>8, <1>9

\* If the bytes below a string's end are the same, the arguments are still there.
LEMMA ArgsKept ==
  ASSUME CommandInv, NEW k \in 0..Len(args), NEW m, MemoryOK(m), NEW n, MemoryOK(n), ArgsThere(m, k),
         \A i \in 0..k : \A q \in (ArgBase + 4 * i)..(ArgBase + 4 * i + 3) : memory_rd_b(n, q) = memory_rd_b(m, q),
         \A q \in StringsStart..(StringsTo(k) - 1) : memory_rd_b(n, q) = memory_rd_b(m, q)
  PROVE  ArgsThere(n, k)
  <1>1. ASSUME NEW i \in 0..k PROVE memory_rd_w(n, ArgBase + 4 * i) = memory_rd_w(m, ArgBase + 4 * i)
    <2>1. PICK u : u = ArgBase + 4 * i
      OBVIOUS
    <2>2. i \in 0..Len(args)
      BY ArgPlaces
    <2>3. u \in 0..(WordValues - 1) /\ u % 4 = 0 /\ u \in Nat
      BY <2>1, <2>2, ArgPlaces
    <2>4. \A q \in u..(u + 3) : memory_rd_b(n, q) = memory_rd_b(m, q)
      BY <2>1
    <2>5. \A j \in 0..3 : memory_rd_b(n, u + j) = memory_rd_b(m, u + j)
      BY <2>3, <2>4
    <2> QED BY <2>1, <2>3, <2>5, ReadKept
  <1>2. memory_rd_w(n, ArgBase) = Len(args)
    <2>1. ArgBase + 4 * 0 = ArgBase /\ 0 \in 0..k
      BY ArgPlaces
    <2> QED BY <2>1, <1>1 DEF ArgsThere
  <1>3. ASSUME NEW i \in 1..k PROVE ArgThere(n, i)
    <2>1. ArgThere(m, i)
      BY DEF ArgsThere
    <2>2. i \in 0..k /\ i \in 1..Len(args) /\ i \in 0..Len(args) /\ i - 1 \in 0..Len(args) /\ k \in 0..Len(args) /\ i <= k
      <3>1. Len(args) \in Nat
        BY ArgPlaces
      <3> QED BY <3>1
    <2>3. args \in Seq(Seq(1..(ByteValues - 1)))
      BY ListingIs
    <2>4. StringsTo(i) = StringsTo(i - 1) + Len(args[i]) + 1 /\ StringsTo(i) <= StringsTo(k)
      <3>1. StringsTo(i) = StringsTo(i - 1) + Len(args[i]) + 1
        BY <2>2, <2>3, StringsAre
      <3>2. \A j, h \in 0..Len(args) : j <= h => StringsTo(j) <= StringsTo(h)
        BY <2>3, StringsAre
      <3> QED BY <3>1, <3>2, <2>2, SMTT(20)
    <2>5. StringsTo(i - 1) \in Nat /\ StringsTo(i - 1) >= StringsStart /\ Len(args[i]) \in Nat /\ StringsTo(k) \in Nat /\ StringsStart \in Nat
      <3>1. \A j \in 0..Len(args) : StringsTo(j) \in Nat /\ StringsTo(j) >= StringsStart
        BY ArgPlaces
      <3>2. Len(args[i]) \in Nat /\ StringsStart \in Nat
        BY <2>2, <2>3, ArgsAre, StringsAre
      <3> QED BY <2>2, <3>1, <3>2
    <2>6. \A j \in 1..Len(args[i]) : StringsTo(i - 1) + j - 1 \in StringsStart..(StringsTo(k) - 1)
      BY <2>4, <2>5, SMTT(30)
    <2>7. StringsTo(i - 1) + Len(args[i]) \in StringsStart..(StringsTo(k) - 1)
      BY <2>4, <2>5, SMTT(30)
    <2> QED BY <1>1, <2>1, <2>2, <2>6, <2>7 DEF ArgThere
  <1> QED BY <1>2, <1>3 DEF ArgsThere

\* One more argument.
LEMMA ArgPassed ==
  ASSUME CommandInv, NEW k \in 0..(Len(args) - 1), NEW m, MemoryOK(m), ArgsThere(m, k), NEW n,
         n = WriteBytes(memory_wr_w(m, ArgBase + 4 * (k + 1), StringsTo(k)), StringsTo(k), Append(args[k + 1], 0))
  PROVE  /\ MemoryOK(n) /\ ArgsThere(n, k + 1)
         /\ \A q \in 0..(WordValues - 1) : q \notin ArgExtent(args) => memory_rd_b(n, q) = memory_rd_b(m, q)
  <1>1. args \in Seq(Seq(1..(ByteValues - 1))) /\ Len(args) \in Nat
    BY ListingIs, ArgPlaces
  <1>2. k + 1 \in 1..Len(args) /\ k + 1 \in 0..Len(args) /\ (k + 1) - 1 = k /\ k \in 0..Len(args) /\ k \in Nat
    BY <1>1
  <1>3. PICK u, v, s, L, top : /\ u = ArgBase + 4 * (k + 1) /\ v = StringsTo(k) /\ s = args[k + 1] /\ L = Len(s)
                               /\ top = StringsTo(k + 1)
    OBVIOUS
  <1>4. L \in Nat /\ \A j \in 1..L : s[j] \in 1..(ByteValues - 1)
    BY <1>1, <1>2, <1>3, ArgsAre
  <1>5. s \in Seq(1..(ByteValues - 1))
    BY <1>1, <1>2, <1>3
  <1>6. PICK bs : bs = Append(s, 0)
    OBVIOUS
  <1>7. Len(bs) = L + 1 /\ (\A j \in 1..L : bs[j] = s[j]) /\ bs[L + 1] = 0
    <2>1. s \in Seq(Nat)
      BY <1>4, <1>5, Numbers
    <2> QED BY <2>1, <1>3, <1>4, <1>6
  <1>8. top = v + L + 1 /\ v \in Nat /\ top \in Nat /\ v >= StringsStart /\ StringsStart \in Nat /\ top <= WordValues \div 2
    <2>1. top = v + L + 1
      BY <1>1, <1>2, <1>3, StringsAre
    <2>2. \A j, h \in 0..Len(args) : j <= h => StringsTo(j) <= StringsTo(h)
      BY <1>1, StringsAre
    <2>3. Len(args) \in 0..Len(args) /\ k + 1 <= Len(args)
      BY <1>1, <1>2
    <2>4. top <= StringsTo(Len(args)) /\ StringsTo(Len(args)) <= WordValues \div 2 /\ StringsTo(Len(args)) \in Nat
      BY <2>2, <2>3, <1>2, <1>3, ArgPlaces
    <2>5. v \in Nat /\ top \in Nat /\ v >= StringsStart /\ StringsStart \in Nat
      <3>1. \A j \in 0..Len(args) : StringsTo(j) \in Nat /\ StringsTo(j) >= StringsStart
        BY ArgPlaces
      <3>2. StringsStart \in Nat
        BY <1>1, StringsAre
      <3> QED BY <1>2, <1>3, <3>1, <3>2
    <2> QED BY <2>1, <2>4, <2>5, Numbers
  <1>9. u \in 0..(WordValues - 1) /\ u % 4 = 0 /\ u \in Nat /\ u + 3 < StringsStart /\ v \in 0..(WordValues \div 2 - 1)
    <2>1. u \in 0..(WordValues - 1) /\ u % 4 = 0 /\ u \in Nat /\ u + 3 < StringsStart
      BY <1>2, <1>3, ArgPlaces
    <2> QED BY <2>1, <1>4, <1>8, Numbers
  <1>10. PICK p : p = memory_wr_w(m, u, v)
    OBVIOUS
  <1>11. /\ MemoryOK(p) /\ memory_rd_w(p, u) = v
         /\ \A q \in 0..(WordValues - 1) \ (u..(u + 3)) : memory_rd_b(p, q) = memory_rd_b(m, q)
    BY <1>9, <1>10, WriteThenRead
  <1>12. /\ MemoryOK(n)
         /\ \A q \in 0..(WordValues - 1) : memory_rd_b(n, q) = IF q \in v..(top - 1) THEN bs[q - v + 1] ELSE memory_rd_b(p, q)
    <2>1. n = WriteBytes(p, v, bs)
      BY <1>3, <1>6, <1>10
    <2>2. \A j \in 1..Len(bs) : bs[j] \in 0..(ByteValues - 1)
      <3>1. \A j \in 1..Len(bs) : j \in 1..L \/ j = L + 1
        BY <1>4, <1>7
      <3> QED BY <3>1, <1>4, <1>7, Numbers
    <2>3. Len(bs) \in Nat /\ v + Len(bs) <= WordValues /\ v + Len(bs) - 1 = top - 1
      BY <1>4, <1>7, <1>8, Numbers
    <2>4. /\ MemoryOK(WriteBytes(p, v, bs))
          /\ \A q \in 0..(WordValues - 1) :
               memory_rd_b(WriteBytes(p, v, bs), q) = IF q \in v..(v + Len(bs) - 1) THEN bs[q - v + 1] ELSE memory_rd_b(p, q)
      BY <1>8, <1>11, <2>2, <2>3, BytesWritten
    <2> QED BY <2>1, <2>3, <2>4
  <1>13. ArgsThere(n, k)
    <2>1. ASSUME NEW q \in 0..(WordValues - 1), q \notin u..(u + 3), q < v PROVE memory_rd_b(n, q) = memory_rd_b(m, q)
      <3>1. q \notin v..(top - 1)
        BY <2>1, <1>8
      <3> QED BY <3>1, <2>1, <1>11, <1>12
    <2>2. ASSUME NEW i \in 0..k, NEW q \in (ArgBase + 4 * i)..(ArgBase + 4 * i + 3) PROVE memory_rd_b(n, q) = memory_rd_b(m, q)
      <3>1. i \in 0..Len(args)
        BY <1>2
      <3>2. ArgBase + 4 * i \in Nat /\ ArgBase + 4 * i + 3 < StringsStart /\ ArgBase \in Nat
        BY <3>1, ArgPlaces
      <3>3. q \in 0..(WordValues - 1) /\ q < v /\ q \notin u..(u + 3)
        BY <3>2, <1>2, <1>3, <1>4, <1>8, Numbers
      <3> QED BY <2>1, <3>3
    <2>3. ASSUME NEW q \in StringsStart..(StringsTo(k) - 1) PROVE memory_rd_b(n, q) = memory_rd_b(m, q)
      <3>1. q \in Int /\ q >= StringsStart /\ q <= v - 1
        BY <1>3, <1>8
      <3>2. q \in 0..(WordValues - 1) /\ q < v /\ q \notin u..(u + 3)
        BY <3>1, <1>4, <1>8, <1>9, Numbers
      <3> QED BY <2>1, <3>2
    <2> QED BY <2>2, <2>3, <1>2, <1>12, ArgsKept
  <1>14. ArgThere(n, k + 1)
    <2>1. memory_rd_w(n, u) = v
      <3>1. \A i \in 0..3 : u + i \in 0..(WordValues - 1) /\ u + i \notin v..(top - 1)
        BY <1>4, <1>8, <1>9, Numbers
      <3>2. \A i \in 0..3 : memory_rd_b(n, u + i) = memory_rd_b(p, u + i)
        BY <3>1, <1>12
      <3> QED BY <3>2, <1>9, <1>11, <1>12, ReadKept
    <2>2. ASSUME NEW j \in 1..(L + 1) PROVE memory_rd_b(n, v + j - 1) = bs[j]
      <3>1. v + j - 1 \in 0..(WordValues - 1) /\ v + j - 1 \in v..(top - 1) /\ (v + j - 1) - v + 1 = j
        BY <1>4, <1>8, Numbers
      <3> QED BY <3>1, <1>12
    <2>3. \A j \in 1..L : memory_rd_b(n, v + j - 1) = s[j]
      <3>1. \A j \in 1..L : j \in 1..(L + 1)
        BY <1>4
      <3> QED BY <3>1, <2>2, <1>7
    <2>4. memory_rd_b(n, v + L) = 0
      <3>1. L + 1 \in 1..(L + 1) /\ v + (L + 1) - 1 = v + L
        BY <1>4, <1>8
      <3> QED BY <3>1, <2>2, <1>7
    <2> QED BY <2>1, <2>3, <2>4, <1>2, <1>3 DEF ArgThere
  <1>15. ArgsThere(n, k + 1)
    <2>1. \A i \in 1..(k + 1) : i \in 1..k \/ i = k + 1
      BY <1>2
    <2> QED BY <2>1, <1>13, <1>14 DEF ArgsThere
  <1>16. ASSUME NEW q \in 0..(WordValues - 1), q \notin ArgExtent(args) PROVE memory_rd_b(n, q) = memory_rd_b(m, q)
    <2>1. PICK total : total = StringsTo(Len(args)) /\ total \in Nat /\ total >= top /\ ArgExtent(args) = ArgBase..(total - 1) /\ ArgBase \in Nat
      <3>1. \A j, h \in 0..Len(args) : j <= h => StringsTo(j) <= StringsTo(h)
        BY <1>1, StringsAre
      <3>2. Len(args) \in 0..Len(args) /\ k + 1 <= Len(args)
        BY <1>1, <1>2
      <3> QED BY <3>1, <3>2, <1>2, <1>3, ArgPlaces
    <2>2. q \notin u..(u + 3) /\ q \notin v..(top - 1)
      <3>1. q < ArgBase \/ q >= total
        BY <1>16, <2>1, Numbers
      <3>2. u >= ArgBase /\ v >= ArgBase
        <4>1. ArgBase \in Nat /\ k + 1 \in Nat
          BY <2>1, <1>2
        <4>2. u >= ArgBase
          BY <4>1, <1>3
        <4>3. v > u
          BY <1>8, <1>9
        <4> QED BY <4>1, <4>2, <4>3, <1>8, <1>9
      <3> QED BY <3>1, <3>2, <2>1, <1>4, <1>8, <1>9, Numbers
    <2> QED BY <2>2, <1>11, <1>12
  <1> QED BY <1>12, <1>15, <1>16

LEMMA EmptyMemory ==
  /\ MemoryOK(memory_create)
  /\ \A q \in 0..(WordValues - 1) : memory_rd_b(memory_create, q) = 0
  /\ \A u \in 0..(WordValues - 1) : memory_rd_w(memory_create, u) = 0
  <1>1. MemoryOK(memory_create) /\ \A p : p \notin DOMAIN memory_create
    BY DEF memory_create, MemoryOK
  <1>2. PICK m : m = memory_create
    OBVIOUS
  <1>3. ASSUME NEW q \in 0..(WordValues - 1) PROVE Word(m, q) = 0 /\ memory_rd_b(m, q) = 0 /\ memory_rd_w(m, q) = 0
    <2>1. q \in Int
      BY Numbers
    <2>2. Word(m, q) = 0
      BY <1>1, <1>2, <2>1, WordIs
    <2>3. q % 4 \in 0..3
      BY <2>1
    <2>4. Digit(0, q % 4) = 0
      <3>1. \A k \in 0..3 : Digit(0, k) = 0
        BY Places4, Weights, Numbers DEF Digit
      <3> QED BY <2>3, <3>1
    <2>5. memory_rd_b(m, q) = Digit(Word(m, q), q % 4)
      BY <1>1, <1>2, <2>1, ByteIs
    <2>6. Signed(0) = 0
      <3>1. 0 \in Words
        BY Numbers DEF Words
      <3> QED BY <3>1, SignedWord
    <2> QED BY <2>2, <2>4, <2>5, <2>6 DEF memory_rd_w
  <1> QED BY <1>1, <1>2, <1>3

\* What Passed is.
LEMMA PassedIs ==
  ASSUME Len(args) \in Nat
  PROVE  /\ Passed[0] = memory_wr_w(mem, ArgBase, Len(args))
         /\ \A k \in 1..Len(args) :
              Passed[k] = WriteBytes(memory_wr_w(Passed[k - 1], ArgBase + 4 * k, StringAt[k]), StringAt[k], Append(args[k], 0))
  <1> DEFINE n == Len(args)
             Step(k, m) == WriteBytes(memory_wr_w(m, ArgBase + 4 * k, StringAt[k]), StringAt[k], Append(args[k], 0))
             first == memory_wr_w(mem, ArgBase, Len(args))
             IsTo(k, f) == f = [i \in 0..k |-> IF i = 0 THEN first ELSE Step(i, f[i - 1])]
             T == {k \in 0..n : \E f : IsTo(k, f)}
  <1>1. Passed = CHOOSE f : IsTo(n, f)
    BY DEF Passed
  <1> HIDE DEF n, Step, first
  <1>n. n \in Nat
    BY DEF n
  <1>2. 0 \in T
    <2> DEFINE f == [i \in 0..0 |-> first]
    <2>1. f = [i \in 0..0 |-> IF i = 0 THEN first ELSE Step(i, f[i - 1])]
      OBVIOUS
    <2> HIDE DEF f
    <2> QED BY <2>1, <1>n
  <1>3. ASSUME NEW k \in 0..(n - 1), k \in T PROVE k + 1 \in T
    <2>1. PICK f : IsTo(k, f)
      BY <1>3
    <2> DEFINE g == [i \in 0..(k + 1) |-> IF i = 0 THEN first ELSE Step(i, f[i - 1])]
    <2>2. \A i \in 0..k : i \in 0..(k + 1) /\ f[i] = IF i = 0 THEN first ELSE Step(i, f[i - 1])
      BY <2>1
    <2>3. \A i \in 0..k : g[i] = f[i]
      BY <2>2
    <2>4. \A i \in 0..(k + 1) : i # 0 => i - 1 \in 0..k
      OBVIOUS
    <2>5. \A i \in 0..(k + 1) : i # 0 => g[i - 1] = f[i - 1]
      BY <2>3, <2>4
    <2>6. g = [i \in 0..(k + 1) |-> IF i = 0 THEN first ELSE Step(i, g[i - 1])]
      BY <2>5
    <2> HIDE DEF g
    <2>7. IsTo(k + 1, g)
      BY <2>6
    <2>8. k + 1 \in 0..n
      BY <1>n
    <2> QED BY <2>7, <2>8
  <1>4. n \in T
    <2> HIDE DEF T
    <2>1. 0..n \subseteq T
      BY <1>n, <1>2, <1>3, InductionUpTo
    <2> QED BY <2>1, <1>n
  <1>5. IsTo(n, Passed)
    <2> HIDE DEF IsTo
    <2> QED BY <1>1, <1>4
  <1>6. PICK p : p = Passed
    OBVIOUS
  <1>7. \A i \in 0..n : p[i] = IF i = 0 THEN first ELSE Step(i, p[i - 1])
    <2>1. IsTo(n, p)
      <3> HIDE DEF IsTo
      <3> QED BY <1>5, <1>6
    <2> QED BY <2>1
  <1>8. p[0] = first /\ \A k \in 1..n : p[k] = Step(k, p[k - 1])
    BY <1>7, <1>n
  <1> QED BY <1>6, <1>8 DEF n, Step, first

LEMMA ArgsPassed ==
  ASSUME CommandInv, MemoryOK(mem)
  PROVE  \A k \in 0..Len(args) :
           /\ MemoryOK(Passed[k]) /\ ArgsThere(Passed[k], k)
           /\ \A q \in 0..(WordValues - 1) : q \notin ArgExtent(args) => memory_rd_b(Passed[k], q) = memory_rd_b(mem, q)
  <1> DEFINE n == Len(args)
             Good(k) == /\ MemoryOK(Passed[k]) /\ ArgsThere(Passed[k], k)
                        /\ \A q \in 0..(WordValues - 1) : q \notin ArgExtent(args) => memory_rd_b(Passed[k], q) = memory_rd_b(mem, q)
             T == {k \in 0..n : Good(k)}
  <1>1. n \in Nat /\ args \in Seq(Seq(1..(ByteValues - 1)))
    BY ListingIs, ArgsAre
  <1>2. 0 \in T
    <2>1. PICK p, u, d : p = Passed[0] /\ u = ArgBase /\ d = n
      OBVIOUS
    <2>2. p = memory_wr_w(mem, u, d)
      BY <1>1, <2>1, PassedIs
    <2>3. ArgBase \in Nat /\ ArgBase % 4 = 0 /\ StringsStart = ArgBase + 4 + 4 * n /\ StringsStart <= StringsTo(n) /\ StringsTo(n) <= WordValues \div 2
          /\ ArgExtent(args) = ArgBase..(StringsTo(n) - 1)
      BY ArgPlaces
    <2>4. StringsTo(n) \in Nat
      BY <1>1, StringsAre
    <2>5. u \in 0..(WordValues - 1) /\ u % 4 = 0 /\ d \in 0..(WordValues \div 2 - 1)
      BY <1>1, <2>1, <2>3, <2>4, Numbers
    <2>6. /\ MemoryOK(p) /\ memory_rd_w(p, u) = d
          /\ \A q \in 0..(WordValues - 1) \ (u..(u + 3)) : memory_rd_b(p, q) = memory_rd_b(mem, q)
      <3>1. PICK m : m = mem /\ MemoryOK(m)
        OBVIOUS
      <3>2. /\ MemoryOK(memory_wr_w(m, u, d)) /\ memory_rd_w(memory_wr_w(m, u, d), u) = d
            /\ \A q \in 0..(WordValues - 1) \ (u..(u + 3)) : memory_rd_b(memory_wr_w(m, u, d), q) = memory_rd_b(m, q)
        BY <2>5, <3>1, WriteThenRead
      <3> QED BY <2>2, <3>1, <3>2
    <2>7. u..(u + 3) \subseteq ArgExtent(args)
      BY <1>1, <2>1, <2>3, <2>4
    <2>8. \A q \in 0..(WordValues - 1) : q \notin ArgExtent(args) => memory_rd_b(p, q) = memory_rd_b(mem, q)
      BY <2>6, <2>7
    <2>9. ArgsThere(p, 0)
      BY <2>1, <2>6 DEF ArgsThere
    <2>10. 0 \in 0..n
      BY <1>1
    <2> QED BY <2>1, <2>6, <2>8, <2>9, <2>10
  <1>3. ASSUME NEW k \in 0..(n - 1), k \in T PROVE k + 1 \in T
    <2>1. k + 1 \in 1..n /\ k + 1 \in 0..n /\ (k + 1) - 1 = k
      BY <1>1
    <2>2. PICK m, p : m = Passed[k] /\ p = Passed[k + 1]
      OBVIOUS
    <2>3. StringAt[k + 1] = StringsTo(k)
      BY <1>1, <2>1, StringAtIs
    <2>4. p = WriteBytes(memory_wr_w(m, ArgBase + 4 * (k + 1), StringsTo(k)), StringsTo(k), Append(args[k + 1], 0))
      BY <1>1, <2>1, <2>2, <2>3, PassedIs
    <2>5. /\ MemoryOK(m) /\ ArgsThere(m, k)
          /\ \A q \in 0..(WordValues - 1) : q \notin ArgExtent(args) => memory_rd_b(m, q) = memory_rd_b(mem, q)
      BY <1>3, <2>2
    <2>6. /\ MemoryOK(p) /\ ArgsThere(p, k + 1)
          /\ \A q \in 0..(WordValues - 1) : q \notin ArgExtent(args) => memory_rd_b(p, q) = memory_rd_b(m, q)
      BY <2>4, <2>5, ArgPassed
    <2>7. Good(k + 1)
      BY <2>2, <2>5, <2>6
    <2> HIDE DEF Good
    <2> QED BY <2>1, <2>7
  <1>4. 0..n \subseteq T
    <2> HIDE DEF T
    <2> QED BY <1>1, <1>2, <1>3, InductionUpTo
  <1> QED BY <1>4

-----------------------------------------------------------------------------
(* Loading the data                                                         *)

\* The lines among the first n that give the byte at q.
DataLines(n, q) == {k \in 1..n : listing[k].kind = "data" /\ q - listing[k].addr \in 0..(Len(listing[k].bytes) - 1)}

\* The memory once n lines are read: the latest of these lines, and zeros
\* elsewhere but for the arguments.
DataThere(m, n) ==
  \A q \in 0..(WordValues - 1) :
    IF DataLines(n, q) # {}
    THEN LET l == listing[Latest(DataLines(n, q))] IN memory_rd_b(m, q) = l.bytes[q - l.addr + 1]
    ELSE q \notin ArgExtent(args) => memory_rd_b(m, q) = 0

\* The last of the lines of a kind, after one more line.
LEMMA LatestLine ==
  ASSUME NEW n \in Nat, NEW X
  PROVE  LET old == {k \in 1..n : k \in X}
             new == {k \in 1..(n + 1) : k \in X}
         IN  IF n + 1 \in X THEN Latest(new) = n + 1 /\ new # {} ELSE new = old
  <1>1. 1..(n + 1) = 1..n \cup {n + 1} /\ n + 1 \notin 1..n
    OBVIOUS
  <1>2. CASE n + 1 \in X
    <2>1. PICK old : old = {k \in 1..n : k \in X}
      OBVIOUS
    <2>2. {k \in 1..(n + 1) : k \in X} = old \cup {n + 1}
      BY <1>1, <1>2, <2>1
    <2>3. old \in SUBSET (1..n) /\ n + 1 \notin old
      BY <1>1, <2>1
    <2>4. Latest(old \cup {n + 1}) = n + 1
      BY <2>3, LatestIs
    <2> QED BY <1>2, <2>2, <2>4
  <1>3. CASE n + 1 \notin X
    BY <1>1, <1>3
  <1> QED BY <1>2, <1>3

LEMMA DataLineIs ==
  ASSUME CommandInv, lineNo < Len(listing), line.kind = "data"
  PROVE  /\ line.addr \in Nat /\ line.bytes \in Seq(0..(ByteValues - 1)) /\ line.addr + Len(line.bytes) <= WordValues
         /\ count_hexes(line.words) = Len(line.bytes)
         /\ [k \in 1..count_hexes(line.words) |-> HexByte(line.words, k - 1)] = line.bytes
         /\ line.addr..(line.addr + Len(line.bytes) - 1) \cap ArgExtent(args) = {}
  <1>1. lineNo + 1 \in DOMAIN listing /\ line = listing[lineNo + 1] /\ IsLine(line)
    BY LineIs
  <1>2. "data" # "other" /\ "data" # "start" /\ "data" # "insn"
    OBVIOUS
  <1>3. /\ line.addr \in Nat /\ line.bytes \in Seq(0..(ByteValues - 1)) /\ line.addr + Len(line.bytes) <= WordValues
        /\ count_hexes(line.words) = Len(line.bytes)
        /\ \A k \in DOMAIN line.bytes : HexByte(line.words, k - 1) = line.bytes[k]
    BY <1>1, <1>2, Zenon DEF IsLine
  <1>4. line.bytes = [k \in 1..Len(line.bytes) |-> line.bytes[k]] /\ DOMAIN line.bytes = 1..Len(line.bytes)
    BY <1>3
  <1>5. [k \in 1..count_hexes(line.words) |-> HexByte(line.words, k - 1)] = line.bytes
    BY <1>3, <1>4
  <1>6. line.addr..(line.addr + Len(line.bytes) - 1) \cap ArgExtent(args) = {}
    BY <1>1, ListingIs
  <1> QED BY <1>3, <1>5, <1>6

\* One more line.
LEMMA DataRead ==
  ASSUME CommandInv, lineNo < Len(listing), MemoryOK(mem), DataThere(mem, lineNo), ArgsThere(mem, Len(args)),
         NEW m, m = IF line.kind = "data" /\ count_hexes(line.words) > 0
                    THEN WriteBytes(mem, line.addr, [k \in 1..count_hexes(line.words) |-> HexByte(line.words, k - 1)])
                    ELSE mem
  PROVE  MemoryOK(m) /\ DataThere(m, lineNo + 1) /\ ArgsThere(m, Len(args))
  <1>1. PICK n, l : n = lineNo /\ l = line /\ n \in Nat /\ l = listing[n + 1]
    BY LineIs
  <1> DEFINE covers(q) == l.kind = "data" /\ q - l.addr \in 0..(Len(l.bytes) - 1)
  <1>2. ASSUME NEW q
        PROVE  IF covers(q) THEN Latest(DataLines(n + 1, q)) = n + 1 /\ DataLines(n + 1, q) # {}
               ELSE DataLines(n + 1, q) = DataLines(n, q)
    <2> DEFINE X == {k \in 1..(n + 1) : listing[k].kind = "data" /\ q - listing[k].addr \in 0..(Len(listing[k].bytes) - 1)}
    <2>1. n + 1 \in 1..(n + 1) /\ \A k \in 1..n : k \in 1..(n + 1)
      BY <1>1
    <2>2. (n + 1 \in X <=> covers(q)) /\ DataLines(n, q) = {k \in 1..n : k \in X} /\ DataLines(n + 1, q) = {k \in 1..(n + 1) : k \in X}
      BY <1>1, <2>1 DEF DataLines
    <2> HIDE DEF X, covers
    <2>3. LET old == {k \in 1..n : k \in X}
              new == {k \in 1..(n + 1) : k \in X}
          IN  IF n + 1 \in X THEN Latest(new) = n + 1 /\ new # {} ELSE new = old
      BY <1>1, LatestLine
    <2> QED BY <2>2, <2>3
  <1>3. MemoryOK(m) /\ \A q \in 0..(WordValues - 1) : memory_rd_b(m, q) = IF covers(q) THEN l.bytes[q - l.addr + 1] ELSE memory_rd_b(mem, q)
    <2>1. CASE l.kind = "data" /\ count_hexes(l.words) > 0
      <3>1. PICK a, bs, old : a = l.addr /\ bs = l.bytes /\ old = mem
        OBVIOUS
      <3>2. a \in Nat /\ bs \in Seq(0..(ByteValues - 1)) /\ a + Len(bs) <= WordValues
            /\ [k \in 1..count_hexes(l.words) |-> HexByte(l.words, k - 1)] = bs
        BY <1>1, <2>1, <3>1, DataLineIs
      <3>3. Len(bs) \in Nat /\ \A k \in 1..Len(bs) : bs[k] \in 0..(ByteValues - 1)
        <4>1. ASSUME NEW B, NEW s \in Seq(B) PROVE Len(s) \in Nat /\ \A k \in 1..Len(s) : s[k] \in B
          OBVIOUS
        <4>2. PICK B : B = 0..(ByteValues - 1)
          OBVIOUS
        <4> QED BY <3>2, <4>1, <4>2
      <3>4. m = WriteBytes(old, a, bs) /\ MemoryOK(old)
        BY <1>1, <2>1, <3>1, <3>2
      <3>5. /\ MemoryOK(WriteBytes(old, a, bs))
            /\ \A q \in 0..(WordValues - 1) :
                 memory_rd_b(WriteBytes(old, a, bs), q) = IF q \in a..(a + Len(bs) - 1) THEN bs[q - a + 1] ELSE memory_rd_b(old, q)
        <4>1. a \in Nat /\ a + Len(bs) <= WordValues /\ Len(bs) \in Nat /\ MemoryOK(old)
          BY <3>2, <3>3, <3>4
        <4>2. \A k \in 1..Len(bs) : bs[k] \in 0..(ByteValues - 1)
          BY <3>3
        <4> QED BY <4>1, <4>2, BytesWritten
      <3>6. \A q \in 0..(WordValues - 1) : covers(q) <=> q \in a..(a + Len(bs) - 1)
        BY <2>1, <3>1, <3>2, <3>3, Numbers, SMTT(30)
      <3> QED BY <3>1, <3>4, <3>5, <3>6
    <2>2. CASE ~(l.kind = "data" /\ count_hexes(l.words) > 0)
      <3>1. m = mem
        BY <1>1, <2>2
      <3>2. ASSUME NEW q, covers(q) PROVE FALSE
        <4>1. count_hexes(l.words) = Len(l.bytes) /\ Len(l.bytes) \in Nat
          BY <1>1, <3>2, DataLineIs
        <4>2. Len(l.bytes) = 0
          BY <2>2, <3>2, <4>1
        <4> QED BY <3>2, <4>2
      <3> HIDE DEF covers
      <3> QED BY <3>1, <3>2
    <2> QED BY <2>1, <2>2
  <1>4. ASSUME NEW q \in ArgExtent(args) PROVE ~covers(q)
    <2>1. SUFFICES ASSUME covers(q) PROVE FALSE
      OBVIOUS
    <2>2. l.addr \in Nat /\ Len(l.bytes) \in Nat /\ l.addr..(l.addr + Len(l.bytes) - 1) \cap ArgExtent(args) = {}
      BY <1>1, <2>1, DataLineIs
    <2>3. q \in Int
      BY ListingIs, Numbers
    <2>4. q \in l.addr..(l.addr + Len(l.bytes) - 1)
      BY <2>1, <2>2, <2>3
    <2> QED BY <2>2, <2>4
  <1>5. DataThere(m, n + 1)
    <2> SUFFICES ASSUME NEW q \in 0..(WordValues - 1)
                 PROVE  IF DataLines(n + 1, q) # {}
                        THEN memory_rd_b(m, q) = listing[Latest(DataLines(n + 1, q))].bytes[q - listing[Latest(DataLines(n + 1, q))].addr + 1]
                        ELSE q \notin ArgExtent(args) => memory_rd_b(m, q) = 0
      BY DEF DataThere
    <2>1. IF DataLines(n, q) # {}
          THEN memory_rd_b(mem, q) = listing[Latest(DataLines(n, q))].bytes[q - listing[Latest(DataLines(n, q))].addr + 1]
          ELSE q \notin ArgExtent(args) => memory_rd_b(mem, q) = 0
      BY <1>1 DEF DataThere
    <2> HIDE DEF covers
    <2>2. CASE covers(q)
      BY <1>1, <1>2, <1>3, <2>2
    <2>3. CASE ~covers(q)
      <3>1. DataLines(n + 1, q) = DataLines(n, q) /\ memory_rd_b(m, q) = memory_rd_b(mem, q)
        BY <1>2, <1>3, <2>3
      <3> QED BY <3>1, <2>1
    <2> QED BY <2>2, <2>3
  <1>6. ArgsThere(m, Len(args))
    <2>1. PICK old, k, top : old = mem /\ k = Len(args) /\ top = StringsTo(k)
      OBVIOUS
    <2>2. ArgExtent(args) \subseteq 0..(WordValues \div 2 - 1) /\ ArgExtent(args) = ArgBase..(top - 1) /\ StringsStart <= top
          /\ StringsStart = ArgBase + 4 + 4 * k /\ ArgBase \in Nat /\ k \in Nat /\ \A i \in 0..k : ArgBase + 4 * i + 3 < StringsStart
      BY <2>1, ArgPlaces, ListingIs
    <2>3. top \in Nat
      BY <2>1, ListingIs, StringsAre
    <2>4. ASSUME NEW q \in ArgExtent(args) PROVE memory_rd_b(m, q) = memory_rd_b(old, q)
      <3>1. q \in 0..(WordValues - 1)
        BY <2>2, Numbers
      <3> HIDE DEF covers
      <3> QED BY <3>1, <1>3, <1>4, <2>1
    <2>5. \A i \in 0..k : \A q \in (ArgBase + 4 * i)..(ArgBase + 4 * i + 3) : q \in ArgExtent(args)
      BY <2>2, <2>3
    <2>6. \A q \in StringsStart..(top - 1) : q \in ArgExtent(args)
      BY <2>2, <2>3
    <2>7. k \in 0..Len(args) /\ MemoryOK(old) /\ MemoryOK(m) /\ ArgsThere(old, k)
      BY <1>3, <2>1, <2>2
    <2>8. \A i \in 0..k : \A q \in (ArgBase + 4 * i)..(ArgBase + 4 * i + 3) : memory_rd_b(m, q) = memory_rd_b(old, q)
      BY <2>4, <2>5
    <2>9. \A q \in StringsStart..(StringsTo(k) - 1) : memory_rd_b(m, q) = memory_rd_b(old, q)
      BY <2>1, <2>4, <2>6
    <2> QED BY <2>1, <2>7, <2>8, <2>9, ArgsKept
  <1> QED BY <1>1, <1>3, <1>5, <1>6

\* What is known of the machine in a phase.
PhaseInv ==
  /\ phase \in {"args", "load", "run", "end"}
  /\ phase \in {"args", "load"} => regs = [r \in 0..31 |-> 0] /\ pc = 0 /\ output = << >>
  /\ phase # "end" => exit = ""
  /\ phase = "args" => lineNo = 0 /\ mem = memory_create
  /\ phase = "load" => MemoryOK(mem) /\ ArgsThere(mem, Len(args)) /\ DataThere(mem, lineNo)
  /\ phase \in {"run", "end"} => lineNo = Len(listing)

\* The lines read that say where the program starts, and those of the word at q.
StartLines(n)   == {k \in 1..n : listing[k].kind = "start"}
InsnLines(n, q) == {k \in 1..n : listing[k].kind = "insn" /\ listing[k].addr = q}

StartInv == startAddr = IF StartLines(lineNo) = {} THEN NoAddr ELSE listing[Latest(StartLines(lineNo))].addr

CodeInv ==
  \A q : /\ q \in DOMAIN code <=> InsnLines(lineNo, q) # {}
         /\ q \in DOMAIN code => code[q] = listing[Latest(InsnLines(lineNo, q))].word

LoadInv == CommandInv /\ PhaseInv /\ StartInv /\ CodeInv

LEMMA LoadInitially == Init => LoadInv
  <1> SUFFICES ASSUME Init PROVE LoadInv
    OBVIOUS
  <1>1. CommandInv
    BY TableInitially DEF TableInv
  <1>2. lineNo = 0 /\ phase = "args" /\ mem = memory_create /\ regs = [r \in 0..31 |-> 0] /\ pc = 0 /\ output = << >> /\ exit = ""
        /\ startAddr = NoAddr
    BY DEF Init
  <1>3. PhaseInv
    BY <1>2 DEF PhaseInv
  <1>n. 1..lineNo = {}
    <2>1. lineNo = 0
      BY <1>2
    <2>2. 1..0 = {}
      OBVIOUS
    <2> QED BY <2>1, <2>2
  <1>4. StartInv
    <2>1. StartLines(lineNo) = {}
      BY <1>n DEF StartLines
    <2> QED BY <1>2, <2>1 DEF StartInv
  <1>5. CodeInv
    <2>1. \A q : q \notin DOMAIN code /\ InsnLines(lineNo, q) = {}
      <3>1. DOMAIN code = {}
        BY Zenon DEF Init
      <3>2. \A q : InsnLines(lineNo, q) = {}
        BY <1>n DEF InsnLines
      <3> QED BY <3>1, <3>2
    <2> QED BY <2>1 DEF CodeInv
  <1> QED BY <1>1, <1>3, <1>4, <1>5 DEF LoadInv

LEMMA SimulateStays ==
  ASSUME simulate, exit = "" PROVE phase' \in {"run", "end"} /\ (phase' = "run" => exit' = "")
  <1> USE DEF simulate, Ends, Quiet
  <1>1. phase = "run"
    OBVIOUS
  <1>2. CASE Undefined
    BY <1>2 DEF Undefined
  <1>3. CASE Upper
    BY <1>1, <1>3 DEF Upper
  <1>4. CASE Jump
    BY <1>1, <1>4 DEF Jump
  <1>5. CASE Ecall
    BY <1>1, <1>5 DEF Ecall
  <1>6. CASE Branch
    BY <1>1, <1>6 DEF Branch
  <1>7. CASE Load
    BY <1>1, <1>7 DEF Load
  <1>8. CASE Store
    BY <1>1, <1>8 DEF Store
  <1>9. CASE Arithmetic
    BY <1>1, <1>9 DEF Arithmetic, Compute
  <1> QED BY <1>2, <1>3, <1>4, <1>5, <1>6, <1>7, <1>8, <1>9

\* The lines of the next state's listing are the same.
LEMMA SameLines ==
  ASSUME UNCHANGED listing
  PROVE  /\ StartInv' <=> startAddr' = IF StartLines(lineNo') = {} THEN NoAddr ELSE listing[Latest(StartLines(lineNo'))].addr
         /\ CodeInv' <=> \A q : /\ q \in DOMAIN code' <=> InsnLines(lineNo', q) # {}
                                /\ q \in DOMAIN code' => code'[q] = listing[Latest(InsnLines(lineNo', q))].word
  BY DEF StartInv, CodeInv, StartLines, InsnLines, Latest

LEMMA SameData ==
  ASSUME UNCHANGED <<listing, args>>
  PROVE  /\ ArgsThere(mem, Len(args))' <=> ArgsThere(mem', Len(args))
         /\ DataThere(mem, lineNo)' <=> DataThere(mem', lineNo')
  <1>1. ArgsThere(mem, Len(args))' <=> ArgsThere(mem', Len(args))
    <2>1. \A i : ArgThere(mem, i)' <=> ArgThere(mem', i)
      <3>1. \A i : StringsTo(i)' = StringsTo(i)
        BY DEF StringsTo, StringsStart, Lengths
      <3> QED BY <3>1 DEF ArgThere, memory_rd_w, memory_rd_b, Word, get_page
    <2> QED BY <2>1 DEF ArgsThere, memory_rd_w, Word, get_page
  <1>2. DataThere(mem, lineNo)' <=> DataThere(mem', lineNo')
    BY DEF DataThere, DataLines, Latest, ArgExtent, memory_rd_b, Word, get_page
  <1> QED BY <1>1, <1>2

LEMMA LoadKept == LoadInv /\ [Next]_vars => LoadInv'
  <1> SUFFICES ASSUME LoadInv, [Next]_vars PROVE LoadInv'
    OBVIOUS
  <1>1. CommandInv /\ CommandInv' /\ PhaseInv /\ StartInv /\ CodeInv
    BY CommandKept DEF LoadInv
  <1>2. UNCHANGED <<listing, args>>
    BY DEF Next, vars, loaded, pass_args_to_program, ReadLine, Start, simulate
  <1>3. ASSUME UNCHANGED <<lineNo, startAddr, code>> PROVE StartInv' /\ CodeInv'
    BY <1>1, <1>2, <1>3, SameLines DEF StartInv, CodeInv
  <1>4. CASE pass_args_to_program
    <2>1. phase = "args" /\ lineNo = 0 /\ mem = memory_create /\ phase' = "load" /\ UNCHANGED <<lineNo, startAddr, code, regs, pc, output, exit>>
          /\ mem' = IF args = << >> THEN mem ELSE Passed[Len(args)]
      BY <1>1, <1>4 DEF pass_args_to_program, loaded, machine, PhaseInv
    <2>2. MemoryOK(mem) /\ \A q \in 0..(WordValues - 1) : memory_rd_b(mem, q) = 0
      BY <2>1, EmptyMemory
    <2>3. PICK m, n : m = mem' /\ n = Len(args) /\ n \in Nat
      BY <1>1, ListingIs, ArgsAre
    <2>4. MemoryOK(m) /\ ArgsThere(m, n) /\ \A q \in 0..(WordValues - 1) : q \notin ArgExtent(args) => memory_rd_b(m, q) = 0
      <3>1. CASE args = << >>
        <4>1. n = 0 /\ m = mem
          BY <2>1, <2>3, <3>1
        <4>2. ArgBase \in 0..(WordValues - 1)
          <5>1. 0 \in 0..Len(args) /\ \A i \in 0..Len(args) : ArgBase + 4 * i \in 0..(WordValues - 1)
            BY <1>1, <2>3, ArgPlaces
          <5>2. ArgBase + 4 * 0 = ArgBase
            BY <1>1, ArgPlaces
          <5> QED BY <5>1, <5>2
        <4>3. memory_rd_w(mem, ArgBase) = 0
          BY <2>1, <4>2, EmptyMemory
        <4> QED BY <2>2, <2>3, <4>1, <4>3 DEF ArgsThere
      <3>2. CASE args # << >>
        <4>1. m = Passed[n] /\ n \in 0..Len(args)
          BY <2>1, <2>3, <3>2
        <4>2. /\ MemoryOK(Passed[n]) /\ ArgsThere(Passed[n], n)
              /\ \A q \in 0..(WordValues - 1) : q \notin ArgExtent(args) => memory_rd_b(Passed[n], q) = memory_rd_b(mem, q)
          BY <1>1, <2>2, <4>1, ArgsPassed
        <4> QED BY <2>2, <4>1, <4>2
      <3> QED BY <3>1, <3>2
    <2>5. DataThere(m, 0)
      BY <2>4 DEF DataThere, DataLines
    <2>6. MemoryOK(mem)'
      BY <2>3, <2>4 DEF MemoryOK
    <2>7. ArgsThere(mem, Len(args))' /\ DataThere(mem, lineNo)'
      BY <1>2, <2>1, <2>3, <2>4, <2>5, SameData
    <2>8. PhaseInv'
      BY <1>1, <2>1, <2>6, <2>7 DEF PhaseInv
    <2> QED BY <1>1, <1>3, <2>1, <2>8 DEF LoadInv
  <1>5. CASE ReadLine
    <2>1. phase = "load" /\ lineNo < Len(listing) /\ lineNo' = lineNo + 1 /\ UNCHANGED <<phase, regs, pc, output, exit>>
      BY <1>5 DEF ReadLine, NextLine, machine
    <2>2. PICK n : n = lineNo /\ n \in Nat /\ line = listing[n + 1] /\ IsLine(line)
      BY <1>1, <2>1, LineIs
    <2>3. mem' = IF line.kind = "data" /\ count_hexes(line.words) > 0
                 THEN WriteBytes(mem, line.addr, [k \in 1..count_hexes(line.words) |-> HexByte(line.words, k - 1)])
                 ELSE mem
      <3> DEFINE new == WriteBytes(mem, line.addr, [k \in 1..count_hexes(line.words) |-> HexByte(line.words, k - 1)])
                 more == count_hexes(line.words) > 0
      <3>1. \/ line.kind = "data" /\ more /\ mem' = new
            \/ line.kind = "insn" /\ mem' = mem
            \/ line.kind = "start" /\ mem' = mem
            \/ (line.kind = "other" \/ (line.kind = "data" /\ count_hexes(line.words) = 0)) /\ mem' = mem
        BY <1>5, Zenon DEF ReadLine, DataLine, InsnLine, StartLine, OtherLine
      <3>2. count_hexes(line.words) = 0 => ~more
        OBVIOUS
      <3> HIDE DEF new, more
      <3>3. mem' = IF line.kind = "data" /\ more THEN new ELSE mem
        BY <3>1, <3>2
      <3> QED BY <3>3 DEF new, more
    <2>4. MemoryOK(mem') /\ DataThere(mem', lineNo + 1) /\ ArgsThere(mem', Len(args))
      BY <1>1, <2>1, <2>3, DataRead DEF PhaseInv
    <2>5. MemoryOK(mem)'
      BY <2>4 DEF MemoryOK
    <2>6. PhaseInv'
      BY <1>1, <1>2, <2>1, <2>4, <2>5, SameData DEF PhaseInv
    <2>7. startAddr' = IF line.kind = "start" THEN line.addr ELSE startAddr
      BY <1>5 DEF ReadLine, DataLine, InsnLine, StartLine, OtherLine
    <2>8. code' = IF line.kind = "insn" THEN [q \in DOMAIN code \cup {line.addr} |-> IF q = line.addr THEN line.word ELSE code[q]] ELSE code
      BY <1>5 DEF ReadLine, DataLine, InsnLine, StartLine, OtherLine
    <2>9. StartInv'
      <3> DEFINE X == {k \in 1..(n + 1) : listing[k].kind = "start"}
      <3>1. n + 1 \in 1..(n + 1) /\ \A k \in 1..n : k \in 1..(n + 1)
        BY <2>2
      <3>2. (n + 1 \in X <=> line.kind = "start") /\ StartLines(n) = {k \in 1..n : k \in X} /\ StartLines(n + 1) = {k \in 1..(n + 1) : k \in X}
        BY <2>2, <3>1 DEF StartLines
      <3> HIDE DEF X
      <3>3. LET old == {k \in 1..n : k \in X}
                new == {k \in 1..(n + 1) : k \in X}
            IN  IF n + 1 \in X THEN Latest(new) = n + 1 /\ new # {} ELSE new = old
        BY <2>2, LatestLine
      <3>4. IF line.kind = "start" THEN Latest(StartLines(n + 1)) = n + 1 /\ StartLines(n + 1) # {} ELSE StartLines(n + 1) = StartLines(n)
        BY <3>2, <3>3
      <3>5. startAddr' = IF StartLines(n + 1) = {} THEN NoAddr ELSE listing[Latest(StartLines(n + 1))].addr
        BY <1>1, <2>2, <2>7, <3>4 DEF StartInv
      <3> QED BY <1>2, <2>1, <2>2, <3>5, SameLines
    <2>10. CodeInv'
      <3>1. ASSUME NEW q
            PROVE  IF line.kind = "insn" /\ line.addr = q THEN Latest(InsnLines(n + 1, q)) = n + 1 /\ InsnLines(n + 1, q) # {}
                   ELSE InsnLines(n + 1, q) = InsnLines(n, q)
        <4> DEFINE X == {k \in 1..(n + 1) : listing[k].kind = "insn" /\ listing[k].addr = q}
        <4>1. n + 1 \in 1..(n + 1) /\ \A k \in 1..n : k \in 1..(n + 1)
          BY <2>2
        <4>2. (n + 1 \in X <=> line.kind = "insn" /\ line.addr = q) /\ InsnLines(n, q) = {k \in 1..n : k \in X} /\ InsnLines(n + 1, q) = {k \in 1..(n + 1) : k \in X}
          BY <2>2, <4>1 DEF InsnLines
        <4> HIDE DEF X
        <4>3. LET old == {k \in 1..n : k \in X}
                  new == {k \in 1..(n + 1) : k \in X}
              IN  IF n + 1 \in X THEN Latest(new) = n + 1 /\ new # {} ELSE new = old
          BY <2>2, LatestLine
        <4> QED BY <4>2, <4>3
      <3>2. ASSUME NEW q
            PROVE  /\ q \in DOMAIN code' <=> InsnLines(n + 1, q) # {}
                   /\ q \in DOMAIN code' => code'[q] = listing[Latest(InsnLines(n + 1, q))].word
        <4>1. /\ q \in DOMAIN code <=> InsnLines(n, q) # {}
              /\ q \in DOMAIN code => code[q] = listing[Latest(InsnLines(n, q))].word
          BY <1>1, <2>2 DEF CodeInv
        <4>2. CASE line.kind = "insn" /\ line.addr = q
          <5>1. q \in DOMAIN code' /\ code'[q] = line.word
            BY <2>8, <4>2
          <5> QED BY <2>2, <3>1, <4>2, <5>1
        <4>3. CASE ~(line.kind = "insn" /\ line.addr = q)
          <5>1. (q \in DOMAIN code' <=> q \in DOMAIN code) /\ (q \in DOMAIN code => code'[q] = code[q])
            BY <2>8, <4>3
          <5> QED BY <3>1, <4>1, <4>3, <5>1
        <4> QED BY <4>2, <4>3
      <3> QED BY <1>2, <2>1, <2>2, <3>2, SameLines
    <2> QED BY <1>1, <2>6, <2>9, <2>10 DEF LoadInv
  <1>6. CASE Start
    <2>1. UNCHANGED <<lineNo, startAddr, code>> /\ phase' \in {"run", "end"} /\ (phase' = "run" => exit' = exit) /\ lineNo = Len(listing) /\ phase = "load"
      BY <1>6 DEF Start, loaded
    <2>2. PhaseInv'
      BY <1>1, <1>2, <2>1 DEF PhaseInv
    <2> QED BY <1>1, <1>3, <2>1, <2>2 DEF LoadInv
  <1>7. CASE simulate
    <2>1. UNCHANGED <<lineNo, startAddr, code>> /\ phase = "run"
      BY <1>7 DEF simulate, loaded
    <2>2. exit = ""
      BY <1>1, <2>1 DEF PhaseInv
    <2>3. phase' \in {"run", "end"} /\ (phase' = "run" => exit' = "")
      BY <1>7, <2>2, SimulateStays
    <2>4. PhaseInv'
      BY <1>1, <1>2, <2>1, <2>3 DEF PhaseInv
    <2> QED BY <1>1, <1>3, <2>1, <2>4 DEF LoadInv
  <1>8. CASE UNCHANGED vars
    <2>1. UNCHANGED <<lineNo, startAddr, code, phase, regs, pc, output, exit, mem>>
      BY <1>8 DEF vars, machine
    <2>2. PhaseInv'
      BY <1>1, <1>2, <2>1, SameData DEF PhaseInv, MemoryOK
    <2> QED BY <1>1, <1>3, <2>1, <2>2 DEF LoadInv
  <1> QED BY <1>4, <1>5, <1>6, <1>7, <1>8 DEF Next

\* The arguments are where the program looks for them.
LEMMA ArgsFound == LoadInv /\ phase = "load" /\ phase' = "run" =>
  /\ memory_rd_w(mem, ArgBase) = Len(args)
  /\ \A k \in DOMAIN args :
       LET at == memory_rd_w(mem, ArgBase + 4 * k)
       IN  /\ \A j \in DOMAIN args[k] : ByteAt(at + j - 1) = args[k][j]
           /\ ByteAt(at + Len(args[k])) = 0
  <1> SUFFICES ASSUME LoadInv, phase = "load"
               PROVE  /\ memory_rd_w(mem, ArgBase) = Len(args)
                      /\ \A k \in DOMAIN args :
                           LET at == memory_rd_w(mem, ArgBase + 4 * k)
                           IN  /\ \A j \in DOMAIN args[k] : ByteAt(at + j - 1) = args[k][j]
                               /\ ByteAt(at + Len(args[k])) = 0
    OBVIOUS
  <1>1. ArgsThere(mem, Len(args)) /\ args \in Seq(Seq(1..(ByteValues - 1)))
    BY ListingIs DEF LoadInv, PhaseInv
  <1>2. DOMAIN args = 1..Len(args) /\ \A k \in DOMAIN args : DOMAIN args[k] = 1..Len(args[k])
    BY <1>1, ArgsAre
  <1> QED BY <1>1, <1>2 DEF ArgsThere, ArgThere, ByteAt

THEOREM ArgumentsFound == Spec => ArgumentsArePassed
  <1>1. LoadInv /\ [Next]_vars =>
          [phase = "load" /\ phase' = "run" =>
            /\ memory_rd_w(mem, ArgBase) = Len(args)
            /\ \A k \in DOMAIN args :
                 LET at == memory_rd_w(mem, ArgBase + 4 * k)
                 IN  /\ \A j \in DOMAIN args[k] : ByteAt(at + j - 1) = args[k][j]
                     /\ ByteAt(at + Len(args[k])) = 0]_vars
    BY ArgsFound
  <1> QED BY <1>1, LoadInitially, LoadKept, PTL DEF Spec, ArgumentsArePassed

-----------------------------------------------------------------------------
(* The numbers of the instruction set                                       *)

LEMMA Powers == \A k \in 0..31 : 2^k \in Nat \ {0}
  <1>1. \A k \in 0..31 : \/ k \in 0..7 \/ k \in 8..15 \/ k \in 16..23 \/ k \in 24..31
    OBVIOUS
  <1>2. ASSUME NEW k \in 0..7 PROVE 2^k \in Nat \ {0}
    <2>1. k = 0 \/ k = 1 \/ k = 2 \/ k = 3 \/ k = 4 \/ k = 5 \/ k = 6 \/ k = 7
      OBVIOUS
    <2>2. /\ 2^0 \in Nat \ {0} /\ 2^1 \in Nat \ {0}
          /\ 2^2 \in Nat \ {0} /\ 2^3 \in Nat \ {0}
          /\ 2^4 \in Nat \ {0} /\ 2^5 \in Nat \ {0}
          /\ 2^6 \in Nat \ {0} /\ 2^7 \in Nat \ {0}
      OBVIOUS
    <2> QED BY <2>1, <2>2, Zenon
  <1>3. ASSUME NEW k \in 8..15 PROVE 2^k \in Nat \ {0}
    <2>1. k = 8 \/ k = 9 \/ k = 10 \/ k = 11 \/ k = 12 \/ k = 13 \/ k = 14 \/ k = 15
      OBVIOUS
    <2>2. /\ 2^8 \in Nat \ {0} /\ 2^9 \in Nat \ {0}
          /\ 2^10 \in Nat \ {0} /\ 2^11 \in Nat \ {0}
          /\ 2^12 \in Nat \ {0} /\ 2^13 \in Nat \ {0}
          /\ 2^14 \in Nat \ {0} /\ 2^15 \in Nat \ {0}
      OBVIOUS
    <2> QED BY <2>1, <2>2, Zenon
  <1>4. ASSUME NEW k \in 16..23 PROVE 2^k \in Nat \ {0}
    <2>1. k = 16 \/ k = 17 \/ k = 18 \/ k = 19 \/ k = 20 \/ k = 21 \/ k = 22 \/ k = 23
      OBVIOUS
    <2>2. /\ 2^16 \in Nat \ {0} /\ 2^17 \in Nat \ {0}
          /\ 2^18 \in Nat \ {0} /\ 2^19 \in Nat \ {0}
          /\ 2^20 \in Nat \ {0} /\ 2^21 \in Nat \ {0}
          /\ 2^22 \in Nat \ {0} /\ 2^23 \in Nat \ {0}
      OBVIOUS
    <2> QED BY <2>1, <2>2, Zenon
  <1>5. ASSUME NEW k \in 24..31 PROVE 2^k \in Nat \ {0}
    <2>1. k = 24 \/ k = 25 \/ k = 26 \/ k = 27 \/ k = 28 \/ k = 29 \/ k = 30 \/ k = 31
      OBVIOUS
    <2>2. /\ 2^24 \in Nat \ {0} /\ 2^25 \in Nat \ {0}
          /\ 2^26 \in Nat \ {0} /\ 2^27 \in Nat \ {0}
          /\ 2^28 \in Nat \ {0} /\ 2^29 \in Nat \ {0}
          /\ 2^30 \in Nat \ {0} /\ 2^31 \in Nat \ {0}
      OBVIOUS
    <2> QED BY <2>1, <2>2, Zenon
  <1> QED BY <1>1, <1>2, <1>3, <1>4, <1>5

LEMMA IsaNumbers == 2^(Width - 1) = WordValues \div 2 /\ ISA!ByteSize = ByteValues /\ ISA!Addresses = 0..(WordValues - 1)
  <1>1. 2^(Width - 1) = WordValues \div 2
    <2>1. CASE Width = 8
      <3>1. Width - 1 = 7 /\ WordValues = 256
        BY <2>1 DEF WordValues
      <3> QED BY <3>1
    <2>2. CASE Width = 16
      <3>1. Width - 1 = 15 /\ WordValues = 2^16
        BY <2>2 DEF WordValues
      <3> QED BY <3>1
    <2>3. CASE Width = 32
      <3>1. Width - 1 = 31 /\ WordValues = 2^32
        BY <2>3 DEF WordValues
      <3> QED BY <3>1
    <2> QED BY <2>1, <2>2, <2>3, WidthAssumption
  <1> QED BY <1>1 DEF ISA!ByteSize, ByteValues, ISA!Addresses, WordValues

LEMMA IsaSigned == \A v : ISA!Signed(v) = Signed(v) /\ ISA!Unsigned(v) = Unsigned(v)
  BY IsaNumbers DEF ISA!Signed, Signed, ISA!Unsigned, Unsigned, WordValues

LEMMA IsaSums == \A S, f : ISA!SumOver(S, f) = SumOver(S, f)
  BY DEF ISA!SumOver, SumOver, ISA!FoldFunctionOnSet, FoldFunctionOnSet, ISA!MapThenFoldSet, MapThenFoldSet

LEMMA IsaBits == \A m, n : ISA!BitAnd(m, n) = BitAnd(m, n) /\ ISA!BitOr(m, n) = BitOr(m, n) /\ ISA!BitXor(m, n) = BitXor(m, n)
  BY IsaSums DEF ISA!BitAnd, BitAnd, ISA!BitOr, BitOr, ISA!BitXor, BitXor, ISA!Ones, Ones, ISA!WithOnes, WithOnes

LEMMA BitsAre == \A m, n : BitAnd(m, n) \in Nat /\ BitOr(m, n) \in Nat /\ BitXor(m, n) \in Nat
  <1>1. ASSUME NEW ks \in SUBSET (0..(Width - 1)) PROVE WithOnes(ks) \in Nat
    <2>1. Width - 1 \in 0..31
      BY WidthAssumption
    <2>2. IsFiniteSet(0..(Width - 1))
      <3>1. 0 \in Int /\ Width - 1 \in Int
        BY <2>1
      <3> QED BY <3>1, FS_Interval
    <2>3. IsFiniteSet(ks)
      BY <2>2, FS_Subset
    <2>4. PICK f : f = [k \in ks |-> 2^k]
      OBVIOUS
    <2>5. \A k \in ks : f[k] \in Nat
      <3>1. \A k \in ks : k \in 0..31
        BY <2>1
      <3> QED BY <2>4, <3>1, Powers
    <2>6. SumOver(ks, f) \in Nat
      BY <2>3, <2>5, SumOfNat
    <2> QED BY <2>4, <2>6 DEF WithOnes
  <1> QED BY <1>1 DEF BitAnd, BitOr, BitXor, Ones

\* The amounts of shifts.
LEMMA Shifted ==
  ASSUME NEW n \in Int
  PROVE  Amount(n) \in 0..31 /\ 2^Amount(n) \in Nat \ {0} /\ ISA!Amount(n) = Amount(n)
  <1>1. Amount(n) \in 0..31
    <2>1. CASE Width = 8
      BY <2>1 DEF Amount
    <2>2. CASE Width = 16
      BY <2>2 DEF Amount
    <2>3. CASE Width = 32
      BY <2>3 DEF Amount
    <2> QED BY <2>1, <2>2, <2>3, WidthAssumption
  <1> QED BY <1>1, Powers DEF ISA!Amount, Amount

-----------------------------------------------------------------------------
(* Decoding                                                                 *)

Regs5  == 0..31
Funcs  == 0..7
Codes7 == 0..127
Imm12  == -2048..2047

\* Words of operations on registers, and words with an immediate of twelve bits.
RWord(f7, r2, r1, f3, d, o) == f7 * 2^25 + r2 * 2^20 + r1 * 2^15 + f3 * 2^12 + d * 2^7 + o
IWord(imm, r1, f3, d, o)    == imm * 2^20 + r1 * 2^15 + f3 * 2^12 + d * 2^7 + o
UWord(top, d, o)            == top * 2^12 + d * 2^7 + o

\* The fields of a word.
LEMMA FieldsAre ==
  ASSUME NEW f7 \in Int, NEW r2 \in Regs5, NEW r1 \in Regs5, NEW f3 \in Funcs, NEW d \in Regs5, NEW o \in Codes7,
         ins = RWord(f7, r2, r1, f3, d, o)
  PROVE  /\ opcode = o /\ rd = d /\ funct3 = f3 /\ rs1 = r1 /\ rs2 = r2 /\ funct7 = f7 % 128
         /\ Field(20, 12) = (f7 * 32 + r2) % 2^12 /\ Field(25, 6) = f7 % 64
         /\ Field(8, 4) = d \div 2 /\ Field(7, 1) = d % 2 /\ Bit31 = (IF f7 < 0 THEN 1 ELSE 0)
  <1> USE DEF Regs5, Funcs, Codes7
  <1>1. PICK w, w7, w12, w15, w20 : /\ w = ins /\ w = f7 * 2^25 + r2 * 2^20 + r1 * 2^15 + f3 * 2^12 + d * 128 + o
                                    /\ w20 = f7 * 32 + r2 /\ w15 = w20 * 32 + r1 /\ w12 = w15 * 8 + f3 /\ w7 = w12 * 32 + d
    BY DEF RWord
  <1>2. w20 \in Int /\ w15 \in Int /\ w12 \in Int /\ w7 \in Int /\ w \in Int
    BY <1>1
  <1>3. w = w7 * 128 + o
    BY <1>1
  <1>4. w \div 128 = w7 /\ w % 128 = o
    BY <1>2, <1>3
  <1>5. w = w12 * 2^12 + (d * 128 + o) /\ d * 128 + o \in 0..(2^12 - 1)
    BY <1>1
  <1>6. w \div 2^12 = w12
    BY <1>2, <1>5
  <1>7. w = w15 * 2^15 + (f3 * 2^12 + d * 128 + o) /\ f3 * 2^12 + d * 128 + o \in 0..(2^15 - 1)
    BY <1>1
  <1>8. w \div 2^15 = w15
    BY <1>2, <1>7
  <1>9. w = w20 * 2^20 + (r1 * 2^15 + f3 * 2^12 + d * 128 + o) /\ r1 * 2^15 + f3 * 2^12 + d * 128 + o \in 0..(2^20 - 1)
    BY <1>1
  <1>10. w \div 2^20 = w20
    BY <1>2, <1>9
  <1>11. r2 * 2^20 + r1 * 2^15 + f3 * 2^12 + d * 128 + o \in 0..(2^25 - 1)
         /\ w = f7 * 2^25 + (r2 * 2^20 + r1 * 2^15 + f3 * 2^12 + d * 128 + o)
    BY <1>1
  <1>12. w \div 2^25 = f7
    BY <1>2, <1>11
  <1>13. w7 % 32 = d /\ w12 % 8 = f3 /\ w15 % 32 = r1 /\ w20 % 32 = r2
    BY <1>1, <1>2
  <1>14. w \div 256 = w12 * 16 + (d \div 2)
    <2>1. d = 2 * (d \div 2) + (d % 2) /\ d \div 2 \in 0..15 /\ d % 2 \in 0..1
      OBVIOUS
    <2>2. PICK h, l : h = d \div 2 /\ l = d % 2
      OBVIOUS
    <2>3. w = (w12 * 16 + h) * 256 + (l * 128 + o) /\ l * 128 + o \in 0..255 /\ w12 * 16 + h \in Int
      BY <1>2, <1>5, <2>1, <2>2
    <2>4. w \div 256 = w12 * 16 + h
      BY <1>2, <2>3
    <2> QED BY <2>2, <2>4
  <1>15. (w12 * 16 + (d \div 2)) % 16 = d \div 2
    <2>1. PICK h : h = d \div 2 /\ h \in 0..15
      OBVIOUS
    <2>2. (w12 * 16 + h) % 16 = h
      BY <1>2, <2>1
    <2> QED BY <2>1, <2>2
  <1>16. w7 % 2 = d % 2
    BY <1>1, <1>2
  <1>17. w < 0 <=> f7 < 0
    BY <1>11
  <1>18. opcode = o /\ rd = d /\ funct3 = f3 /\ rs1 = r1 /\ rs2 = r2
    <2>1. w \div 1 = w
      BY <1>2
    <2> QED BY <2>1, <1>1, <1>4, <1>6, <1>8, <1>10, <1>13 DEF opcode, rd, funct3, rs1, rs2, Field
  <1>19. funct7 = f7 % 128 /\ Field(20, 12) = (f7 * 32 + r2) % 2^12 /\ Field(25, 6) = f7 % 64
    BY <1>1, <1>10, <1>12 DEF funct7, Field
  <1>20. Field(8, 4) = d \div 2
    BY <1>1, <1>14, <1>15 DEF Field
  <1>21. Field(7, 1) = d % 2
    BY <1>1, <1>4, <1>16 DEF Field
  <1>22. Bit31 = IF f7 < 0 THEN 1 ELSE 0
    BY <1>1, <1>17 DEF Bit31
  <1> QED BY <1>18, <1>19, <1>20, <1>21, <1>22

\* The fields of a word with a long immediate.
LEMMA UpperFieldsAre ==
  ASSUME NEW top \in Int, NEW d \in Regs5, NEW o \in Codes7, ins = UWord(top, d, o)
  PROVE  /\ opcode = o /\ rd = d /\ ins \div 2^12 = top
         /\ Field(21, 10) = (top \div 512) % 1024 /\ Field(20, 1) = (top \div 256) % 2 /\ Field(12, 8) = top % 256
         /\ Bit31 = (IF top < 0 THEN 1 ELSE 0)
  <1> USE DEF Regs5, Codes7
  <1>1. PICK w, w7 : w = ins /\ w = top * 2^12 + d * 128 + o /\ w7 = top * 32 + d /\ w \in Int /\ w7 \in Int
    BY DEF UWord
  <1>2. w = w7 * 128 + o
    BY <1>1
  <1>3. w \div 128 = w7 /\ w % 128 = o
    BY <1>1, <1>2
  <1>4. w7 % 32 = d
    BY <1>1
  <1>5. w = top * 2^12 + (d * 128 + o) /\ d * 128 + o \in 0..(2^12 - 1)
    BY <1>1
  <1>6. w \div 2^12 = top
    BY <1>1, <1>5
  <1>7. w \div 2^21 = top \div 512
    <2>1. PICK A \in Nat \ {0}, B \in Nat \ {0} : A = 2^12 /\ B = 512
      OBVIOUS
    <2>2. (w \div A) \div B = w \div (A * B)
      BY <1>1, <2>1, DividedTwice
    <2>3. A * B = 2^21
      BY <2>1
    <2> QED BY <2>1, <2>2, <2>3, <1>6
  <1>8. w \div 2^20 = top \div 256
    <2>1. PICK A \in Nat \ {0}, B \in Nat \ {0} : A = 2^12 /\ B = 256
      OBVIOUS
    <2>2. (w \div A) \div B = w \div (A * B)
      BY <1>1, <2>1, DividedTwice
    <2>3. A * B = 2^20
      BY <2>1
    <2> QED BY <2>1, <2>2, <2>3, <1>6
  <1>9. w < 0 <=> top < 0
    BY <1>5
  <1>10. opcode = o /\ rd = d
    <2>1. w \div 1 = w
      BY <1>1
    <2> QED BY <2>1, <1>1, <1>3, <1>4 DEF opcode, rd, Field
  <1>11. Field(21, 10) = (top \div 512) % 1024 /\ Field(20, 1) = (top \div 256) % 2 /\ Field(12, 8) = top % 256
    BY <1>1, <1>6, <1>7, <1>8 DEF Field
  <1>12. Bit31 = IF top < 0 THEN 1 ELSE 0
    BY <1>1, <1>9 DEF Bit31
  <1> QED BY <1>1, <1>6, <1>10, <1>11, <1>12

-----------------------------------------------------------------------------
(* The words of the instructions, one format after the other                *)

\* The sets of the names have no name in common.
Singles == {"LUI", "AUIPC", "JAL", "JALR", "ECALL", "reserved"}
LEMMA NamesDiffer ==
  ASSUME NEW op
  PROVE  /\ op \in ISA!Branches => op \notin Singles \cup ISA!Loads \cup ISA!Stores \cup ISA!OpImms \cup ISA!Ops
         /\ op \in ISA!Loads => op \notin Singles \cup ISA!Stores \cup ISA!OpImms \cup ISA!Ops
         /\ op \in ISA!Stores => op \notin Singles \cup ISA!OpImms \cup ISA!Ops
         /\ op \in ISA!OpImms => op \notin Singles \cup ISA!Ops
         /\ op \in ISA!Ops => op \notin Singles
         /\ op \in ISA!Shifts => op \in ISA!OpImms
  BY DEF Singles, ISA!Branches, ISA!Loads, ISA!Stores, ISA!OpImms, ISA!Shifts, ISA!Ops

LEMMA EncodedOp ==
  ASSUME NEW i, i.op \in ISA!Ops
  PROVE  ISA!Encode(i) = RWord(ISA!F7(i.op), i.rs2, i.rs1, ISA!F3[i.op], i.rd, 51)
  <1>1. /\ i.op # "LUI" /\ i.op # "AUIPC" /\ i.op # "JAL" /\ i.op # "JALR" /\ i.op # "ECALL" /\ i.op # "reserved"
        /\ i.op \notin ISA!Branches /\ i.op \notin ISA!Loads /\ i.op \notin ISA!Stores /\ i.op \notin ISA!Shifts
        /\ i.op \notin ISA!OpImms \ ISA!Shifts
    BY NamesDiffer, Zenon DEF Singles
  <1> QED BY <1>1, Zenon DEF ISA!Encode, RWord, IWord

LEMMA EncodedShift ==
  ASSUME NEW i, i.op \in ISA!Shifts
  PROVE  ISA!Encode(i) = RWord(ISA!F7(i.op), i.imm, i.rs1, ISA!F3[i.op], i.rd, 19)
  <1>1. /\ i.op # "LUI" /\ i.op # "AUIPC" /\ i.op # "JAL" /\ i.op # "JALR" /\ i.op # "ECALL" /\ i.op # "reserved"
        /\ i.op \notin ISA!Branches /\ i.op \notin ISA!Loads /\ i.op \notin ISA!Stores /\ i.op \notin ISA!Ops
        /\ i.op \notin ISA!OpImms \ ISA!Shifts
    BY NamesDiffer, Zenon DEF Singles
  <1> QED BY <1>1, Zenon DEF ISA!Encode, RWord, IWord

LEMMA EncodedImm ==
  ASSUME NEW i, i.op \in ISA!OpImms \ ISA!Shifts
  PROVE  ISA!Encode(i) = IWord(i.imm, i.rs1, ISA!F3[i.op], i.rd, 19)
  <1>1. /\ i.op # "LUI" /\ i.op # "AUIPC" /\ i.op # "JAL" /\ i.op # "JALR" /\ i.op # "ECALL" /\ i.op # "reserved"
        /\ i.op \notin ISA!Branches /\ i.op \notin ISA!Loads /\ i.op \notin ISA!Stores /\ i.op \notin ISA!Ops
        /\ i.op \notin ISA!Shifts
    BY NamesDiffer, Zenon DEF Singles
  <1> QED BY <1>1, Zenon DEF ISA!Encode, RWord, IWord

LEMMA EncodedLoad ==
  ASSUME NEW i, i.op \in ISA!Loads
  PROVE  ISA!Encode(i) = IWord(i.imm, i.rs1, ISA!F3[i.op], i.rd, 3)
  <1>1. /\ i.op # "LUI" /\ i.op # "AUIPC" /\ i.op # "JAL" /\ i.op # "JALR" /\ i.op # "ECALL" /\ i.op # "reserved"
        /\ i.op \notin ISA!Branches /\ i.op \notin ISA!Stores /\ i.op \notin ISA!Ops
        /\ i.op \notin ISA!Shifts /\ i.op \notin ISA!OpImms \ ISA!Shifts
    BY NamesDiffer, Zenon DEF Singles
  <1> QED BY <1>1, Zenon DEF ISA!Encode, RWord, IWord

LEMMA EncodedStore ==
  ASSUME NEW i, i.op \in ISA!Stores
  PROVE  ISA!Encode(i) = RWord(i.imm \div 32, i.rs2, i.rs1, ISA!F3[i.op], i.imm % 32, 35)
  <1>1. /\ i.op # "LUI" /\ i.op # "AUIPC" /\ i.op # "JAL" /\ i.op # "JALR" /\ i.op # "ECALL" /\ i.op # "reserved"
        /\ i.op \notin ISA!Branches /\ i.op \notin ISA!Loads /\ i.op \notin ISA!Ops
        /\ i.op \notin ISA!Shifts /\ i.op \notin ISA!OpImms \ ISA!Shifts
    BY NamesDiffer, Zenon DEF Singles
  <1> QED BY <1>1, Zenon DEF ISA!Encode, RWord, IWord

LEMMA EncodedBranch ==
  ASSUME NEW i, i.op \in ISA!Branches
  PROVE  ISA!Encode(i) = ISA!Slice(i.imm, 10, 5) * 2^25 + i.rs2 * 2^20 + i.rs1 * 2^15 + ISA!F3[i.op] * 2^12
                           + ISA!Slice(i.imm, 4, 1) * 2^8 + ISA!Slice(i.imm, 11, 11) * 2^7 + 99 + ISA!SignBit(i.imm)
  <1>1. /\ i.op # "LUI" /\ i.op # "AUIPC" /\ i.op # "JAL" /\ i.op # "JALR" /\ i.op # "ECALL" /\ i.op # "reserved"
        /\ i.op \notin ISA!Loads /\ i.op \notin ISA!Stores /\ i.op \notin ISA!Ops
        /\ i.op \notin ISA!Shifts /\ i.op \notin ISA!OpImms \ ISA!Shifts
    BY NamesDiffer, Zenon DEF Singles
  <1> QED BY <1>1, Zenon DEF ISA!Encode, RWord, IWord

LEMMA EncodedSingle ==
  ASSUME NEW i
  PROVE  /\ i.op = "LUI" => ISA!Encode(i) = UWord(i.imm, i.rd, 55)
         /\ i.op = "AUIPC" => ISA!Encode(i) = UWord(i.imm, i.rd, 23)
         /\ i.op = "JAL" => ISA!Encode(i) = ISA!Slice(i.imm, 10, 1) * 2^21 + ISA!Slice(i.imm, 11, 11) * 2^20
                              + ISA!Slice(i.imm, 19, 12) * 2^12 + i.rd * 2^7 + 111 + ISA!SignBit(i.imm)
         /\ i.op = "JALR" => ISA!Encode(i) = IWord(i.imm, i.rs1, ISA!F3[i.op], i.rd, 103)
         /\ i.op = "ECALL" => ISA!Encode(i) = 115
         /\ i.op = "reserved" => ISA!Encode(i) = i.imm
  <1>1. ASSUME i.op \in Singles
        PROVE  /\ i.op \notin ISA!Branches /\ i.op \notin ISA!Loads /\ i.op \notin ISA!Stores /\ i.op \notin ISA!Ops
               /\ i.op \notin ISA!Shifts /\ i.op \notin ISA!OpImms \ ISA!Shifts
    BY <1>1, NamesDiffer, Zenon
  <1>2. CASE i.op = "LUI"
    BY <1>1, <1>2, Zenon DEF Singles, ISA!Encode, IWord, UWord
  <1>3. CASE i.op = "AUIPC"
    BY <1>1, <1>3, Zenon DEF Singles, ISA!Encode, IWord, UWord
  <1>4. CASE i.op = "JAL"
    BY <1>1, <1>4, Zenon DEF Singles, ISA!Encode, IWord, UWord
  <1>5. CASE i.op = "JALR"
    BY <1>1, <1>5, Zenon DEF Singles, ISA!Encode, IWord, UWord
  <1>6. CASE i.op = "ECALL"
    BY <1>1, <1>6, Zenon DEF Singles, ISA!Encode, IWord, UWord
  <1>7. CASE i.op = "reserved"
    BY <1>1, <1>7, Zenon DEF Singles, ISA!Encode, IWord, UWord
  <1> QED BY <1>2, <1>3, <1>4, <1>5, <1>6, <1>7, Zenon

-----------------------------------------------------------------------------
(* Decoding: every word that Encode makes is taken for its instruction.     *)

\* Registers of an instruction.
HasRegisters(i) == i.rd \in Regs5 /\ i.rs1 \in Regs5 /\ i.rs2 \in Regs5

\* funct3 and funct7, and the names that the code's switches find for them.
LEMMA OpNames ==
  ASSUME NEW op \in ISA!Ops
  PROVE  /\ ISA!F3[op] \in Funcs /\ ISA!F7(op) \in {0, 1, 32}
         /\ (funct3 = ISA!F3[op] /\ funct7 = ISA!F7(op) => OpCase = op)
  BY DEF Funcs, OpCase, Case, Ops, Ms, ShiftRight, ISA!Ops, ISA!F7, ISA!F3

LEMMA AccessNames ==
  /\ \A op \in ISA!Loads : ISA!F3[op] \in Funcs /\ Case(Loads, ISA!F3[op]) = op
  /\ \A op \in ISA!Stores : ISA!F3[op] \in Funcs /\ Case(Stores, ISA!F3[op]) = op
  /\ \A op \in ISA!Branches : ISA!F3[op] \in Funcs /\ Case(Branches, ISA!F3[op]) = op
  /\ ISA!F3["JALR"] = 0
  <1>1. \A op \in ISA!Loads : ISA!F3[op] \in Funcs /\ Case(Loads, ISA!F3[op]) = op
    BY DEF Funcs, Case, Loads, ISA!F3, ISA!Loads
  <1>2. \A op \in ISA!Stores : ISA!F3[op] \in Funcs /\ Case(Stores, ISA!F3[op]) = op
    BY DEF Funcs, Case, Stores, ISA!F3, ISA!Stores
  <1>3. \A op \in ISA!Branches : ISA!F3[op] \in Funcs /\ Case(Branches, ISA!F3[op]) = op
    BY DEF Funcs, Case, Branches, ISA!F3, ISA!Branches
  <1>4. ISA!F3["JALR"] = 0
    BY DEF ISA!F3
  <1> QED BY <1>1, <1>2, <1>3, <1>4

\* The name of the case that an operation with an immediate comes to.
ImmCase(op) ==
  CASE op = "ADDI" -> "ADD" [] op = "SLTI" -> "SLT" [] op = "SLTIU" -> "SLTIU" [] op = "XORI" -> "XOR"
    [] op = "ORI" -> "OR" [] op = "ANDI" -> "AND" [] op = "SLLI" -> "SLL" [] op = "SRLI" -> "SRL" [] op = "SRAI" -> "SRA"

LEMMA ImmNames ==
  ASSUME NEW op \in ISA!OpImms
  PROVE  /\ ISA!F3[op] \in Funcs /\ ISA!F7(op) = IF op = "SRAI" THEN 32 ELSE 0
         /\ (funct3 = ISA!F3[op] /\ (op \in ISA!Shifts => funct7 = ISA!F7(op)) => OpImmCase = ImmCase(op))
  <1>1. ISA!F3[op] \in Funcs /\ ISA!F7(op) = IF op = "SRAI" THEN 32 ELSE 0
    BY DEF Funcs, ISA!OpImms, ISA!Shifts, ISA!F7, ISA!F3
  <1>2. ASSUME op \in ISA!Shifts, funct3 = ISA!F3[op], funct7 = ISA!F7(op) PROVE OpImmCase = ImmCase(op)
    BY <1>2 DEF ISA!Shifts, ISA!F7, ISA!F3, OpImmCase, Case, OpImms, ShiftRight, ImmCase
  <1>3. ASSUME op \notin ISA!Shifts, funct3 = ISA!F3[op] PROVE OpImmCase = ImmCase(op)
    BY <1>3 DEF ISA!OpImms, ISA!Shifts, ISA!F3, OpImmCase, Case, OpImms, ImmCase
  <1> QED BY <1>1, <1>2, <1>3

LEMMA Constants == 51 \in Codes7 /\ 103 \in Codes7 /\ 3 \in Codes7 /\ 19 \in Codes7 /\ 35 \in Codes7 /\ 99 \in Codes7
                   /\ 55 \in Codes7 /\ 23 \in Codes7 /\ 111 \in Codes7 /\ 115 \in Codes7 /\ 0 \in Funcs
BY DEF Codes7, Funcs

\* Operations on registers.
LEMMA OpDecoded ==
  ASSUME NEW i, HasRegisters(i), i.op \in ISA!Ops, ins = ISA!Encode(i)
  PROVE  opcode = 51 /\ rd = i.rd /\ rs1 = i.rs1 /\ rs2 = i.rs2 /\ OpCase = i.op
  <1>1. PICK f7, f3 : f7 = ISA!F7(i.op) /\ f3 = ISA!F3[i.op]
    OBVIOUS
  <1>2. f7 \in {0, 1, 32} /\ f3 \in Funcs
    BY <1>1, OpNames
  <1>3. ins = RWord(f7, i.rs2, i.rs1, f3, i.rd, 51)
    BY <1>1, EncodedOp
  <1>4. f7 \in Int
    BY <1>2
  <1>5. opcode = 51 /\ rd = i.rd /\ rs1 = i.rs1 /\ rs2 = i.rs2 /\ funct3 = f3 /\ funct7 = f7 % 128
    BY <1>2, <1>3, <1>4, FieldsAre, Constants DEF HasRegisters
  <1>6. funct7 = f7
    BY <1>2, <1>5
  <1> QED BY <1>1, <1>5, <1>6, OpNames

\* Words with an immediate of twelve bits.
LEMMA ImmediateIs ==
  ASSUME NEW imm \in Imm12, NEW r1 \in Regs5, NEW f3 \in Funcs, NEW d \in Regs5, NEW o \in Codes7, ins = IWord(imm, r1, f3, d, o)
  PROVE  opcode = o /\ rd = d /\ funct3 = f3 /\ rs1 = r1 /\ ImmI = imm /\ funct7 = (imm \div 32) % 128
  <1>1. PICK f7, r2 : f7 = imm \div 32 /\ r2 = imm % 32
    OBVIOUS
  <1>2. imm = f7 * 32 + r2 /\ f7 \in Int /\ r2 \in Regs5 /\ imm \in Int
    BY <1>1 DEF Imm12, Regs5
  <1>3. ins = RWord(f7, r2, r1, f3, d, o)
    <2>1. imm * 2^20 = f7 * 2^25 + r2 * 2^20
      BY <1>2 DEF Regs5
    <2> QED BY <2>1, Zenon DEF RWord, IWord
  <1>4. opcode = o /\ rd = d /\ funct3 = f3 /\ rs1 = r1 /\ funct7 = f7 % 128 /\ Field(20, 12) = (f7 * 32 + r2) % 2^12
    BY <1>2, <1>3, FieldsAre
  <1>5. ImmI = imm
    <2>1. Field(20, 12) = imm % 4096
      BY <1>2, <1>4
    <2>2. imm = IF imm % 4096 >= 2048 THEN (imm % 4096) - 4096 ELSE imm % 4096
      BY DEF Imm12
    <2> QED BY <2>1, <2>2 DEF ImmI, SignExtend
  <1> QED BY <1>1, <1>4, <1>5

LEMMA JalrDecoded ==
  ASSUME NEW i, HasRegisters(i), i.op = "JALR", i.imm \in Imm12, ins = ISA!Encode(i)
  PROVE  opcode = 103 /\ rd = i.rd /\ rs1 = i.rs1 /\ ImmI = i.imm
  <1>1. ins = IWord(i.imm, i.rs1, 0, i.rd, 103)
    BY EncodedSingle, AccessNames
  <1> QED BY <1>1, ImmediateIs, Constants DEF HasRegisters

LEMMA LoadDecoded ==
  ASSUME NEW i, HasRegisters(i), i.op \in ISA!Loads, i.imm \in Imm12, ins = ISA!Encode(i)
  PROVE  opcode = 3 /\ rd = i.rd /\ rs1 = i.rs1 /\ ImmI = i.imm /\ Case(Loads, funct3) = i.op
  <1>1. ins = IWord(i.imm, i.rs1, ISA!F3[i.op], i.rd, 3) /\ ISA!F3[i.op] \in Funcs
    BY EncodedLoad, AccessNames
  <1>2. opcode = 3 /\ rd = i.rd /\ rs1 = i.rs1 /\ ImmI = i.imm /\ funct3 = ISA!F3[i.op]
    BY <1>1, ImmediateIs, Constants DEF HasRegisters
  <1> QED BY <1>2, AccessNames

\* The immediate of a shift is its amount, below the bit that makes it arithmetic.
LEMMA OpImmDecoded ==
  ASSUME NEW i, HasRegisters(i), i.op \in ISA!OpImms, ins = ISA!Encode(i),
         i.op \in ISA!Shifts => i.imm \in Regs5, i.op \notin ISA!Shifts => i.imm \in Imm12
  PROVE  /\ opcode = 19 /\ rd = i.rd /\ rs1 = i.rs1 /\ OpImmCase = ImmCase(i.op)
         /\ ImmI = IF i.op = "SRAI" THEN 1024 + i.imm ELSE i.imm
  <1>1. PICK f3 : f3 = ISA!F3[i.op] /\ f3 \in Funcs
    BY ImmNames
  <1>2. CASE i.op \notin ISA!Shifts
    <2>1. ins = IWord(i.imm, i.rs1, f3, i.rd, 19)
      BY <1>1, <1>2, EncodedImm
    <2>2. opcode = 19 /\ rd = i.rd /\ rs1 = i.rs1 /\ ImmI = i.imm /\ funct3 = f3
      BY <1>1, <1>2, <2>1, ImmediateIs, Constants DEF HasRegisters
    <2>3. OpImmCase = ImmCase(i.op)
      BY <1>1, <1>2, <2>2, ImmNames
    <2>4. i.op # "SRAI"
      BY <1>2 DEF ISA!Shifts
    <2> QED BY <2>2, <2>3, <2>4
  <1>3. CASE i.op \in ISA!Shifts
    <2>1. PICK f7 : f7 = ISA!F7(i.op)
      OBVIOUS
    <2>2. f7 = IF i.op = "SRAI" THEN 32 ELSE 0
      BY <2>1, ImmNames
    <2>3. i.imm \in 0..31
      BY <1>3 DEF Regs5
    <2>4. PICK n : n = f7 * 32 + i.imm /\ n = IF i.op = "SRAI" THEN 1024 + i.imm ELSE i.imm
      BY <2>2, <2>3
    <2>5. n \in Imm12 /\ (n \div 32) % 128 = f7
      <3>1. \A k \in 0..31 : /\ 1024 + k \in Imm12 /\ ((1024 + k) \div 32) % 128 = 32
                            /\ k \in Imm12 /\ (k \div 32) % 128 = 0
        BY DEF Imm12
      <3> QED BY <3>1, <2>2, <2>3, <2>4
    <2>6. ins = RWord(f7, i.imm, i.rs1, f3, i.rd, 19)
      BY <1>1, <1>3, <2>1, EncodedShift
    <2>7. f7 * 2^25 + i.imm * 2^20 = n * 2^20
      BY <2>2, <2>3, <2>4
    <2>8. ins = IWord(n, i.rs1, f3, i.rd, 19)
      BY <2>6, <2>7, Zenon DEF RWord, IWord
    <2>9. opcode = 19 /\ rd = i.rd /\ rs1 = i.rs1 /\ ImmI = n /\ funct3 = f3 /\ funct7 = (n \div 32) % 128
      BY <1>1, <2>5, <2>8, ImmediateIs, Constants DEF HasRegisters
    <2>10. OpImmCase = ImmCase(i.op)
      BY <1>1, <2>1, <2>5, <2>9, ImmNames
    <2> QED BY <2>4, <2>9, <2>10
  <1> QED BY <1>2, <1>3

LEMMA StoreDecoded ==
  ASSUME NEW i, HasRegisters(i), i.op \in ISA!Stores, i.imm \in Imm12, ins = ISA!Encode(i)
  PROVE  opcode = 35 /\ rs1 = i.rs1 /\ rs2 = i.rs2 /\ ImmS = i.imm /\ Case(Stores, funct3) = i.op
  <1>1. PICK f3 : f3 = ISA!F3[i.op] /\ f3 \in Funcs /\ Case(Stores, f3) = i.op
    BY AccessNames
  <1>2. PICK f7, d : f7 = i.imm \div 32 /\ d = i.imm % 32
    OBVIOUS
  <1>3. f7 \in -64..63 /\ d \in 0..31 /\ i.imm = f7 * 32 + d
    <2>1. \A m \in Imm12 : m \div 32 \in -64..63 /\ m % 32 \in 0..31 /\ m = (m \div 32) * 32 + (m % 32)
      BY DEF Imm12
    <2> QED BY <2>1, <1>2
  <1>4. ins = RWord(f7, i.rs2, i.rs1, f3, d, 35)
    BY <1>1, <1>2, EncodedStore
  <1>5. f7 \in Int /\ d \in Regs5
    BY <1>3 DEF Regs5
  <1>6. opcode = 35 /\ rd = d /\ funct3 = f3 /\ rs1 = i.rs1 /\ rs2 = i.rs2 /\ funct7 = f7 % 128
    BY <1>1, <1>4, <1>5, FieldsAre, Constants DEF HasRegisters
  <1>7. ImmS = i.imm
    <2>1. Field(25, 7) = f7 % 128 /\ Field(7, 5) = d
      BY <1>6 DEF funct7, rd
    <2>2. SignExtend((f7 % 128) * 32 + d, 12) = f7 * 32 + d
      <3>1. (f7 % 128) * 32 + d = IF f7 < 0 THEN f7 * 32 + d + 4096 ELSE f7 * 32 + d
        BY <1>3
      <3>2. 2^12 = 4096 /\ 2^(12 - 1) = 2048
        OBVIOUS
      <3> QED BY <3>1, <3>2, <1>3 DEF SignExtend
    <2> QED BY <2>1, <2>2, <1>3 DEF ImmS
  <1> QED BY <1>1, <1>6, <1>7

Imm13 == {m \in -(2^12)..(2^12 - 1) : m % 2 = 0}
Imm21 == {m \in -(2^20)..(2^20 - 1) : m % 2 = 0}

\* The immediate of a branch from its parts,
LEMMA BranchParts ==
  ASSUME NEW m \in Imm13, NEW s1, NEW s2, NEW s3,
         s1 = ISA!Slice(m, 4, 1), s2 = ISA!Slice(m, 10, 5), s3 = ISA!Slice(m, 11, 11)
  PROVE  /\ s1 \in 0..15 /\ s2 \in 0..63 /\ s3 \in 0..1
         /\ m = s1 * 2 + s2 * 32 + s3 * 2048 - (IF m < 0 THEN 4096 ELSE 0)
         /\ m \in -4096..4095
  <1>1. m \in -4096..4095 /\ m % 2 = 0
    BY DEF Imm13
  <1>2. s1 = (m \div 2) % 16 /\ s2 = (m \div 32) % 64 /\ s3 = (m \div 2048) % 2
    BY DEF ISA!Slice
  <1>3. PICK h, g, k : h = m \div 2 /\ g = m \div 32 /\ k = m \div 2048
    OBVIOUS
  <1>4. h \in Int /\ g \in Int /\ k \in -2..1 /\ m = 2 * h
    BY <1>1, <1>3
  <1>5. g = h \div 16 /\ k = g \div 64
    BY <1>1, <1>3
  <1>6. h = 16 * g + s1 /\ s1 \in 0..15
    BY <1>2, <1>3, <1>4, <1>5
  <1>7. g = 64 * k + s2 /\ s2 \in 0..63
    BY <1>2, <1>3, <1>4, <1>5
  <1>8. s3 \in 0..1 /\ k = s3 - (IF k < 0 THEN 2 ELSE 0)
    BY <1>2, <1>3, <1>4
  <1>9. k < 0 <=> m < 0
    BY <1>1, <1>3
  <1>10. m = s1 * 2 + s2 * 32 + k * 2048
    BY <1>4, <1>6, <1>7
  <1>11. k * 2048 = s3 * 2048 - (IF m < 0 THEN 4096 ELSE 0)
    BY <1>4, <1>8, <1>9
  <1>12. m = s1 * 2 + s2 * 32 + s3 * 2048 - (IF m < 0 THEN 4096 ELSE 0)
    BY <1>6, <1>7, <1>8, <1>10, <1>11, SMTT(30)
  <1> QED BY <1>1, <1>6, <1>7, <1>8, <1>12

LEMMA TwoToTwenty == 2^20 = 1048576
OBVIOUS

\* and of a jump.
LEMMA JumpParts ==
  ASSUME NEW m \in Imm21, NEW s1, NEW s2, NEW s3,
         s1 = ISA!Slice(m, 10, 1), s2 = ISA!Slice(m, 11, 11), s3 = ISA!Slice(m, 19, 12)
  PROVE  /\ s1 \in 0..1023 /\ s2 \in 0..1 /\ s3 \in 0..255
         /\ m = s1 * 2 + s2 * 2048 + s3 * 4096 - (IF m < 0 THEN 2^20 ELSE 0)
         /\ m \in -(2^20)..(2^20 - 1)
  <1>1. m \in -(2^20)..(2^20 - 1) /\ m % 2 = 0
    BY DEF Imm21
  <1>2. s1 = (m \div 2) % 1024 /\ s2 = (m \div 2048) % 2 /\ s3 = (m \div 4096) % 256
    BY DEF ISA!Slice
  <1>3. PICK h, g, k, j : h = m \div 2 /\ g = m \div 2048 /\ k = m \div 4096 /\ j = m \div 2^20
    OBVIOUS
  <1>4. h \in Int /\ g \in Int /\ k \in Int /\ j \in -1..0 /\ m = 2 * h
    BY <1>1, <1>3
  <1>5. g = h \div 1024 /\ k = g \div 2 /\ j = k \div 256
    BY <1>1, <1>3
  <1>6. h = 1024 * g + s1 /\ s1 \in 0..1023
    BY <1>2, <1>3, <1>4, <1>5
  <1>7. g = 2 * k + s2 /\ s2 \in 0..1
    BY <1>2, <1>3, <1>4, <1>5
  <1>8. k = 256 * j + s3 /\ s3 \in 0..255
    BY <1>2, <1>3, <1>4, <1>5
  <1>9. j = IF m < 0 THEN -1 ELSE 0
    BY <1>1, <1>3
  <1>10. m = s1 * 2 + s2 * 2048 + s3 * 4096 + j * 1048576
    BY <1>4, <1>6, <1>7, <1>8
  <1>11. 2^20 = 1048576
    BY TwoToTwenty, SMTT(30)
  <1>12. m = s1 * 2 + s2 * 2048 + s3 * 4096 - (IF m < 0 THEN 1048576 ELSE 0)
    BY <1>4, <1>6, <1>7, <1>8, <1>9, <1>10
  <1>13. m = s1 * 2 + s2 * 2048 + s3 * 4096 - (IF m < 0 THEN 2^20 ELSE 0)
    BY <1>11, <1>12
  <1> QED BY <1>1, <1>6, <1>7, <1>8, <1>13

LEMMA BranchDecoded ==
  ASSUME NEW i, HasRegisters(i), i.op \in ISA!Branches, i.imm \in Imm13, ins = ISA!Encode(i)
  PROVE  opcode = 99 /\ rs1 = i.rs1 /\ rs2 = i.rs2 /\ ImmB = i.imm /\ Case(Branches, funct3) = i.op
  <1>1. PICK f3 : f3 = ISA!F3[i.op] /\ f3 \in Funcs /\ Case(Branches, f3) = i.op
    BY AccessNames
  <1>2. PICK m, s1, s2, s3 : /\ m = i.imm /\ s1 = ISA!Slice(m, 4, 1) /\ s2 = ISA!Slice(m, 10, 5) /\ s3 = ISA!Slice(m, 11, 11)
    BY Zenon
  <1>3. s1 \in 0..15 /\ s2 \in 0..63 /\ s3 \in 0..1 /\ m = s1 * 2 + s2 * 32 + s3 * 2048 - (IF m < 0 THEN 4096 ELSE 0) /\ m \in -4096..4095
    BY <1>2, BranchParts
  <1>4. PICK f7, d : f7 = s2 - (IF m < 0 THEN 64 ELSE 0) /\ d = s1 * 2 + s3
    OBVIOUS
  <1>5. f7 \in Int /\ d \in Regs5 /\ d \div 2 = s1 /\ d % 2 = s3 /\ f7 % 64 = s2 /\ (f7 < 0 <=> m < 0)
    BY <1>3, <1>4 DEF Regs5
  <1>6. ins = RWord(f7, i.rs2, i.rs1, f3, d, 99)
    <2>1. PICK r1, r2 : r1 = i.rs1 /\ r2 = i.rs2 /\ r1 \in 0..31 /\ r2 \in 0..31
      BY DEF HasRegisters, Regs5
    <2>2. ins = s2 * 2^25 + r2 * 2^20 + r1 * 2^15 + f3 * 2^12 + s1 * 2^8 + s3 * 2^7 + 99 + ISA!SignBit(m)
      BY <2>1, <1>1, <1>2, EncodedBranch
    <2>3. f3 \in 0..7
      BY <1>1 DEF Funcs
    <2>4. RWord(f7, r2, r1, f3, d, 99) = f7 * 2^25 + r2 * 2^20 + r1 * 2^15 + f3 * 2^12 + d * 2^7 + 99
      BY DEF RWord
    <2>5. f7 * 2^25 = s2 * 2^25 + ISA!SignBit(m) /\ d * 2^7 = s1 * 2^8 + s3 * 2^7 /\ ISA!SignBit(m) \in Int
      BY <1>3, <1>4 DEF ISA!SignBit
    <2> QED BY <2>1, <2>2, <2>3, <2>4, <2>5, <1>3, <1>4
  <1>7. /\ opcode = 99 /\ funct3 = f3 /\ rs1 = i.rs1 /\ rs2 = i.rs2 /\ Field(25, 6) = s2 /\ Field(8, 4) = s1 /\ Field(7, 1) = s3
        /\ Bit31 = IF m < 0 THEN 1 ELSE 0
    BY <1>1, <1>5, <1>6, FieldsAre, Constants DEF HasRegisters
  <1>8. ImmB = m
    <2>1. PICK b : b = Bit31 /\ b = IF m < 0 THEN 1 ELSE 0
      BY <1>7
    <2>2. SignExtend(s1 * 2 + s2 * 32 + s3 * 2048 + b * 4096, 13) = m
      <3>1. 2^13 = 8192 /\ 2^(13 - 1) = 4096
        OBVIOUS
      <3> QED BY <3>1, <2>1, <1>3 DEF SignExtend
    <2>3. 2^11 = 2048 /\ 2^12 = 4096
      OBVIOUS
    <2> QED BY <2>1, <2>2, <2>3, <1>7 DEF ImmB
  <1> QED BY <1>1, <1>2, <1>7, <1>8

LEMMA JalDecoded ==
  ASSUME NEW i, HasRegisters(i), i.op = "JAL", i.imm \in Imm21, ins = ISA!Encode(i)
  PROVE  opcode = 111 /\ rd = i.rd /\ ImmJ = i.imm
  <1>1. PICK m, s1, s2, s3 : /\ m = i.imm /\ s1 = ISA!Slice(m, 10, 1) /\ s2 = ISA!Slice(m, 11, 11) /\ s3 = ISA!Slice(m, 19, 12)
    OBVIOUS
  <1>2. /\ s1 \in 0..1023 /\ s2 \in 0..1 /\ s3 \in 0..255 /\ m \in -(2^20)..(2^20 - 1)
        /\ m = s1 * 2 + s2 * 2048 + s3 * 4096 - (IF m < 0 THEN 2^20 ELSE 0)
    BY <1>1, JumpParts
  <1>3. PICK top : top = s1 * 512 + s2 * 256 + s3 - (IF m < 0 THEN 2^19 ELSE 0)
    OBVIOUS
  <1>4. /\ top \in Int /\ (top \div 512) % 1024 = s1 /\ (top \div 256) % 2 = s2 /\ top % 256 = s3
        /\ (top < 0 <=> m < 0)
    <2>1. top \in Int
      BY <1>2, <1>3
    <2>2. PICK n : n = (IF m < 0 THEN -1024 ELSE 0)
      OBVIOUS
    <2>3. top = (s1 + n) * 512 + (s2 * 256 + s3) /\ s2 * 256 + s3 \in 0..511 /\ s1 + n \in Int
      BY <1>2, <1>3, <2>2
    <2>4. top \div 512 = s1 + n
      BY <2>1, <2>3
    <2>5. (s1 + n) % 1024 = s1
      BY <1>2, <2>2
    <2>6. top = ((s1 + n) * 2 + s2) * 256 + s3 /\ (s1 + n) * 2 + s2 \in Int
      BY <1>2, <2>2, <2>3
    <2>7. top \div 256 = (s1 + n) * 2 + s2 /\ top % 256 = s3
      BY <1>2, <2>1, <2>6
    <2>8. ((s1 + n) * 2 + s2) % 2 = s2
      BY <1>2, <2>3
    <2>9. top < 0 <=> m < 0
      BY <1>2, <1>3
    <2> QED BY <2>1, <2>4, <2>5, <2>7, <2>8, <2>9
  <1>5. ins = UWord(top, i.rd, 111)
    <2>1. PICK d : d = i.rd /\ d \in 0..31
      BY DEF HasRegisters, Regs5
    <2>2. ins = s1 * 2^21 + s2 * 2^20 + s3 * 2^12 + d * 2^7 + 111 + ISA!SignBit(m)
      BY <2>1, <1>1, EncodedSingle
    <2>3. UWord(top, d, 111) = top * 2^12 + d * 2^7 + 111
      BY DEF UWord
    <2>4. top * 2^12 = s1 * 2^21 + s2 * 2^20 + s3 * 2^12 + ISA!SignBit(m) /\ ISA!SignBit(m) \in Int
      BY <1>2, <1>3 DEF ISA!SignBit
    <2> QED BY <2>1, <2>2, <2>3, <2>4, <1>2, <1>4
  <1>6. /\ opcode = 111 /\ rd = i.rd /\ Field(21, 10) = s1 /\ Field(20, 1) = s2 /\ Field(12, 8) = s3
        /\ Bit31 = IF m < 0 THEN 1 ELSE 0
    BY <1>4, <1>5, UpperFieldsAre, Constants DEF HasRegisters
  <1>7. ImmJ = m
    <2>1. PICK b : b = Bit31 /\ b = IF m < 0 THEN 1 ELSE 0
      BY <1>6
    <2>2. SignExtend(s1 * 2 + s2 * 2048 + s3 * 4096 + b * 2^20, 21) = m
      <3>1. 2^21 = 2 * 2^20 /\ 2^(21 - 1) = 2^20
        OBVIOUS
      <3> QED BY <3>1, <2>1, <1>2 DEF SignExtend
    <2>3. 2^11 = 2048 /\ 2^12 = 4096
      OBVIOUS
    <2> QED BY <2>1, <2>2, <2>3, <1>6 DEF ImmJ
  <1> QED BY <1>1, <1>6, <1>7

LEMMA UpperDecoded ==
  ASSUME NEW i, HasRegisters(i), i.op \in {"LUI", "AUIPC"}, i.imm \in Int, ins = ISA!Encode(i)
  PROVE  opcode = (IF i.op = "LUI" THEN 55 ELSE 23) /\ rd = i.rd /\ ImmU = i.imm * 2^UpperBits
  <1>1. ins = UWord(i.imm, i.rd, IF i.op = "LUI" THEN 55 ELSE 23)
    BY EncodedSingle
  <1>2. opcode = (IF i.op = "LUI" THEN 55 ELSE 23) /\ rd = i.rd /\ ins \div 2^12 = i.imm
    BY <1>1, UpperFieldsAre, Constants DEF HasRegisters
  <1> QED BY <1>2, Zenon DEF ImmU

LEMMA EcallDecoded ==
  ASSUME NEW i, i.op = "ECALL", ins = ISA!Encode(i)
  PROVE  opcode = 115
  <1>1. ins = 115
    BY EncodedSingle
  <1> QED BY <1>1 DEF opcode, Field

LEMMA ReservedDecoded ==
  ASSUME NEW i, i.op = "reserved", i.imm \in Int, ISA!Unassigned(i.imm), ins = ISA!Encode(i)
  PROVE  \/ opcode \notin {55, 23, 111, 103, 115, 99, 3, 35, 19, 51}
         \/ opcode = 99 /\ funct3 \in {2, 3}
         \/ opcode = 3 /\ funct3 \in {3, 6, 7}
         \/ opcode = 35 /\ funct3 \notin {0, 1, 2}
         \/ opcode = 19 /\ funct3 = 5 /\ funct7 \notin {0, 32}
         \/ opcode = 51 /\ funct3 \in {0, 5} /\ funct7 \notin {0, 1, 32}
  <1>1. ins = i.imm
    BY EncodedSingle
  <1>2. opcode = i.imm % 2^7
    BY <1>1 DEF opcode, Field
  <1>3. funct3 = ISA!Slice(i.imm, 14, 12)
    <2>1. 14 - 12 + 1 = 3
      OBVIOUS
    <2> QED BY <2>1, <1>1, Zenon DEF funct3, Field, ISA!Slice
  <1>4. funct7 = ISA!Slice(i.imm, 31, 25)
    <2>1. 31 - 25 + 1 = 7
      OBVIOUS
    <2> QED BY <2>1, <1>1, Zenon DEF funct7, Field, ISA!Slice
  <1> QED BY <1>2, <1>3, <1>4 DEF ISA!Unassigned

-----------------------------------------------------------------------------
(* What the instruction set sees of the simulator                           *)

X == [q \in 0..31 |-> IF q = 0 THEN 0 ELSE regs[q]]
B == [q \in 0..(WordValues - 1) |-> IF phase \in {"args", "load"} \/ exit = "no start" THEN 0 ELSE ByteAt(q)]
Status == CASE phase \in {"args", "load"} -> "off"
            [] phase = "run"             -> "running"
            [] exit = "terminate"        -> "ended"
            [] OTHER                     -> "trapped"

\* What is known of the machine while it runs.
RunInv == /\ phase = "run" => regs \in [0..31 -> Words] /\ MemoryOK(mem) /\ pc \in Int
          /\ phase # "end" => exit = ""

Running == phase = "run" /\ exit = "" /\ regs \in [0..31 -> Words] /\ MemoryOK(mem) /\ pc \in Int

LEMMA RegistersAre ==
  ASSUME Running
  PROVE  /\ cleared \in [0..31 -> Words] /\ DOMAIN cleared = 0..31 /\ X \in [0..31 -> Words]
         /\ \A r \in 0..31 : X[r] = cleared[r] /\ cleared[r] \in Words /\ cleared[r] \in Int
  <1>1. 0 \in Words /\ Words \subseteq Int
    BY Numbers DEF Words
  <1> QED BY <1>1 DEF Running, cleared, X

\* The registers: one has been set, none has.
LEMMA RegisterSet ==
  ASSUME Running, NEW d \in 0..31, NEW v, regs' = [cleared EXCEPT ![d] = Signed(v)]
  PROVE  ISA!Write(d, v)
  <1>1. regs \in [0..31 -> Words]
    BY DEF Running
  <1>2. X' = IF d = 0 THEN X ELSE [X EXCEPT ![d] = Signed(v)]
    BY <1>1 DEF X, cleared
  <1> QED BY <1>2, IsaSigned DEF ISA!Write, X

LEMMA NoRegisterSet ==
  ASSUME Running, regs' = cleared \/ regs' = regs
  PROVE  X' = X
  <1>1. regs \in [0..31 -> Words]
    BY DEF Running
  <1> QED BY <1>1 DEF X, cleared

LEMMA MemoryKept ==
  ASSUME NEW m, MemoryOK(m), NEW a \in Int
  PROVE  \A q \in 0..(WordValues - 1) : memory_rd_b(get_page(m, a), q) = memory_rd_b(m, q)
  <1>1. \A q \in 0..(WordValues - 1) : q \in Int
    BY Numbers
  <1> QED BY <1>1, BytesKept

\* The memory: it is the same while the machine runs, and once it has ended.
LEMMA BytesSame ==
  ASSUME Running, phase' \in {"run", "end"}, exit' # "no start",
         mem' = mem \/ \E a \in Int : mem' = get_page(mem, a)
  PROVE  B' = B
  <1>1. phase = "run" /\ exit = "" /\ MemoryOK(mem)
    BY DEF Running
  <1>2. \A q \in 0..(WordValues - 1) : memory_rd_b(mem', q) = memory_rd_b(mem, q)
    <2>1. ASSUME NEW a \in Int, mem' = get_page(mem, a)
          PROVE  \A q \in 0..(WordValues - 1) : memory_rd_b(mem', q) = memory_rd_b(mem, q)
      BY <1>1, <2>1, MemoryKept
    <2> QED BY <2>1
  <1> QED BY <1>1, <1>2 DEF B, ByteAt

LEMMA QuietIs ==
  ASSUME Running, phase' = phase, exit' = exit, output' = output, mem' = mem \/ \E a \in Int : mem' = get_page(mem, a)
  PROVE  ISA!Quiet
  <1>1. phase = "run" /\ exit = ""
    BY DEF Running
  <1>2. B' = B
    BY <1>1, BytesSame
  <1>3. Status' = Status
    BY DEF Status
  <1> QED BY <1>2, <1>3 DEF ISA!Quiet, B, Status

\* The machine stops at a trap, and at the end of the program.
LEMMA TrapIs ==
  ASSUME Running, phase' = "end", exit' \notin {"no start", "terminate"}, regs' = cleared \/ regs' = regs,
         UNCHANGED <<mem, output, pc>>
  PROVE  ISA!Trap
  <1>1. phase = "run" /\ exit = ""
    BY DEF Running
  <1>2. B' = B /\ X' = X
    BY <1>1, BytesSame, NoRegisterSet
  <1>3. Status' = "trapped"
    BY DEF Status
  <1> QED BY <1>2, <1>3 DEF ISA!Trap, B, Status, X

LEMMA EndIs ==
  ASSUME Running, phase' = "end", exit' = "terminate", regs' = cleared, UNCHANGED <<mem, output, pc>>
  PROVE  Status' = "ended" /\ X' = X /\ B' = B /\ UNCHANGED <<pc, output>>
  <1>1. phase = "run" /\ exit = ""
    BY DEF Running
  <1>2. B' = B /\ X' = X
    BY <1>1, BytesSame, NoRegisterSet
  <1> QED BY <1>2, ZenonT(40) DEF Status

-----------------------------------------------------------------------------
(* What an instruction may do in the instruction set                        *)

LEMMA ExecuteIs ==
  ASSUME NEW i, NEW a, NEW b, NEW addr, a = X[i.rs1], b = X[i.rs2], addr = Unsigned(a + i.imm)
  PROVE  /\ i.op \in ISA!Ops /\ ISA!Compute(i, a, b) => ISA!Execute(i)
         /\ i.op \in ISA!OpImms /\ ISA!Compute(i, a, i.imm) => ISA!Execute(i)
         /\ i.op = "LUI" /\ ISA!Write(i.rd, i.imm * 2^UpperBits) /\ pc' = pc + 4 /\ ISA!Quiet => ISA!Execute(i)
         /\ i.op = "AUIPC" /\ ISA!Write(i.rd, pc + i.imm * 2^UpperBits) /\ pc' = pc + 4 /\ ISA!Quiet => ISA!Execute(i)
         /\ i.op = "JAL" /\ ISA!Write(i.rd, pc + 4) /\ pc' = pc + i.imm /\ ISA!Quiet => ISA!Execute(i)
         /\ i.op = "JALR" /\ ISA!Write(i.rd, pc + 4) /\ pc' = Signed(addr) - (Signed(addr) % 2) /\ ISA!Quiet => ISA!Execute(i)
         /\ i.op \in ISA!Branches /\ X' = X /\ ISA!Quiet /\ pc' = pc + (IF ISA!Taken(i.op, a, b) THEN i.imm ELSE 4) => ISA!Execute(i)
         /\ i.op \in ISA!Loads /\ (IF ISA!Aligned(i.op, addr) THEN ISA!Load(i, addr) ELSE ISA!Trap) => ISA!Execute(i)
         /\ i.op \in ISA!Stores /\ (IF ISA!Aligned(i.op, addr) THEN ISA!Store(i, addr, b) ELSE ISA!Trap) => ISA!Execute(i)
         /\ i.op = "ECALL" /\ ISA!SystemCall => ISA!Execute(i)
         /\ i.op = "reserved" /\ (ISA!Trap \/ (X' = X /\ pc' = pc + 4 /\ ISA!Quiet)) => ISA!Execute(i)
  BY IsaSigned DEF ISA!Execute, X, ISA!GoTo

-----------------------------------------------------------------------------
(* The operations                                                           *)

LEMMA AluIs ==
  ASSUME NEW a, NEW b
  PROVE  /\ ISA!Alu("ADD", a, b) = a + b /\ ISA!Alu("ADDI", a, b) = a + b
         /\ ISA!Alu("SUB", a, b) = a - b
         /\ ISA!Alu("SLL", a, b) = a * 2^ISA!Amount(b) /\ ISA!Alu("SLLI", a, b) = a * 2^ISA!Amount(b)
         /\ ISA!Alu("SLT", a, b) = ISA!Flag(a < b) /\ ISA!Alu("SLTI", a, b) = ISA!Flag(a < b)
         /\ ISA!Alu("SLTU", a, b) = ISA!Flag(ISA!Unsigned(a) < ISA!Unsigned(b))
         /\ ISA!Alu("SLTIU", a, b) = ISA!Flag(ISA!Unsigned(a) < ISA!Unsigned(b))
         /\ ISA!Alu("XOR", a, b) = ISA!BitXor(ISA!Unsigned(a), ISA!Unsigned(b))
         /\ ISA!Alu("XORI", a, b) = ISA!BitXor(ISA!Unsigned(a), ISA!Unsigned(b))
         /\ ISA!Alu("SRL", a, b) = ISA!Unsigned(a) \div 2^ISA!Amount(b)
         /\ ISA!Alu("SRLI", a, b) = ISA!Unsigned(a) \div 2^ISA!Amount(b)
         /\ ISA!Alu("SRA", a, b) = a \div 2^ISA!Amount(b) /\ ISA!Alu("SRAI", a, b) = a \div 2^ISA!Amount(b)
         /\ ISA!Alu("OR", a, b) = ISA!BitOr(ISA!Unsigned(a), ISA!Unsigned(b))
         /\ ISA!Alu("ORI", a, b) = ISA!BitOr(ISA!Unsigned(a), ISA!Unsigned(b))
         /\ ISA!Alu("AND", a, b) = ISA!BitAnd(ISA!Unsigned(a), ISA!Unsigned(b))
         /\ ISA!Alu("ANDI", a, b) = ISA!BitAnd(ISA!Unsigned(a), ISA!Unsigned(b))
         /\ ISA!Alu("MUL", a, b) = a * b
         /\ ISA!Alu("DIV", a, b) = ISA!Quotient(a, b)
         /\ ISA!Alu("REM", a, b) = ISA!Remainder(a, b)
         /\ ISA!Alu("DIVU", a, b) = IF ISA!Unsigned(b) = 0 THEN -1 ELSE ISA!Unsigned(a) \div ISA!Unsigned(b)
         /\ ISA!Alu("REMU", a, b) = IF ISA!Unsigned(b) = 0 THEN ISA!Unsigned(a) ELSE ISA!Unsigned(a) % ISA!Unsigned(b)
BY Zenon DEF ISA!Alu

LEMMA ResultIs ==
  ASSUME NEW m, NEW n
  PROVE  /\ Result("ADD", m, n) = m + n /\ Result("SUB", m, n) = m - n /\ Result("SLL", m, n) = m * 2^Amount(n)
         /\ Result("SLT", m, n) = Flag(m < n) /\ Result("SLTU", m, n) = Flag(m < n)
         /\ Result("SLTIU", m, n) = Flag(Unsigned(m) < Unsigned(n))
         /\ Result("XOR", m, n) = BitXor(Unsigned(m), Unsigned(n))
         /\ Result("SRL", m, n) = Unsigned(m) \div 2^Amount(n) /\ Result("SRA", m, n) = m \div 2^Amount(n)
         /\ Result("OR", m, n) = BitOr(Unsigned(m), Unsigned(n)) /\ Result("AND", m, n) = BitAnd(Unsigned(m), Unsigned(n))
         /\ Result("MUL", m, n) = m * n /\ Result("MULH", m, n) = Signed(m * n) \div HalfValues
         /\ Result("MULHSU", m, n) = Unsigned(m * n) \div HalfValues /\ Result("MULHU", m, n) = Unsigned(m * n) \div HalfValues
         /\ Result("DIV", m, n) = Quotient(m, n) /\ Result("REM", m, n) = m - n * Quotient(m, n)
         /\ Result("DIVU", m, n) = Unsigned(m) \div Unsigned(n) /\ Result("REMU", m, n) = Unsigned(m) % Unsigned(n)
BY Zenon DEF Result

\* C's division is that of the instruction set.
LEMMA Quotients ==
  ASSUME NEW m \in Words, NEW n \in Words, n # 0
  PROVE  /\ Quotient(m, n) \in Int /\ ISA!Quotient(m, n) = Quotient(m, n)
         /\ ISA!Remainder(m, n) = m - n * Quotient(m, n) /\ n * Quotient(m, n) \in Int
  <1>1. m \in Int /\ n \in Int
    BY SignedWord
  <1>2. PICK u \in Nat, v \in Nat \ {0} : u = (IF m < 0 THEN -m ELSE m) /\ v = IF n < 0 THEN -n ELSE n
    BY <1>1
  <1>3. u \div v \in Int
    BY <1>2
  <1>4. Quotient(m, n) = IF (m < 0) # (n < 0) THEN -(u \div v) ELSE u \div v
    BY <1>2, Zenon DEF Quotient
  <1>5. ISA!Quotient(m, n) = IF (m < 0) # (n < 0) THEN -(u \div v) ELSE u \div v
    BY <1>2, Zenon DEF ISA!Quotient
  <1>6. Quotient(m, n) \in Int
    BY <1>3, <1>4
  <1>7. n * Quotient(m, n) \in Int
    BY <1>1, <1>6
  <1>8. ISA!Remainder(m, n) = m - n * Quotient(m, n)
    BY <1>4, <1>5, Zenon DEF ISA!Remainder
  <1> QED BY <1>4, <1>5, <1>6, <1>7, <1>8

LEMMA UnsignedWords ==
  ASSUME NEW v \in Words
  PROVE  /\ Unsigned(v) \in Nat /\ Unsigned(v) = IF v < 0 THEN v + WordValues ELSE v
         /\ (v # 0 <=> Unsigned(v) # 0) /\ v \in Int
  BY Numbers DEF Words, Unsigned

\* An operation computes what the instruction set says, unless it departs from
\* it, and always an int.
LEMMA OpResult ==
  ASSUME NEW op \in ISA!Ops, NEW m \in Words, NEW n \in Words, ~Faults(op, m, n)
  PROVE  Result(op, m, n) \in Int /\ (Departs(op, m, n) \/ ISA!Alu(op, m, n) = Result(op, m, n))
  <1>1. /\ m \in Int /\ n \in Int /\ Unsigned(m) \in Nat /\ Unsigned(n) \in Nat /\ m * n \in Int
        /\ Unsigned(m) = (IF m < 0 THEN m + WordValues ELSE m) /\ Unsigned(n) = (IF n < 0 THEN n + WordValues ELSE n)
        /\ n # 0 <=> Unsigned(n) # 0
    BY UnsignedWords
  <1>2. 2^Amount(n) \in Nat \ {0} /\ ISA!Amount(n) = Amount(n)
    BY <1>1, Shifted
  <1>3. ISA!Unsigned(m) = Unsigned(m) /\ ISA!Unsigned(n) = Unsigned(n)
    BY IsaSigned
  <1>4. CASE op \in {"ADD", "SUB"}
    BY <1>1, <1>4, AluIs, ResultIs
  <1>5. CASE op = "SLL"
    <2>1. m * 2^Amount(n) \in Int
      BY <1>1, <1>2
    <2> QED BY <1>2, <1>5, <2>1, AluIs, ResultIs
  <1>6. CASE op = "SLT"
    <2>1. Flag(m < n) \in Int /\ ISA!Flag(m < n) = Flag(m < n)
      BY DEF Flag, ISA!Flag
    <2> QED BY <1>6, <2>1, AluIs, ResultIs
  <1>7. CASE op = "SLTU"
    <2>1. Flag(m < n) \in Int
      BY DEF Flag
    <2>2. ASSUME (m < 0) = (n < 0) PROVE m < n <=> Unsigned(m) < Unsigned(n)
      BY <1>1, <2>2, Numbers
    <2>3. ASSUME (m < 0) = (n < 0) PROVE ISA!Flag(ISA!Unsigned(m) < ISA!Unsigned(n)) = Flag(m < n)
      BY <1>3, <2>2, <2>3 DEF Flag, ISA!Flag
    <2> QED BY <1>7, <2>1, <2>3, AluIs, ResultIs DEF Departs
  <1>8. CASE op \in {"XOR", "OR", "AND"}
    BY <1>3, <1>8, IsaBits, BitsAre, AluIs, ResultIs
  <1>9. CASE op = "SRL"
    <2>1. Unsigned(m) \div 2^Amount(n) \in Int
      BY <1>1, <1>2
    <2> QED BY <1>2, <1>3, <1>9, <2>1, AluIs, ResultIs
  <1>10. CASE op = "SRA"
    <2>1. m \div 2^Amount(n) \in Int
      BY <1>1, <1>2
    <2> QED BY <1>2, <1>10, <2>1, AluIs, ResultIs
  <1>11. CASE op = "MUL"
    BY <1>1, <1>11, AluIs, ResultIs
  <1>12. CASE op \in {"MULH", "MULHSU", "MULHU"}
    <2>1. Signed(m * n) \in Int /\ Unsigned(m * n) \in Int
      BY <1>1, SignedIs, SignedWord, UnsignedIs
    <2>2. Signed(m * n) \div HalfValues \in Int /\ Unsigned(m * n) \div HalfValues \in Int
      BY <2>1, Numbers
    <2> QED BY <1>12, <2>2, ResultIs DEF Departs
  <1>13. CASE op \in {"DIV", "REM"}
    <2>1. n # 0
      BY <1>13 DEF Faults
    <2>2. /\ Quotient(m, n) \in Int /\ ISA!Quotient(m, n) = Quotient(m, n)
          /\ ISA!Remainder(m, n) = m - n * Quotient(m, n) /\ n * Quotient(m, n) \in Int
      BY <2>1, Quotients
    <2>3. m - n * Quotient(m, n) \in Int
      BY <1>1, <2>2
    <2>4. CASE op = "DIV"
      <3>1. Result("DIV", m, n) = Quotient(m, n) /\ ISA!Alu("DIV", m, n) = ISA!Quotient(m, n)
        BY AluIs, ResultIs, Zenon
      <3> QED BY <2>2, <2>4, <3>1
    <2>5. CASE op = "REM"
      <3>1. ISA!Alu("REM", m, n) = ISA!Remainder(m, n)
        BY AluIs, Zenon
      <3>2. Result("REM", m, n) = m - n * Quotient(m, n)
        BY ResultIs
      <3> QED BY <2>2, <2>3, <2>5, <3>1, <3>2
    <2> QED BY <1>13, <2>4, <2>5
  <1>14. CASE op \in {"DIVU", "REMU"}
    <2>1. Unsigned(n) # 0
      BY <1>1, <1>14 DEF Faults
    <2>2. Unsigned(m) \div Unsigned(n) \in Int /\ Unsigned(m) % Unsigned(n) \in Int
      BY <1>1, <2>1
    <2> QED BY <1>3, <1>14, <2>1, <2>2, AluIs, ResultIs
  <1>15. op \in {"ADD", "SUB", "SLL", "SLT", "SLTU", "XOR", "OR", "AND", "SRL", "SRA", "MUL", "MULH", "MULHSU", "MULHU",
                 "DIV", "REM", "DIVU", "REMU"}
    BY DEF ISA!Ops
  <1> QED BY <1>4, <1>5, <1>6, <1>7, <1>8, <1>9, <1>10, <1>11, <1>12, <1>13, <1>14, <1>15

\* So does an operation with an immediate.
LEMMA ImmResult ==
  ASSUME NEW op \in ISA!OpImms, NEW m \in Words, NEW imm \in Int
  PROVE  LET n == IF op = "SRAI" THEN 1024 + imm ELSE imm IN
         Result(ImmCase(op), m, n) \in Int /\ ISA!Alu(op, m, imm) = Result(ImmCase(op), m, n) /\ ImmCase(op) # "default"
  <1>1. m \in Int /\ Unsigned(m) \in Nat /\ Unsigned(imm) \in Int
    BY UnsignedWords, UnsignedIs
  <1>2. 2^Amount(imm) \in Nat \ {0} /\ ISA!Amount(imm) = Amount(imm)
    BY Shifted
  <1>3. ISA!Unsigned(m) = Unsigned(m) /\ ISA!Unsigned(imm) = Unsigned(imm)
    BY IsaSigned
  <1>4. Amount(1024 + imm) = Amount(imm)
    <2>1. CASE Width = 8
      BY <2>1 DEF Amount
    <2>2. CASE Width = 16
      BY <2>2 DEF Amount
    <2>3. CASE Width = 32
      BY <2>3 DEF Amount
    <2> QED BY <2>1, <2>2, <2>3, WidthAssumption
  <1>5. /\ m * 2^Amount(imm) \in Int /\ Unsigned(m) \div 2^Amount(imm) \in Int /\ m \div 2^Amount(imm) \in Int
        /\ m + imm \in Int
    BY <1>1, <1>2
  <1>6. \A c : Flag(c) \in Int /\ ISA!Flag(c) = Flag(c)
    BY DEF Flag, ISA!Flag
  <1>7. CASE op \in {"ADDI", "SLTI", "SLTIU"}
    <2>1. ImmCase(op) = IF op = "ADDI" THEN "ADD" ELSE IF op = "SLTI" THEN "SLT" ELSE "SLTIU"
      BY <1>7 DEF ImmCase
    <2>2. CASE op = "ADDI"
      BY <1>5, <2>1, <2>2, AluIs, ResultIs
    <2>3. CASE op = "SLTI"
      BY <1>6, <2>1, <2>3, AluIs, ResultIs
    <2>4. CASE op = "SLTIU"
      BY <1>3, <1>6, <2>1, <2>4, AluIs, ResultIs
    <2> QED BY <1>7, <2>2, <2>3, <2>4
  <1>8. CASE op \in {"XORI", "ORI", "ANDI"}
    <2>1. ImmCase(op) = IF op = "XORI" THEN "XOR" ELSE IF op = "ORI" THEN "OR" ELSE "AND"
      BY <1>8 DEF ImmCase
    <2> QED BY <1>3, <1>8, <2>1, AluIs, ResultIs, IsaBits, BitsAre
  <1>9. CASE op \in {"SLLI", "SRLI"}
    <2>1. ImmCase(op) = IF op = "SLLI" THEN "SLL" ELSE "SRL"
      BY <1>9 DEF ImmCase
    <2>2. CASE op = "SLLI"
      BY <1>2, <1>5, <2>1, <2>2, AluIs, ResultIs
    <2>3. CASE op = "SRLI"
      BY <1>2, <1>3, <1>5, <2>1, <2>3, AluIs, ResultIs
    <2> QED BY <1>9, <2>2, <2>3
  <1>10. CASE op = "SRAI"
    <2>1. ImmCase(op) = "SRA"
      BY <1>10 DEF ImmCase
    <2>2. Result("SRA", m, 1024 + imm) = m \div 2^Amount(imm)
      BY <1>4, ResultIs
    <2> QED BY <1>2, <1>5, <1>10, <2>1, <2>2, AluIs
  <1>11. op \in {"ADDI", "SLTI", "SLTIU", "XORI", "ORI", "ANDI", "SLLI", "SRLI", "SRAI"}
    BY DEF ISA!OpImms, ISA!Shifts
  <1> QED BY <1>7, <1>8, <1>9, <1>10, <1>11

-----------------------------------------------------------------------------
(* The instructions, one format after the other                             *)

Body == Upper \/ Jump \/ Ecall \/ Branch \/ Load \/ Store \/ Arithmetic

LEMMA OpcodesAre ==
  /\ (Is("LUI") <=> opcode = 55) /\ (Is("AUIPC") <=> opcode = 23) /\ (Is("JAL") <=> opcode = 111)
  /\ (Is("JALR") <=> opcode = 103) /\ (Is("ECALL") <=> opcode = 115) /\ (Is("BRANCH") <=> opcode = 99)
  /\ (Is("LOAD") <=> opcode = 3) /\ (Is("STORE") <=> opcode = 35) /\ (Is("OP_IMM") <=> opcode = 19) /\ (Is("OP") <=> opcode = 51)
  /\ (\E name \in DOMAIN Opcodes : Is(name)) <=> opcode \in {55, 23, 111, 103, 115, 99, 3, 35, 19, 51}
  BY DEF Is, Opcodes

\* An operation on registers, and a division that ends in a signal.
OpBody ==
  \/ ~Faults(OpCase, op1, op2) /\ Compute(OpCase, op2)
  \/ Faults(OpCase, op1, op2) /\ Ends("signal") /\ regs' = cleared /\ UNCHANGED <<mem, output, pc>>

\* What is done for an opcode.
LEMMA BodyIs ==
  ASSUME Body
  PROVE  /\ opcode = 55 => SetReg(rd, ImmU) /\ NextInsn /\ Quiet
         /\ opcode = 23 => SetReg(rd, pc + ImmU) /\ NextInsn /\ Quiet
         /\ opcode = 111 => SetReg(rd, pc + 4) /\ GoTo(pc + ImmJ) /\ Quiet
         /\ opcode = 103 => /\ SetReg(rd, pc + 4) /\ Quiet
                           /\ GoTo(Signed(op1 + ImmI) - (Signed(op1 + ImmI) % 2))
         /\ opcode = 115 => Ecall
         /\ opcode = 99 => Branch
         /\ opcode = 3 => Load
         /\ opcode = 35 => Store
         /\ opcode = 19 => Compute(OpImmCase, ImmI)
         /\ opcode = 51 => OpBody
  <1>1. \/ opcode = 55 /\ SetReg(rd, ImmU) /\ NextInsn /\ Quiet
        \/ opcode = 23 /\ SetReg(rd, pc + ImmU) /\ NextInsn /\ Quiet
        \/ opcode = 111 /\ SetReg(rd, pc + 4) /\ GoTo(pc + ImmJ) /\ Quiet
        \/ opcode = 103 /\ SetReg(rd, pc + 4) /\ Quiet /\ GoTo(Signed(op1 + ImmI) - (Signed(op1 + ImmI) % 2))
        \/ opcode = 115 /\ Ecall
        \/ opcode = 99 /\ Branch
        \/ opcode = 3 /\ Load
        \/ opcode = 35 /\ Store
        \/ opcode = 19 /\ Compute(OpImmCase, ImmI)
        \/ opcode = 51 /\ OpBody
    <2>1. CASE Upper
      BY <2>1, OpcodesAre, Zenon DEF Upper
    <2>2. CASE Jump
      BY <2>2, OpcodesAre, Zenon DEF Jump
    <2>3. CASE Ecall
      BY <2>3, OpcodesAre, Zenon DEF Ecall
    <2>4. CASE Branch
      BY <2>4, OpcodesAre, Zenon DEF Branch
    <2>5. CASE Load
      BY <2>5, OpcodesAre, Zenon DEF Load
    <2>6. CASE Store
      BY <2>6, OpcodesAre, Zenon DEF Store
    <2>7. CASE Arithmetic
      BY <2>7, OpcodesAre, Zenon DEF Arithmetic, OpBody
    <2> QED BY <2>1, <2>2, <2>3, <2>4, <2>5, <2>6, <2>7, ZenonT(40) DEF Body
  <1>2. opcode = 55 => SetReg(rd, ImmU) /\ NextInsn /\ Quiet
    BY <1>1
  <1>3. opcode = 23 => SetReg(rd, pc + ImmU) /\ NextInsn /\ Quiet
    BY <1>1
  <1>4. opcode = 111 => SetReg(rd, pc + 4) /\ GoTo(pc + ImmJ) /\ Quiet
    BY <1>1
  <1>5. opcode = 103 => SetReg(rd, pc + 4) /\ Quiet /\ GoTo(Signed(op1 + ImmI) - (Signed(op1 + ImmI) % 2))
    BY <1>1
  <1>6. opcode = 115 => Ecall
    BY <1>1
  <1>7. opcode = 99 => Branch
    BY <1>1
  <1>8. opcode = 3 => Load
    BY <1>1
  <1>9. opcode = 35 => Store
    BY <1>1
  <1>10. opcode = 19 => Compute(OpImmCase, ImmI)
    BY <1>1
  <1>11. opcode = 51 => OpBody
    BY <1>1
  <1> QED BY <1>2, <1>3, <1>4, <1>5, <1>6, <1>7, <1>8, <1>9, <1>10, <1>11, Zenon

\* The operands are words.
LEMMA OperandsAre ==
  ASSUME Running, NEW i, HasRegisters(i), rs1 = i.rs1
  PROVE  /\ op1 = X[i.rs1] /\ op1 \in Words /\ op1 \in Int
         /\ X[i.rs2] \in Words /\ (rs2 = i.rs2 => op2 = X[i.rs2])
  BY RegistersAre DEF HasRegisters, Regs5, op1, op2

\* An operation on words, as simulate does it and as the instruction set has it.
LEMMA ComputeIs ==
  ASSUME Running, NEW i, HasRegisters(i), rd = i.rd, NEW name, name # "default", NEW a, NEW b, NEW n,
         Compute(name, n), Result(name, op1, n) \in Int,
         ISA!Alu(i.op, a, b) = Result(name, op1, n) \/ Departs(i.op, a, b)
  PROVE  ISA!Compute(i, a, b)
  <1>1. /\ regs' = [cleared EXCEPT ![i.rd] = Signed(Result(name, op1, n))] /\ pc' = pc + 4
        /\ UNCHANGED <<mem, output, exit, phase>>
    BY DEF Compute, SetReg, NextInsn, GoTo, Quiet
  <1>2. i.rd \in 0..31
    BY DEF HasRegisters, Regs5
  <1>3. ISA!Quiet /\ ISA!GoTo(pc + 4)
    BY <1>1, QuietIs DEF ISA!GoTo
  <1>4. CASE ISA!Alu(i.op, a, b) = Result(name, op1, n)
    <2>1. ISA!Write(i.rd, ISA!Alu(i.op, a, b))
      BY <1>1, <1>2, <1>4, RegisterSet
    <2> QED BY <1>3, <2>1, Zenon DEF ISA!Compute
  <1>5. CASE Departs(i.op, a, b)
    <2>1. PICK v : v = Unsigned(Result(name, op1, n))
      OBVIOUS
    <2>2. v \in 0..(WordValues - 1) /\ v \in Int /\ Unsigned(v) = Unsigned(Result(name, op1, n))
      BY <2>1, UnsignedIs
    <2>3. Signed(v) = Signed(Result(name, op1, n))
      BY <2>2, SameBits
    <2>4. ISA!Write(i.rd, v)
      BY <1>1, <1>2, <2>3, RegisterSet
    <2>5. v \in ISA!Addresses
      BY <2>2, IsaNumbers
    <2> QED BY <1>3, <1>5, <2>4, <2>5, Zenon DEF ISA!Compute
  <1> QED BY <1>4, <1>5

LEMMA OpStep ==
  ASSUME Running, NEW i, HasRegisters(i), i.op \in ISA!Ops, ins = ISA!Encode(i), Body
  PROVE  ISA!Execute(i)
  <1>1. opcode = 51 /\ rd = i.rd /\ rs1 = i.rs1 /\ rs2 = i.rs2 /\ OpCase = i.op
    BY OpDecoded
  <1>2. PICK a, b : a = op1 /\ b = op2
    OBVIOUS
  <1>3. a \in Words /\ b \in Words /\ a = X[i.rs1] /\ b = X[i.rs2]
    BY <1>1, <1>2, OperandsAre
  <1>4. ISA!Compute(i, a, b)
    <2>1. CASE ~Faults(i.op, a, b) /\ Compute(i.op, b)
      <3>1. Result(i.op, a, b) \in Int /\ (Departs(i.op, a, b) \/ ISA!Alu(i.op, a, b) = Result(i.op, a, b))
        BY <1>3, <2>1, OpResult
      <3>2. i.op # "default"
        BY DEF ISA!Ops
      <3> QED BY <1>1, <1>2, <2>1, <3>1, <3>2, ComputeIs
    <2>2. CASE Faults(i.op, a, b) /\ Ends("signal") /\ regs' = cleared /\ UNCHANGED <<mem, output, pc>>
      <3>1. ISA!Trap
        BY <2>2, TrapIs DEF Ends
      <3>2. Departs(i.op, a, b)
        BY <2>2 DEF Departs
      <3> QED BY <3>1, <3>2, Zenon DEF ISA!Compute
    <2> QED BY <1>1, <1>2, <2>1, <2>2, BodyIs DEF OpBody
  <1> QED BY <1>3, <1>4, ExecuteIs

LEMMA OpImmStep ==
  ASSUME Running, NEW i, HasRegisters(i), i.op \in ISA!OpImms, ins = ISA!Encode(i), Body,
         i.op \in ISA!Shifts => i.imm \in Regs5, i.op \notin ISA!Shifts => i.imm \in Imm12
  PROVE  ISA!Execute(i)
  <1>1. /\ opcode = 19 /\ rd = i.rd /\ rs1 = i.rs1 /\ OpImmCase = ImmCase(i.op)
        /\ ImmI = IF i.op = "SRAI" THEN 1024 + i.imm ELSE i.imm
    BY OpImmDecoded
  <1>2. op1 \in Words /\ op1 = X[i.rs1]
    BY <1>1, OperandsAre
  <1>3. i.imm \in Int
    <2>1. Regs5 \subseteq Int /\ Imm12 \subseteq Int
      BY DEF Regs5, Imm12
    <2> QED BY <2>1
  <1>4. PICK name, n, a, b : name = ImmCase(i.op) /\ n = ImmI /\ a = op1 /\ b = X[i.rs2]
    OBVIOUS
  <1>5. Result(name, op1, n) \in Int /\ ISA!Alu(i.op, a, i.imm) = Result(name, op1, n) /\ name # "default"
    BY <1>1, <1>2, <1>3, <1>4, ImmResult
  <1>6. Compute(name, n)
    BY <1>1, <1>4, BodyIs
  <1>7. ISA!Compute(i, a, i.imm)
    BY <1>1, <1>5, <1>6, ComputeIs
  <1> QED BY <1>2, <1>4, <1>7, ExecuteIs

LEMMA UpperStep ==
  ASSUME Running, NEW i, HasRegisters(i), i.op \in {"LUI", "AUIPC"}, i.imm \in Int, ins = ISA!Encode(i), Body
  PROVE  ISA!Execute(i)
  <1>1. opcode = (IF i.op = "LUI" THEN 55 ELSE 23) /\ rd = i.rd /\ ImmU = i.imm * 2^UpperBits
    BY UpperDecoded
  <1>2. i.rd \in 0..31
    BY DEF HasRegisters, Regs5
  <1>3. NextInsn /\ Quiet /\ regs' = [cleared EXCEPT ![i.rd] = Signed(IF i.op = "LUI" THEN ImmU ELSE pc + ImmU)]
    <2>1. CASE i.op = "LUI"
      BY <1>1, <2>1, BodyIs DEF SetReg
    <2>2. CASE i.op = "AUIPC"
      BY <1>1, <2>2, BodyIs DEF SetReg
    <2> QED BY <2>1, <2>2
  <1>4. ISA!Quiet /\ pc' = pc + 4
    BY <1>3, QuietIs DEF Quiet, NextInsn, GoTo
  <1>5. PICK v : v = IF i.op = "LUI" THEN ImmU ELSE pc + ImmU
    OBVIOUS
  <1>6. ISA!Write(i.rd, v)
    BY <1>2, <1>3, <1>5, RegisterSet
  <1>7. PICK a, b, addr : a = X[i.rs1] /\ b = X[i.rs2] /\ addr = Unsigned(a + i.imm)
    OBVIOUS
  <1>8. CASE i.op = "LUI"
    <2>1. v = i.imm * 2^UpperBits
      BY <1>1, <1>5, <1>8
    <2>2. ISA!Write(i.rd, i.imm * 2^UpperBits)
      BY <1>6, <2>1, Zenon
    <2> QED BY <1>4, <1>7, <1>8, <2>2, ExecuteIs, Zenon
  <1>9. CASE i.op = "AUIPC"
    <2>1. v = pc + i.imm * 2^UpperBits
      BY <1>1, <1>5, <1>9, Zenon
    <2>2. ISA!Write(i.rd, pc + i.imm * 2^UpperBits)
      BY <1>6, <2>1 DEF ISA!Write
    <2> QED BY <1>4, <1>7, <1>9, <2>2, ExecuteIs, Zenon
  <1> QED BY <1>8, <1>9

LEMMA NextAddress ==
  ASSUME Running, NEW d \in 0..31, regs' = [cleared EXCEPT ![d] = Signed(pc + 4)]
  PROVE  ISA!Write(d, pc + 4)
  <1>1. PICK v : v = pc + 4
    OBVIOUS
  <1>2. ISA!Write(d, v)
    BY <1>1, RegisterSet
  <1> QED BY <1>1, <1>2 DEF ISA!Write

LEMMA JalStep ==
  ASSUME Running, NEW i, HasRegisters(i), i.op = "JAL", i.imm \in Imm21, ins = ISA!Encode(i), Body
  PROVE  ISA!Execute(i)
  <1>1. opcode = 111 /\ rd = i.rd /\ ImmJ = i.imm
    BY JalDecoded
  <1>2. i.rd \in 0..31
    BY DEF HasRegisters, Regs5
  <1>3. pc' = pc + i.imm /\ Quiet /\ regs' = [cleared EXCEPT ![i.rd] = Signed(pc + 4)]
    BY <1>1, BodyIs DEF SetReg, GoTo
  <1>4. ISA!Quiet
    BY <1>3, QuietIs DEF Quiet
  <1>5. ISA!Write(i.rd, pc + 4)
    BY <1>2, <1>3, NextAddress
  <1> QED BY <1>3, <1>4, <1>5, ExecuteIs

LEMMA JalrStep ==
  ASSUME Running, NEW i, HasRegisters(i), i.op = "JALR", i.imm \in Imm12, ins = ISA!Encode(i), Body
  PROVE  ISA!Execute(i)
  <1>1. opcode = 103 /\ rd = i.rd /\ rs1 = i.rs1 /\ ImmI = i.imm
    BY JalrDecoded
  <1>2. i.rd \in 0..31
    BY DEF HasRegisters, Regs5
  <1>3. op1 = X[i.rs1] /\ op1 \in Int /\ i.imm \in Int
    <2>1. Imm12 \subseteq Int
      BY DEF Imm12
    <2> QED BY <2>1, <1>1, OperandsAre
  <1>4. Quiet /\ regs' = [cleared EXCEPT ![i.rd] = Signed(pc + 4)] /\ pc' = Signed(op1 + i.imm) - (Signed(op1 + i.imm) % 2)
    BY <1>1, BodyIs DEF SetReg, GoTo
  <1>5. ISA!Quiet
    BY <1>4, QuietIs DEF Quiet
  <1>6. ISA!Write(i.rd, pc + 4)
    BY <1>2, <1>4, NextAddress
  <1>7. PICK a, b, addr, v : a = op1 /\ b = X[i.rs2] /\ v = a + i.imm /\ addr = Unsigned(v)
    OBVIOUS
  <1>8. v \in Int /\ addr \in Int /\ Unsigned(addr) = Unsigned(v)
    BY <1>3, <1>7, UnsignedIs
  <1>9. Signed(addr) = Signed(v)
    BY <1>8, SameBits
  <1>10. pc' = Signed(addr) - (Signed(addr) % 2)
    BY <1>4, <1>7, <1>9
  <1> QED BY <1>3, <1>5, <1>6, <1>7, <1>10, ExecuteIs

LEMMA BranchStep ==
  ASSUME Running, NEW i, HasRegisters(i), i.op \in ISA!Branches, i.imm \in Imm13, ins = ISA!Encode(i), Body
  PROVE  ISA!Execute(i)
  <1>1. opcode = 99 /\ rs1 = i.rs1 /\ rs2 = i.rs2 /\ ImmB = i.imm /\ Case(Branches, funct3) = i.op
    BY BranchDecoded
  <1>2. op1 = X[i.rs1] /\ op2 = X[i.rs2]
    BY <1>1, OperandsAre
  <1>3. i.op # "default"
    BY DEF ISA!Branches
  <1>4. regs' = cleared /\ pc' = pc + (IF BranchTaken(i.op) THEN i.imm ELSE 4) /\ Quiet
    <2>1. Branch
      BY <1>1, BodyIs
    <2> QED BY <2>1, <1>1, <1>3 DEF Branch, GoTo
  <1>5. ISA!Quiet /\ X' = X
    BY <1>4, QuietIs, NoRegisterSet DEF Quiet
  <1>6. PICK a, b : a = op1 /\ b = op2
    OBVIOUS
  <1>7. BranchTaken(i.op) = ISA!Taken(i.op, a, b)
    <2>1. i.op \in {"BEQ", "BNE", "BLT", "BGE", "BLTU", "BGEU"}
      BY DEF ISA!Branches
    <2> QED BY <2>1, <1>6, IsaSigned DEF BranchTaken, ISA!Taken
  <1>8. pc' = pc + (IF ISA!Taken(i.op, a, b) THEN i.imm ELSE 4)
    BY <1>4, <1>7
  <1> QED BY <1>2, <1>5, <1>6, <1>8, ExecuteIs

\* System calls: one that there is not keeps the machine where it is.
LEMMA EcallStep ==
  ASSUME Running, NEW i, i.op = "ECALL", ins = ISA!Encode(i), Body
  PROVE  ISA!Execute(i) \/ (X' = X /\ ISA!Quiet /\ pc' = pc)
  <1>1. Ecall
    BY EcallDecoded, BodyIs
  <1>2. cleared[17] = X[17] /\ cleared[10] = X[10] /\ 10 \in 0..31
    BY RegistersAre
  <1>3. CASE cleared[17] = 1 /\ (\E c \in Chars : SetReg(10, c)) /\ NextInsn /\ Quiet
    <2>1. PICK c \in Chars : SetReg(10, c)
      BY <1>3
    <2>2. ISA!Write(10, c)
      BY <2>1, <1>2, RegisterSet DEF SetReg
    <2>3. ISA!Quiet /\ ISA!GoTo(pc + 4)
      BY <1>3, QuietIs DEF Quiet, NextInsn, GoTo, ISA!GoTo
    <2>4. ISA!SystemCall
      BY <1>2, <1>3, <2>1, <2>2, <2>3 DEF ISA!SystemCall, X
    <2> QED BY <2>4, ExecuteIs
  <1>4. CASE /\ cleared[17] = 2 /\ output' = Append(output, cleared[10] % ByteValues)
             /\ regs' = cleared /\ NextInsn /\ UNCHANGED <<mem, exit, phase>>
    <2>1. phase' = "run" /\ exit' # "no start" /\ mem' = mem
      BY <1>4 DEF Running
    <2>2. X' = X /\ B' = B
      BY <1>4, <2>1, NoRegisterSet, BytesSame
    <2>3. Status' = Status
      BY <1>4 DEF Status
    <2>4. ISA!SystemCall
      BY <1>2, <1>4, <2>2, <2>3, IsaNumbers DEF ISA!SystemCall, X, B, Status, NextInsn, GoTo, ISA!GoTo
    <2> QED BY <2>4, ExecuteIs
  <1>5. CASE cleared[17] \in {3, 93} /\ Ends("terminate") /\ regs' = cleared /\ UNCHANGED <<mem, output, pc>>
    <2>1. Status' = "ended" /\ X' = X /\ B' = B
      BY <1>5, EndIs DEF Ends
    <2>2. ISA!SystemCall
      BY <1>2, <1>5, <2>1 DEF ISA!SystemCall, X, B, Status
    <2> QED BY <2>2, ExecuteIs
  <1>6. CASE cleared[17] \notin {1, 2, 3, 93} /\ regs' = cleared /\ UNCHANGED pc /\ Quiet
    BY <1>6, QuietIs, NoRegisterSet DEF Quiet
  <1> QED BY <1>1, <1>3, <1>4, <1>5, <1>6 DEF Ecall

-----------------------------------------------------------------------------
(* Loads                                                                    *)

LEMMA LoadedIs ==
  ASSUME NEW u
  PROVE  /\ ISA!Loaded("LBU", u) = B[u]
         /\ ISA!Loaded("LHU", u) = B[u] + ByteValues * B[u + 1]
         /\ ISA!Loaded("LW", u) = (B[u] + ByteValues * B[u + 1])
                                    + ByteValues * ByteValues * (B[u + 2] + ByteValues * B[u + 2 + 1])
         /\ ISA!Loaded("LB", u) = IF B[u] >= ByteValues \div 2 THEN B[u] - ByteValues ELSE B[u]
         /\ ISA!Loaded("LH", u) = LET v == B[u] + ByteValues * B[u + 1] IN
              IF v >= (ByteValues * ByteValues) \div 2 THEN v - ByteValues * ByteValues ELSE v
  <1>1. ISA!AccessSize("LBU") = 1 /\ ISA!AccessSize("LB") = 1 /\ ISA!AccessSize("LHU") = 2 /\ ISA!AccessSize("LH") = 2
        /\ ISA!AccessSize("LW") = 4
    BY DEF ISA!AccessSize
  <1>2. /\ ISA!Value(u, 1) = B[u] /\ ISA!Value(u, 2) = B[u] + ISA!ByteSize * B[u + 1]
        /\ ISA!Value(u, 4) = (B[u] + ISA!ByteSize * B[u + 1])
                               + ISA!ByteSize * ISA!ByteSize * (B[u + 2] + ISA!ByteSize * B[u + 2 + 1])
    BY DEF ISA!Value, B
  <1>3. ISA!ByteSize = ByteValues
    BY IsaNumbers
  <1>4. ISA!Loaded("LBU", u) = B[u]
    BY <1>1, <1>2, Zenon DEF ISA!Loaded
  <1>5. ISA!Loaded("LHU", u) = B[u] + ByteValues * B[u + 1]
    BY <1>1, <1>2, <1>3, Zenon DEF ISA!Loaded
  <1>6. ISA!Loaded("LW", u) = (B[u] + ByteValues * B[u + 1]) + ByteValues * ByteValues * (B[u + 2] + ByteValues * B[u + 2 + 1])
    BY <1>1, <1>2, <1>3, Zenon DEF ISA!Loaded
  <1>7. ISA!Loaded("LB", u) = IF B[u] >= ByteValues \div 2 THEN B[u] - ByteValues ELSE B[u]
    BY <1>1, <1>2, <1>3, Zenon DEF ISA!Loaded
  <1>8. ISA!Loaded("LH", u) = LET v == B[u] + ByteValues * B[u + 1] IN
                IF v >= (ByteValues * ByteValues) \div 2 THEN v - ByteValues * ByteValues ELSE v
    BY <1>1, <1>2, <1>3 DEF ISA!Loaded
  <1> QED BY <1>4, <1>5, <1>6, <1>7, <1>8

\* The addresses of an access, in the code and in the instruction set.
LEMMA AddressesAre ==
  ASSUME NEW v \in Int, NEW adr, adr = Signed(v), NEW u, u = Unsigned(v), NEW op \in ISA!Loads \cup ISA!Stores
  PROVE  /\ adr \in Int /\ u \in 0..(WordValues - 1) /\ u \in Int /\ Unsigned(adr) = u
         /\ adr % 4 = u % 4 /\ adr % 2 = u % 2
         /\ (Unaligned(op, adr) <=> ~ISA!Aligned(op, u))
  <1>1. adr \in Int /\ u \in 0..(WordValues - 1) /\ u \in Int /\ Unsigned(adr) = u
    BY SignedIs, SignedWord, UnsignedIs
  <1>2. adr % 4 = u % 4 /\ adr % 2 = u % 2
    BY <1>1, UnsignedAligned
  <1>3. Unaligned(op, adr) <=> ~ISA!Aligned(op, u)
    <2>1. op \in {"LB", "LH", "LW", "LBU", "LHU", "SB", "SH", "SW"}
      BY DEF ISA!Loads, ISA!Stores
    <2>2. u % 1 = 0
      BY <1>1
    <2> QED BY <2>1, <2>2, <1>2 DEF Unaligned, UnalignedWord, UnalignedHalf, ISA!Aligned, ISA!AccessSize
  <1> QED BY <1>1, <1>2, <1>3

LEMMA UnsignedNumbers == \A u \in 0..(WordValues - 1) : u \in Int /\ (u + 3 <= WordValues - 1 => u + 1 \in 0..(WordValues - 1) /\ u + 2 \in 0..(WordValues - 1))
BY Numbers

\* The bytes of the memory while the machine runs.
LEMMA BytesAre ==
  ASSUME Running, NEW u \in 0..(WordValues - 1)
  PROVE  B[u] = memory_rd_b(mem, u) /\ B[u] \in 0..(ByteValues - 1)
  <1>1. B[u] = memory_rd_b(mem, u)
    BY DEF B, Running, ByteAt
  <1>2. u \in Int
    BY UnsignedNumbers
  <1>3. MemoryOK(mem)
    BY DEF Running
  <1> QED BY <1>1, <1>2, <1>3, ByteIs

\* What a load reads.
Read(op, adr) ==
  CASE op \in {"LB", "LBU"} -> memory_rd_b(mem, adr)
    [] op \in {"LH", "LHU"} -> memory_rd_h(mem, adr)
    [] op = "LW"            -> memory_rd_w(mem, adr)

LEMMA ReadIs ==
  ASSUME NEW adr
  PROVE  /\ Read("LB", adr) = memory_rd_b(mem, adr) /\ Read("LBU", adr) = memory_rd_b(mem, adr)
         /\ Read("LH", adr) = memory_rd_h(mem, adr) /\ Read("LHU", adr) = memory_rd_h(mem, adr)
         /\ Read("LW", adr) = memory_rd_w(mem, adr)
  BY Zenon DEF Read

LEMMA ReadByte ==
  ASSUME Running, NEW adr \in Int, NEW u \in 0..(WordValues - 1), u = Unsigned(adr)
  PROVE  memory_rd_b(mem, adr) = B[u] /\ B[u] \in Int
  <1>1. memory_rd_b(mem, adr) = memory_rd_b(mem, u)
    BY ByteIs DEF Running
  <1> QED BY <1>1, BytesAre, Numbers

LEMMA ReadHalf ==
  ASSUME Running, NEW adr \in Int, NEW u \in 0..(WordValues - 1), u = Unsigned(adr), u % 2 = 0
  PROVE  memory_rd_h(mem, adr) = B[u] + ByteValues * B[u + 1] /\ memory_rd_h(mem, adr) \in 0..(ByteValues * ByteValues - 1)
  <1>1. MemoryOK(mem)
    BY DEF Running
  <1>2. Word(mem, adr) = Word(mem, u) /\ adr % 4 = u % 4
    BY <1>1, ByteIs, UnsignedAligned
  <1>3. memory_rd_h(mem, adr) = memory_rd_h(mem, u)
    BY <1>2 DEF memory_rd_h
  <1>4. u + 1 \in 0..(WordValues - 1) /\ memory_rd_h(mem, u) = memory_rd_b(mem, u) + ByteValues * memory_rd_b(mem, u + 1)
    BY <1>1, HalfRead
  <1>5. B[u] = memory_rd_b(mem, u) /\ B[u + 1] = memory_rd_b(mem, u + 1) /\ B[u] \in 0..(ByteValues - 1) /\ B[u + 1] \in 0..(ByteValues - 1)
    BY <1>4, BytesAre
  <1>6. PICK A, c, d : A = ByteValues /\ c = B[u] /\ d = B[u + 1] /\ A \in Nat \ {0} /\ c \in 0..(A - 1) /\ d \in 0..(A - 1)
    BY <1>5, Numbers
  <1>7. d * A + c \in 0..(A * A - 1)
    BY <1>6, TwoDigits
  <1>8. d * A + c = c + A * d
    BY <1>6
  <1> QED BY <1>3, <1>4, <1>5, <1>6, <1>7, <1>8

LEMMA ReadWord ==
  ASSUME Running, NEW adr \in Int, NEW u \in 0..(WordValues - 1), u = Unsigned(adr), u % 4 = 0
  PROVE  /\ memory_rd_w(mem, adr) = Signed(ISA!Loaded("LW", u)) /\ ISA!Loaded("LW", u) \in Int
  <1>1. MemoryOK(mem)
    BY DEF Running
  <1>2. Word(mem, adr) = Word(mem, u)
    BY <1>1, ByteIs
  <1>3. /\ u \in Int /\ u + 3 \in 0..(WordValues - 1)
        /\ Word(mem, u) = (memory_rd_b(mem, u) + ByteValues * memory_rd_b(mem, u + 1))
                             + (memory_rd_b(mem, u + 2) + ByteValues * memory_rd_b(mem, u + 3)) * (ByteValues * ByteValues)
    BY <1>1, WordRead
  <1>4. u + 1 \in 0..(WordValues - 1) /\ u + 2 \in 0..(WordValues - 1) /\ u + 2 + 1 = u + 3
    <2>1. u + 3 <= WordValues - 1
      BY <1>3, Numbers
    <2> QED BY <2>1, <1>3, UnsignedNumbers
  <1>5. /\ B[u] = memory_rd_b(mem, u) /\ B[u + 1] = memory_rd_b(mem, u + 1)
        /\ B[u + 2] = memory_rd_b(mem, u + 2) /\ B[u + 3] = memory_rd_b(mem, u + 3)
    BY <1>3, <1>4, BytesAre
  <1>6. Word(mem, u) = ISA!Loaded("LW", u)
    <2>1. PICK A, c, d : /\ A = ByteValues * ByteValues /\ c = B[u] + ByteValues * B[u + 1] /\ d = B[u + 2] + ByteValues * B[u + 3]
      OBVIOUS
    <2>2. A \in Int /\ d \in Int
      <3>1. B[u + 2] \in Int /\ B[u + 3] \in Int /\ ByteValues \in Int
        BY <1>3, <1>4, BytesAre, Numbers
      <3> QED BY <3>1, <2>1
    <2>3. Word(mem, u) = c + d * A
      BY <1>3, <1>5, <2>1, Zenon
    <2>4. ISA!Loaded("LW", u) = c + A * d
      BY <1>4, <2>1, LoadedIs, Zenon
    <2>5. d * A = A * d
      BY <2>2
    <2> QED BY <2>3, <2>4, <2>5, Zenon
  <1>7. Word(mem, u) \in Int
    BY <1>1, <1>3, WordIs, Numbers
  <1> QED BY <1>2, <1>6, <1>7, Zenon DEF memory_rd_w

\* A load puts what the instruction set says into its register, or departs from it.
LEMMA LoadValue ==
  ASSUME Running, NEW op \in ISA!Loads, NEW adr \in Int, NEW u \in 0..(WordValues - 1), u = Unsigned(adr), ISA!Aligned(op, u)
  PROVE  /\ Read(op, adr) \in Int /\ (Signed(Read(op, adr)) = Signed(ISA!Loaded(op, u)) \/ Departs(op, ISA!Loaded(op, u), 0))
  <1>1. u \in Int /\ ByteValues \in Int /\ ByteValues > 0
    BY UnsignedNumbers, Numbers
  <1>2. B[u] = memory_rd_b(mem, adr) /\ B[u] \in 0..(ByteValues - 1) /\ B[u] \in Int
    BY BytesAre, ReadByte
  <1>3. CASE op = "LBU"
    BY <1>2, <1>3, ReadIs, LoadedIs, Zenon
  <1>4. CASE op = "LB"
    <2>1. Read(op, adr) = B[u] /\ ISA!Loaded(op, u) = IF B[u] >= ByteValues \div 2 THEN B[u] - ByteValues ELSE B[u]
      BY <1>2, <1>4, ReadIs, LoadedIs, Zenon
    <2>2. CASE B[u] >= ByteValues \div 2
      <3>1. ISA!Loaded(op, u) < 0
        BY <1>1, <1>2, <2>1, <2>2
      <3> QED BY <1>2, <1>4, <2>1, <3>1 DEF Departs
    <2>3. CASE ~(B[u] >= ByteValues \div 2)
      BY <1>2, <2>1, <2>3
    <2> QED BY <2>2, <2>3
  <1>5. CASE op \in {"LHU", "LH"}
    <2>1. u % 2 = 0
      BY <1>5 DEF ISA!Aligned, ISA!AccessSize
    <2>2. memory_rd_h(mem, adr) = B[u] + ByteValues * B[u + 1] /\ memory_rd_h(mem, adr) \in 0..(ByteValues * ByteValues - 1)
      BY <2>1, ReadHalf
    <2>3. PICK h, A : h = memory_rd_h(mem, adr) /\ A = ByteValues * ByteValues
      OBVIOUS
    <2>4. A \in Int /\ h \in 0..(A - 1) /\ h \in Int
      BY <1>1, <2>2, <2>3
    <2>5. CASE op = "LHU"
      BY <2>2, <2>3, <2>4, <2>5, ReadIs, LoadedIs
    <2>6. CASE op = "LH"
      <3>1. Read(op, adr) = h
        BY <2>3, <2>6, ReadIs
      <3>2. ISA!Loaded(op, u) = IF h >= A \div 2 THEN h - A ELSE h
        BY <2>2, <2>3, <2>6, LoadedIs, Zenon
      <3>3. CASE h >= A \div 2
        <4>1. ISA!Loaded(op, u) < 0
          BY <2>4, <3>2, <3>3
        <4> QED BY <2>4, <2>6, <3>1, <4>1 DEF Departs
      <3>4. CASE ~(h >= A \div 2)
        BY <2>4, <3>1, <3>2, <3>4
      <3> QED BY <3>3, <3>4
    <2> QED BY <1>5, <2>5, <2>6
  <1>6. CASE op = "LW"
    <2>1. u % 4 = 0
      BY <1>6 DEF ISA!Aligned, ISA!AccessSize
    <2>2. memory_rd_w(mem, adr) = Signed(ISA!Loaded("LW", u)) /\ ISA!Loaded("LW", u) \in Int
      BY <2>1, ReadWord
    <2>3. Signed(ISA!Loaded("LW", u)) \in Words
      BY <2>2, SignedIs
    <2>4. PICK v : v = Signed(ISA!Loaded("LW", u)) /\ v \in Words
      BY <2>3
    <2>5. Signed(v) = v /\ v \in Int
      BY <2>4, SignedWord
    <2>6. Read(op, adr) = v
      BY <1>6, <2>2, <2>4, ReadIs
    <2> QED BY <1>6, <2>4, <2>5, <2>6
  <1> QED BY <1>3, <1>4, <1>5, <1>6 DEF ISA!Loads

LEMMA LoadStep ==
  ASSUME Running, NEW i, HasRegisters(i), i.op \in ISA!Loads, i.imm \in Imm12, ins = ISA!Encode(i), Body
  PROVE  ISA!Execute(i)
  <1>1. opcode = 3 /\ rd = i.rd /\ rs1 = i.rs1 /\ ImmI = i.imm /\ Case(Loads, funct3) = i.op
    BY LoadDecoded
  <1>2. op1 = X[i.rs1] /\ op1 \in Int /\ i.imm \in Int
    <2>1. Imm12 \subseteq Int
      BY DEF Imm12
    <2> QED BY <2>1, <1>1, OperandsAre
  <1>3. PICK v, adr, u : v = op1 + i.imm /\ adr = Signed(v) /\ u = Unsigned(v) /\ v \in Int
    BY <1>2
  <1>4. /\ adr \in Int /\ u \in 0..(WordValues - 1) /\ Unsigned(adr) = u /\ (Unaligned(i.op, adr) <=> ~ISA!Aligned(i.op, u))
    BY <1>3, AddressesAre
  <1>5. i.op # "default"
    BY DEF ISA!Loads
  <1>6. Load
    BY <1>1, BodyIs
  <1>7. IF Unaligned(i.op, adr)
        THEN Ends("unaligned") /\ regs' = cleared /\ UNCHANGED <<mem, output, pc>>
        ELSE SetReg(rd, Read(i.op, adr)) /\ mem' = get_page(mem, adr) /\ NextInsn /\ UNCHANGED <<output, exit, phase>>
    BY <1>1, <1>3, <1>5, <1>6, Zenon DEF Load, Read
  <1>8. CASE Unaligned(i.op, adr)
    <2>1. ISA!Trap
      BY <1>7, <1>8, TrapIs DEF Ends
    <2> QED BY <1>2, <1>3, <1>4, <1>8, <2>1, ExecuteIs
  <1>9. CASE ~Unaligned(i.op, adr)
    <2>1. /\ Read(i.op, adr) \in Int
          /\ Signed(Read(i.op, adr)) = Signed(ISA!Loaded(i.op, u)) \/ Departs(i.op, ISA!Loaded(i.op, u), 0)
      BY <1>4, <1>9, LoadValue
    <2>2. i.rd \in 0..31
      BY DEF HasRegisters, Regs5
    <2>3. ISA!Quiet /\ ISA!GoTo(pc + 4)
      BY <1>4, <1>7, <1>9, QuietIs DEF NextInsn, GoTo, ISA!GoTo
    <2>4. regs' = [cleared EXCEPT ![i.rd] = Signed(Read(i.op, adr))]
      BY <1>1, <1>7, <1>9 DEF SetReg
    <2>5. PICK l : l = ISA!Loaded(i.op, u)
      OBVIOUS
    <2>6. CASE Signed(Read(i.op, adr)) = Signed(l)
      <3>1. ISA!Write(i.rd, l)
        BY <2>2, <2>4, <2>6, RegisterSet
      <3>2. ISA!Write(i.rd, ISA!Loaded(i.op, u))
        BY <3>1, <2>5 DEF ISA!Write
      <3>3. ISA!Load(i, u)
        BY <3>2, <2>3, Zenon DEF ISA!Load
      <3> QED BY <1>2, <1>3, <1>4, <1>9, <3>3, ExecuteIs
    <2>7. CASE Departs(i.op, l, 0)
      <3>1. PICK w : w = Unsigned(Read(i.op, adr))
        OBVIOUS
      <3>2. w \in 0..(WordValues - 1) /\ w \in Int /\ Unsigned(w) = Unsigned(Read(i.op, adr))
        BY <2>1, <3>1, UnsignedIs
      <3>3. Signed(w) = Signed(Read(i.op, adr))
        BY <2>1, <3>2, SameBits
      <3>4. ISA!Write(i.rd, w)
        BY <2>2, <2>4, <3>3, RegisterSet
      <3>5. w \in ISA!Addresses
        BY <3>2, IsaNumbers
      <3>6. ISA!Load(i, u)
        BY <2>3, <2>5, <2>7, <3>4, <3>5, Zenon DEF ISA!Load
      <3> QED BY <1>2, <1>3, <1>4, <1>9, <3>6, ExecuteIs
    <2> QED BY <2>1, <2>5, <2>6, <2>7
  <1> QED BY <1>8, <1>9

-----------------------------------------------------------------------------
(* Stores                                                                   *)

\* The bits that a store puts into a byte are a digit.
LEMMA SliceIs ==
  ASSUME NEW b, NEW k \in 0..3
  PROVE  ISA!Slice(b, (k + 1) * (Width \div 4) - 1, k * (Width \div 4)) = Digit(b, k)
  <1>1. PICK s : s = Width \div 4
    OBVIOUS
  <1>2. (k + 1) * s - 1 - k * s + 1 = s /\ 2^s = ByteValues
    <2>1. s \in Int
      <3>1. Width \in Int
        BY WidthAssumption
      <3> QED BY <3>1, <1>1
    <2>2. (k + 1) * s - 1 - k * s + 1 = s
      BY <2>1
    <2> QED BY <1>1, <2>2 DEF ByteValues
  <1>3. 2^(k * s) = ByteValues^k
    <2>1. CASE Width = 8
      <3>1. s = 2 /\ ByteValues = 4
        BY <2>1, <1>1 DEF ByteValues
      <3>2. 2^(0 * 2) = 4^0 /\ 2^(1 * 2) = 4^1 /\ 2^(2 * 2) = 4^2 /\ 2^(3 * 2) = 4^3
        OBVIOUS
      <3>3. k = 0 \/ k = 1 \/ k = 2 \/ k = 3
        BY Places4
      <3> QED BY <3>1, <3>2, <3>3, ZenonT(40)
    <2>2. CASE Width = 16
      <3>1. s = 4 /\ ByteValues = 16
        BY <2>2, <1>1 DEF ByteValues
      <3>2. 2^(0 * 4) = 16^0 /\ 2^(1 * 4) = 16^1 /\ 2^(2 * 4) = 16^2 /\ 2^(3 * 4) = 16^3
        OBVIOUS
      <3>3. k = 0 \/ k = 1 \/ k = 2 \/ k = 3
        BY Places4
      <3> QED BY <3>1, <3>2, <3>3, ZenonT(40)
    <2>3. CASE Width = 32
      <3>1. s = 8 /\ ByteValues = 256
        BY <2>3, <1>1 DEF ByteValues
      <3>2. 2^(0 * 8) = 256^0 /\ 2^(1 * 8) = 256^1 /\ 2^(2 * 8) = 256^2 /\ 2^(3 * 8) = 256^3
        OBVIOUS
      <3>3. k = 0 \/ k = 1 \/ k = 2 \/ k = 3
        BY Places4
      <3> QED BY <3>1, <3>2, <3>3, ZenonT(40)
    <2> QED BY <2>1, <2>2, <2>3, WidthAssumption
  <1> QED BY <1>1, <1>2, <1>3, Zenon DEF ISA!Slice, Digit

\* The digits of the low bits.
LEMMA DigitOfUnsigned ==
  ASSUME NEW b \in Int, NEW k \in 0..3
  PROVE  Digit(Unsigned(b), k) = Digit(b, k)
  <1>1. PICK V : V = ByteValues /\ V \in Nat \ {0} /\ WordValues = V * V * (V * V)
    BY Widths, Numbers
  <1>2. /\ V^0 = 1 /\ V^1 = V /\ V^2 = V * V /\ V^3 = V * V * V
    BY <1>1, Weights
  <1>3. Unsigned(b) = b % (V * V * (V * V))
    BY <1>1 DEF Unsigned
  <1>4. ASSUME NEW A \in Nat \ {0}, NEW C \in Nat \ {0}, V * V * (V * V) = A * (V * C)
        PROVE  ((b % (V * V * (V * V))) \div A) % V = (b \div A) % V
    <2>1. V * C \in Nat \ {0}
      BY <1>1, TwoDigits, <1>4
    <2>2. (b % (A * (V * C))) \div A = (b \div A) % (V * C)
      BY <1>4, <2>1, DividedTwice
    <2>3. b \div A \in Int
      BY <1>4
    <2>4. ((b \div A) % (V * C)) % V = (b \div A) % V
      BY <1>1, <1>4, <2>3, DividedTwice
    <2> QED BY <1>4, <2>2, <2>4
  <1>5. V * V \in Nat \ {0} /\ V * V * V \in Nat \ {0}
    <2>1. ASSUME NEW p \in Nat \ {0}, NEW q \in Nat \ {0} PROVE p * q \in Nat \ {0}
      OBVIOUS
    <2> QED BY <1>1, <2>1
  <1>6. CASE k = 0
    <2>1. V * V * (V * V) = 1 * (V * (V * V * V))
      BY <1>1
    <2>2. ((b % (V * V * (V * V))) \div 1) % V = (b \div 1) % V
      BY <1>4, <1>5, <2>1
    <2> QED BY <1>1, <1>2, <1>3, <1>6, <2>2, Zenon DEF Digit
  <1>7. CASE k = 1
    <2>1. V * V * (V * V) = V * (V * (V * V))
      BY <1>1
    <2>2. ((b % (V * V * (V * V))) \div V) % V = (b \div V) % V
      BY <1>1, <1>4, <1>5, <2>1
    <2> QED BY <1>1, <1>2, <1>3, <1>7, <2>2, Zenon DEF Digit
  <1>8. CASE k = 2
    <2>1. V * V * (V * V) = (V * V) * (V * V)
      BY <1>1
    <2>2. ((b % (V * V * (V * V))) \div (V * V)) % V = (b \div (V * V)) % V
      BY <1>1, <1>4, <1>5, <2>1
    <2> QED BY <1>1, <1>2, <1>3, <1>8, <2>2, Zenon DEF Digit
  <1>9. CASE k = 3
    <2>1. V * V * (V * V) = (V * V * V) * (V * 1)
      BY <1>1
    <2>2. ((b % (V * V * (V * V))) \div (V * V * V)) % V = (b \div (V * V * V)) % V
      BY <1>4, <1>5, <2>1
    <2> QED BY <1>1, <1>2, <1>3, <1>9, <2>2, Zenon DEF Digit
  <1> QED BY <1>6, <1>7, <1>8, <1>9, Places4

\* What a store makes of the memory.
Written(op, adr, b) ==
  CASE op = "SB" -> memory_wr_b(mem, adr, b)
    [] op = "SH" -> memory_wr_h(mem, adr, b)
    [] op = "SW" -> memory_wr_w(mem, adr, b)
    [] OTHER     -> mem

LEMMA SizeIs == ISA!AccessSize("SB") = 1 /\ ISA!AccessSize("SH") = 2 /\ ISA!AccessSize("SW") = 4
BY DEF ISA!AccessSize

LEMMA HalfAt ==
  ASSUME NEW m, MemoryOK(m), NEW a \in Int, a % 2 = 0, NEW d \in Int, NEW u \in Int, u = Unsigned(a),
         NEW q \in 0..(WordValues - 1)
  PROVE  memory_rd_b(memory_wr_h(m, a, d), q) = IF q = u \/ q = u + 1 THEN Digit(d, q - u) ELSE memory_rd_b(m, q)
  <1>1. memory_rd_b(memory_wr_h(m, a, d), q) = HalfStored(m, a, d, q)
    BY HalfWritten, Zenon
  <1>2. Digit(d, 0) = d % ByteValues /\ Digit(d, 1) = (d \div ByteValues) % ByteValues
    <2>1. d \div 1 = d
      OBVIOUS
    <2> QED BY <2>1, Weights, Zenon DEF Digit
  <1>3. (q = u => q - u = 0) /\ (q = u + 1 => q - u = 1 /\ q # u)
    OBVIOUS
  <1> QED BY <1>1, <1>2, <1>3 DEF HalfStored

LEMMA WordAt ==
  ASSUME NEW m, MemoryOK(m), NEW a \in Int, a % 4 = 0, NEW d \in Int, NEW u \in Int, u = Unsigned(a),
         NEW q \in 0..(WordValues - 1)
  PROVE  memory_rd_b(memory_wr_w(m, a, d), q) = IF q \in u..(u + 3) THEN Digit(d, q - u) ELSE memory_rd_b(m, q)
  <1>1. memory_rd_b(memory_wr_w(m, a, d), q) = WordStored(m, a, d, q)
    BY WordWritten, Zenon
  <1>2. q \in u..(u + 3) => q - u \in 0..3
    OBVIOUS
  <1>3. q \in u..(u + 3) => Digit(Unsigned(d), q - u) = Digit(d, q - u)
    BY <1>2, DigitOfUnsigned
  <1> QED BY <1>1, <1>3 DEF WordStored

LEMMA WrittenIs ==
  ASSUME Running, NEW op \in ISA!Stores, NEW adr \in Int, NEW u \in 0..(WordValues - 1), u = Unsigned(adr),
         adr % 4 = u % 4, adr % 2 = u % 2, ISA!Aligned(op, u), NEW b \in Int
  PROVE  /\ MemoryOK(Written(op, adr, b))
         /\ \A q \in 0..(WordValues - 1) :
              memory_rd_b(Written(op, adr, b), q) =
                IF q \in u..(u + ISA!AccessSize(op) - 1) THEN Digit(b, q - u) ELSE memory_rd_b(mem, q)
  <1>1. MemoryOK(mem) /\ u \in Int
    BY UnsignedNumbers DEF Running
  <1>2. \A q \in 0..(WordValues - 1) : q \in Int
    BY UnsignedNumbers
  <1>3. Digit(b, 0) = b % ByteValues /\ Digit(b, 1) = (b \div ByteValues) % ByteValues
    <2>1. b \div 1 = b
      OBVIOUS
    <2> QED BY <2>1, Weights, Zenon DEF Digit
  <1>4. CASE op = "SB"
    <2>1. Written(op, adr, b) = memory_wr_b(mem, adr, b)
      BY <1>4, Zenon DEF Written
    <2>2. ASSUME NEW q \in 0..(WordValues - 1) PROVE q \in u..(u + ISA!AccessSize(op) - 1) <=> q = u
      BY <1>1, <1>2, <1>4, SizeIs
    <2>3. ASSUME NEW q \in 0..(WordValues - 1)
          PROVE  memory_rd_b(memory_wr_b(mem, adr, b), q) = IF q = u THEN Digit(b, q - u) ELSE memory_rd_b(mem, q)
      <3>1. memory_rd_b(memory_wr_b(mem, adr, b), q) = IF q = u THEN b % ByteValues ELSE memory_rd_b(mem, q)
        BY <1>1, ByteWritten
      <3>2. q = u => q - u = 0
        BY <1>1
      <3> QED BY <1>3, <3>1, <3>2
    <2> QED BY <1>1, <2>1, <2>2, <2>3, ByteWritten
  <1>5. CASE op = "SH"
    <2>1. Written(op, adr, b) = memory_wr_h(mem, adr, b)
      BY <1>5, Zenon DEF Written
    <2>2. ASSUME NEW q \in 0..(WordValues - 1) PROVE q \in u..(u + ISA!AccessSize(op) - 1) <=> q = u \/ q = u + 1
      BY <1>1, <1>2, <1>5, SizeIs
    <2>3. adr % 2 = 0
      BY <1>5, SizeIs DEF ISA!Aligned
    <2>4. ASSUME NEW q \in 0..(WordValues - 1)
          PROVE  memory_rd_b(memory_wr_h(mem, adr, b), q) = IF q = u \/ q = u + 1 THEN Digit(b, q - u) ELSE memory_rd_b(mem, q)
      BY <1>1, <2>3, HalfAt
    <2> QED BY <1>1, <2>1, <2>2, <2>3, <2>4, HalfWritten
  <1>6. CASE op = "SW"
    <2>1. Written(op, adr, b) = memory_wr_w(mem, adr, b)
      BY <1>6, Zenon DEF Written
    <2>2. u + ISA!AccessSize(op) - 1 = u + 3
      BY <1>1, <1>6, SizeIs
    <2>3. adr % 4 = 0
      BY <1>6, SizeIs DEF ISA!Aligned
    <2>4. ASSUME NEW q \in 0..(WordValues - 1)
          PROVE  memory_rd_b(memory_wr_w(mem, adr, b), q) = IF q \in u..(u + 3) THEN Digit(b, q - u) ELSE memory_rd_b(mem, q)
      BY <1>1, <2>3, WordAt
    <2> QED BY <1>1, <2>1, <2>2, <2>3, <2>4, WordWritten
  <1> QED BY <1>4, <1>5, <1>6 DEF ISA!Stores

LEMMA StoreStep ==
  ASSUME Running, NEW i, HasRegisters(i), i.op \in ISA!Stores, i.imm \in Imm12, ins = ISA!Encode(i), Body
  PROVE  ISA!Execute(i) /\ (phase' = "run" => MemoryOK(mem'))
  <1>1. opcode = 35 /\ rs1 = i.rs1 /\ rs2 = i.rs2 /\ ImmS = i.imm /\ Case(Stores, funct3) = i.op
    BY StoreDecoded
  <1>2. op1 = X[i.rs1] /\ op1 \in Int /\ i.imm \in Int /\ op2 = X[i.rs2] /\ X[i.rs2] \in Words
    <2>1. Imm12 \subseteq Int
      BY DEF Imm12
    <2> QED BY <2>1, <1>1, OperandsAre
  <1>3. PICK v, adr, u, b : v = op1 + i.imm /\ adr = Signed(v) /\ u = Unsigned(v) /\ v \in Int /\ b = op2
    BY <1>2
  <1>4. /\ adr \in Int /\ u \in 0..(WordValues - 1) /\ u \in Int /\ Unsigned(adr) = u /\ adr % 4 = u % 4 /\ adr % 2 = u % 2
        /\ (Unaligned(i.op, adr) <=> ~ISA!Aligned(i.op, u))
    BY <1>3, AddressesAre
  <1>5. b \in Int
    BY <1>2, <1>3, SignedWord
  <1>6. Store
    BY <1>1, BodyIs
  <1>7. /\ regs' = cleared
        /\ IF Unaligned(i.op, adr)
           THEN Ends("unaligned") /\ UNCHANGED <<mem, output, pc>>
           ELSE mem' = Written(i.op, adr, b) /\ NextInsn /\ UNCHANGED <<output, exit, phase>>
    BY <1>1, <1>3, <1>6, Zenon DEF Store, Written
  <1>8. CASE Unaligned(i.op, adr)
    <2>1. ISA!Trap
      BY <1>7, <1>8, TrapIs DEF Ends
    <2>2. phase' = "end"
      BY <1>7, <1>8 DEF Ends
    <2> QED BY <1>2, <1>3, <1>4, <1>8, <2>1, <2>2, ExecuteIs
  <1>9. CASE ~Unaligned(i.op, adr)
    <2>1. /\ MemoryOK(mem')
          /\ \A q \in 0..(WordValues - 1) :
               memory_rd_b(mem', q) = IF q \in u..(u + ISA!AccessSize(i.op) - 1) THEN Digit(b, q - u) ELSE memory_rd_b(mem, q)
      BY <1>4, <1>5, <1>7, <1>9, WrittenIs
    <2>2. phase = "run" /\ exit = "" /\ phase' = "run" /\ exit' = "" /\ output' = output
      BY <1>7, <1>9 DEF Running
    <2>3. ASSUME NEW q \in 0..(WordValues - 1), q \in u..(u + ISA!AccessSize(i.op) - 1)
          PROVE  Digit(b, q - u) = ISA!Slice(b, (q - u + 1) * (Width \div 4) - 1, (q - u) * (Width \div 4))
      <3>1. q \in Int /\ ISA!AccessSize(i.op) \in 1..4
        BY UnsignedNumbers, <2>3 DEF ISA!AccessSize
      <3>2. q - u \in 0..3
        BY <1>4, <2>3, <3>1
      <3> QED BY <3>2, SliceIs
    <2>4. B' = [q \in 0..(WordValues - 1) |->
                  IF q \in u..(u + ISA!AccessSize(i.op) - 1)
                  THEN ISA!Slice(b, (q - u + 1) * (Width \div 4) - 1, (q - u) * (Width \div 4))
                  ELSE B[q]]
      <3>1. B' = [q \in 0..(WordValues - 1) |-> memory_rd_b(mem', q)]
        BY <2>2 DEF B, ByteAt
      <3>2. B = [q \in 0..(WordValues - 1) |-> memory_rd_b(mem, q)]
        BY <2>2 DEF B, ByteAt
      <3> QED BY <2>1, <2>3, <3>1, <3>2
    <2>5. X' = X /\ Status' = Status
      BY <1>7, <2>2, NoRegisterSet DEF Status
    <2>6. ISA!GoTo(pc + 4)
      BY <1>7, <1>9 DEF NextInsn, GoTo, ISA!GoTo
    <2>7. ISA!Store(i, u, b)
      BY <2>2, <2>4, <2>5, <2>6, IsaNumbers DEF ISA!Store, B, X, Status
    <2> QED BY <1>2, <1>3, <1>4, <1>9, <2>1, <2>7, ExecuteIs
  <1> QED BY <1>8, <1>9

-----------------------------------------------------------------------------
(* The state while the machine runs                                         *)

LEMMA FieldIs ==
  ASSUME ins \in Int, NEW lo \in 0..31, NEW n \in 0..31
  PROVE  Field(lo, n) \in 0..(2^n - 1) /\ Field(lo, n) \in Int
  <1>1. PICK L, N : L = 2^lo /\ N = 2^n /\ L \in Nat \ {0} /\ N \in Nat \ {0}
    BY Powers
  <1>2. ins \div L \in Int
    BY <1>1
  <1>3. (ins \div L) % N \in 0..(N - 1) /\ (ins \div L) % N \in Int
    BY <1>1, <1>2
  <1> QED BY <1>1, <1>3 DEF Field

LEMMA ImmediatesAre ==
  ASSUME ins \in Int
  PROVE  rd \in 0..31 /\ rs1 \in 0..31 /\ rs2 \in 0..31 /\ ImmI \in Int /\ ImmS \in Int /\ ImmB \in Int /\ ImmJ \in Int /\ ImmU \in Int
  <1>1. rd \in 0..31 /\ rs1 \in 0..31 /\ rs2 \in 0..31
    <2>1. Field(7, 5) \in 0..(2^5 - 1) /\ Field(15, 5) \in 0..(2^5 - 1) /\ Field(20, 5) \in 0..(2^5 - 1)
      BY FieldIs
    <2> QED BY <2>1 DEF rd, rs1, rs2
  <1>2. \A v \in Int : SignExtend(v, 12) \in Int /\ SignExtend(v, 13) \in Int /\ SignExtend(v, 21) \in Int
    BY DEF SignExtend
  <1>3. Bit31 \in Int
    BY DEF Bit31
  <1>4. ImmI \in Int
    <2>1. Field(20, 12) \in Int
      BY FieldIs
    <2> QED BY <2>1, <1>2 DEF ImmI
  <1>5. ImmS \in Int
    <2>1. Field(25, 7) \in Int /\ Field(7, 5) \in Int
      BY FieldIs
    <2>2. Field(25, 7) * 32 + Field(7, 5) \in Int
      BY <2>1
    <2> QED BY <2>2, <1>2 DEF ImmS
  <1>6. ImmB \in Int
    <2>1. Field(8, 4) \in Int /\ Field(25, 6) \in Int /\ Field(7, 1) \in Int
      BY FieldIs
    <2>2. Field(8, 4) * 2 + Field(25, 6) * 32 + Field(7, 1) * 2^11 + Bit31 * 2^12 \in Int
      BY <2>1, <1>3
    <2> QED BY <2>2, <1>2 DEF ImmB
  <1>7. ImmJ \in Int
    <2>1. Field(21, 10) \in Int /\ Field(20, 1) \in Int /\ Field(12, 8) \in Int
      BY FieldIs
    <2>2. Field(21, 10) * 2 + Field(20, 1) * 2^11 + Field(12, 8) * 2^12 + Bit31 * 2^20 \in Int
      BY <2>1, <1>3
    <2> QED BY <2>2, <1>2 DEF ImmJ
  <1>8. ImmU \in Int
    <2>1. UpperBits \in 0..31
      BY CommandsAssumption, Zenon
    <2>2. PICK U : U = 2^UpperBits /\ U \in Int
      BY <2>1, Powers
    <2>3. (ins \div 2^12) * U \in Int
      BY <2>2
    <2> QED BY <2>2, <2>3 DEF ImmU
  <1> QED BY <1>1, <1>4, <1>5, <1>6, <1>7, <1>8

\* The operations that the switches come to.
LEMMA OpCases == OpCase = "default" \/ OpCase \in ISA!Ops
  <1>1. Case(Ms, funct3) = "default" \/ Case(Ms, funct3) \in DOMAIN Ms
    BY DEF Case
  <1>2. Case(Ops, funct3) = "default" \/ Case(Ops, funct3) \in DOMAIN Ops
    BY DEF Case
  <1>3. DOMAIN Ms = {"MUL", "MULH", "MULHSU", "MULHU", "DIV", "DIVU", "REM", "REMU"}
    BY DEF Ms
  <1>4. DOMAIN Ops = {"ADUB", "SLL", "SLT", "SLTU", "XOR", "SR", "OR", "AND"}
    BY DEF Ops
  <1>5. ShiftRight(funct7) \in {"SRL", "SRA", "default"}
    BY DEF ShiftRight
  <1> QED BY <1>1, <1>2, <1>3, <1>4, <1>5 DEF OpCase, ISA!Ops

LEMMA OpImmCases == OpImmCase = "default" \/ \E op \in ISA!OpImms : OpImmCase = ImmCase(op)
  <1>1. Case(OpImms, funct3) = "default" \/ Case(OpImms, funct3) \in DOMAIN OpImms
    BY DEF Case
  <1>2. DOMAIN OpImms = {"ADD", "SLL", "SLT", "SLTIU", "XOR", "SRI", "OR", "AND"}
    BY DEF OpImms
  <1>3. ShiftRight(funct7) \in {"SRL", "SRA", "default"}
    BY DEF ShiftRight
  <1>4. OpImmCase \in {"default", "ADD", "SLL", "SLT", "SLTIU", "XOR", "SRL", "SRA", "OR", "AND"}
    BY <1>1, <1>2, <1>3 DEF OpImmCase
  <1>5. /\ {"ADDI", "SLTI", "SLTIU", "XORI", "ORI", "ANDI", "SLLI", "SRLI", "SRAI"} \subseteq ISA!OpImms
        /\ ImmCase("ADDI") = "ADD" /\ ImmCase("SLTI") = "SLT" /\ ImmCase("SLTIU") = "SLTIU" /\ ImmCase("XORI") = "XOR"
        /\ ImmCase("ORI") = "OR" /\ ImmCase("ANDI") = "AND" /\ ImmCase("SLLI") = "SLL" /\ ImmCase("SRLI") = "SRL" /\ ImmCase("SRAI") = "SRA"
    BY DEF ISA!OpImms, ISA!Shifts, ImmCase
  <1> QED BY <1>4, <1>5

\* What is known of a step that goes on.
Goes == regs' \in [0..31 -> Words] /\ MemoryOK(mem') /\ pc' \in Int

LEMMA RegisterKept ==
  ASSUME Running, NEW d \in 0..31, NEW v \in Int, SetReg(d, v)
  PROVE  regs' \in [0..31 -> Words]
BY RegistersAre, SignedIs DEF SetReg

LEMMA ComputeGoes ==
  ASSUME Running, ins \in Int, NEW name, NEW n, name = "default" \/ Result(name, op1, n) \in Int, Compute(name, n)
  PROVE  Goes
  <1>1. MemoryOK(mem) /\ pc \in Int
    BY DEF Running
  <1>2. regs' \in [0..31 -> Words]
    BY RegisterKept, RegistersAre, ImmediatesAre DEF Compute
  <1>3. mem' = mem /\ pc' = pc + 4
    BY DEF Compute, NextInsn, GoTo, Quiet
  <1> QED BY <1>1, <1>2, <1>3 DEF Goes

LEMMA LoadGoes ==
  ASSUME Running, ins \in Int, Load, phase' = "run"
  PROVE  Goes
  <1>1. MemoryOK(mem) /\ pc \in Int
    BY DEF Running
  <1>2. op1 \in Int /\ ImmI \in Int /\ rd \in 0..31
    BY RegistersAre, ImmediatesAre DEF op1
  <1>3. PICK name, v, adr : name = Case(Loads, funct3) /\ v = op1 + ImmI /\ adr = Signed(v) /\ v \in Int
    BY <1>2
  <1>4. PICK u : u = Unsigned(adr) /\ u \in 0..(WordValues - 1) /\ adr \in Int /\ adr % 2 = u % 2
    <2>1. adr \in Int
      BY <1>3, SignedIs, SignedWord
    <2> QED BY <2>1, UnsignedIs
  <1>5. ~Unaligned(name, adr)
    <2>1. ~(phase' = "end")
      OBVIOUS
    <2> QED BY <2>1, <1>3, Zenon DEF Load, Ends
  <1>6. /\ IF name = "default"
           THEN regs' = cleared /\ mem' = mem
           ELSE SetReg(rd, Read(name, adr)) /\ mem' = get_page(mem, adr)
        /\ NextInsn
    BY <1>3, <1>5, Zenon DEF Load, Read
  <1>7. name \in {"default", "LB", "LH", "LW", "LBU", "LHU"}
    <2>1. DOMAIN Loads = {"LB", "LH", "LW", "LBU", "LHU"}
      BY DEF Loads
    <2> QED BY <2>1, <1>3 DEF Case
  <1>8. name # "default" => Read(name, adr) \in Int
    <2>1. memory_rd_b(mem, adr) \in Int
      BY <1>4, ReadByte
    <2>2. memory_rd_w(mem, adr) \in Int
      <3>1. Word(mem, adr) \in Int
        BY <1>1, <1>4, WordIs, Numbers
      <3> QED BY <3>1, SignedIs, SignedWord DEF memory_rd_w
    <2>3. name \in {"LH", "LHU"} => memory_rd_h(mem, adr) \in Int
      <3>1. ASSUME name \in {"LH", "LHU"} PROVE u % 2 = 0
        BY <1>4, <1>5, <3>1 DEF Unaligned, UnalignedHalf
      <3>2. ByteValues * ByteValues - 1 \in Int
        BY Numbers
      <3> QED BY <1>4, <3>1, <3>2, ReadHalf
    <2> QED BY <1>7, <2>1, <2>2, <2>3, ReadIs
  <1>9. regs' \in [0..31 -> Words]
    BY <1>2, <1>6, <1>8, RegisterKept, RegistersAre
  <1>10. MemoryOK(mem')
    BY <1>1, <1>4, <1>6, GetPage
  <1>11. pc' \in Int
    BY <1>1, <1>6 DEF NextInsn, GoTo
  <1> QED BY <1>9, <1>10, <1>11 DEF Goes

LEMMA StoreGoes ==
  ASSUME Running, ins \in Int, Store, phase' = "run"
  PROVE  Goes
  <1>1. MemoryOK(mem) /\ pc \in Int
    BY DEF Running
  <1>2. op1 \in Int /\ op2 \in Int /\ ImmS \in Int
    BY RegistersAre, ImmediatesAre DEF op1, op2
  <1>3. PICK name, v, adr : name = Case(Stores, funct3) /\ v = op1 + ImmS /\ adr = Signed(v) /\ v \in Int
    BY <1>2
  <1>4. adr \in Int
    BY <1>3, SignedIs, SignedWord
  <1>5. ~Unaligned(name, adr)
    <2>1. ~(phase' = "end")
      OBVIOUS
    <2> QED BY <2>1, <1>3, Zenon DEF Store, Ends
  <1>6. regs' = cleared /\ mem' = Written(name, adr, op2) /\ NextInsn
    BY <1>3, <1>5, Zenon DEF Store, Written
  <1>7. MemoryOK(Written(name, adr, op2))
    <2>1. CASE name = "SB"
      <3>1. Written(name, adr, op2) = memory_wr_b(mem, adr, op2)
        BY <2>1, Zenon DEF Written
      <3> QED BY <3>1, <1>1, <1>2, <1>4, ByteWritten
    <2>2. CASE name = "SH"
      <3>1. Written(name, adr, op2) = memory_wr_h(mem, adr, op2)
        BY <2>2, Zenon DEF Written
      <3>2. adr % 2 = 0
        BY <1>4, <1>5, <2>2 DEF Unaligned, UnalignedHalf
      <3> QED BY <3>1, <3>2, <1>1, <1>2, <1>4, HalfWritten
    <2>3. CASE name = "SW"
      <3>1. Written(name, adr, op2) = memory_wr_w(mem, adr, op2)
        BY <2>3, Zenon DEF Written
      <3>2. adr % 4 = 0
        BY <1>4, <1>5, <2>3 DEF Unaligned, UnalignedWord
      <3> QED BY <3>1, <3>2, <1>1, <1>2, <1>4, WordWritten
    <2>4. CASE name \notin {"SB", "SH", "SW"}
      <3>1. Written(name, adr, op2) = mem
        BY <2>4 DEF Written
      <3> QED BY <3>1, <1>1
    <2> QED BY <2>1, <2>2, <2>3, <2>4
  <1>8. pc' \in Int
    BY <1>1, <1>6 DEF NextInsn, GoTo
  <1> QED BY <1>6, <1>7, <1>8, RegistersAre DEF Goes

\* Whatever is done, registers are words and the memory is one.
LEMMA BodyGoes ==
  ASSUME Running, ins \in Int, Body, phase' = "run", opcode \in {55, 23, 111, 103, 115, 99, 3, 35, 19, 51}
  PROVE  Goes
  <1>1. MemoryOK(mem) /\ pc \in Int /\ cleared \in [0..31 -> Words]
    BY RegistersAre DEF Running
  <1>2. op1 \in Words /\ op2 \in Words /\ op1 \in Int /\ op2 \in Int
    BY RegistersAre, ImmediatesAre DEF op1, op2
  <1>3. rd \in 0..31 /\ ImmI \in Int /\ ImmB \in Int /\ ImmJ \in Int /\ ImmU \in Int
    BY ImmediatesAre
  <1>4. pc + 4 \in Int /\ pc + ImmU \in Int /\ pc + ImmJ \in Int /\ pc + ImmB \in Int /\ op1 + ImmI \in Int
    BY <1>1, <1>2, <1>3
  <1>5. ~(phase' = "end")
    OBVIOUS
  <1>6. CASE opcode \in {55, 23}
    <2>1. (SetReg(rd, ImmU) \/ SetReg(rd, pc + ImmU)) /\ NextInsn /\ Quiet
      BY <1>6, BodyIs
    <2> QED BY <2>1, <1>1, <1>3, <1>4, RegisterKept DEF Goes, NextInsn, GoTo, Quiet
  <1>7. CASE opcode = 111
    <2>1. SetReg(rd, pc + 4) /\ GoTo(pc + ImmJ) /\ Quiet
      BY <1>7, BodyIs
    <2> QED BY <2>1, <1>1, <1>3, <1>4, RegisterKept DEF Goes, GoTo, Quiet
  <1>8. CASE opcode = 103
    <2>1. PICK v : v = op1 + ImmI /\ v \in Int
      BY <1>4
    <2>2. SetReg(rd, pc + 4) /\ GoTo(Signed(v) - (Signed(v) % 2)) /\ Quiet
      BY <1>8, <2>1, BodyIs
    <2>3. Signed(v) \in Int
      BY <2>1, SignedIs, SignedWord
    <2>4. Signed(v) - (Signed(v) % 2) \in Int
      BY <2>3
    <2> QED BY <2>2, <2>4, <1>1, <1>3, <1>4, RegisterKept DEF Goes, GoTo, Quiet
  <1>9. CASE opcode = 115
    <2>1. Ecall
      BY <1>9, BodyIs
    <2>2. CASE (\E c \in Chars : SetReg(10, c)) /\ NextInsn /\ Quiet
      <3>1. Chars \subseteq Int
        BY CommandsAssumption, Zenon
      <3>2. PICK c \in Chars : SetReg(10, c)
        BY <2>2
      <3>3. 10 \in 0..31 /\ c \in Int
        BY <3>1, <3>2
      <3>4. regs' \in [0..31 -> Words]
        BY <3>2, <3>3, RegisterKept
      <3> QED BY <3>4, <2>2, <1>1, <1>4 DEF Goes, NextInsn, GoTo, Quiet
    <2>3. CASE regs' = cleared /\ mem' = mem /\ (NextInsn \/ pc' = pc)
      BY <2>3, <1>1, <1>4 DEF Goes, NextInsn, GoTo
    <2> QED BY <2>1, <2>2, <2>3, <1>5 DEF Ecall, Ends, Quiet
  <1>10. CASE opcode = 99
    <2>1. Branch
      BY <1>10, BodyIs
    <2>2. PICK name : name = Case(Branches, funct3)
      OBVIOUS
    <2>3. regs' = cleared /\ Quiet /\ GoTo(pc + IF BranchTaken(name) THEN ImmB ELSE 4)
      BY <2>1, <2>2, <1>5, Zenon DEF Branch, Ends
    <2>4. pc' \in Int
      BY <2>3, <1>4 DEF GoTo
    <2> QED BY <2>3, <2>4, <1>1 DEF Goes, Quiet
  <1>11. CASE opcode = 3
    BY <1>11, BodyIs, LoadGoes
  <1>12. CASE opcode = 35
    BY <1>12, BodyIs, StoreGoes
  <1>13. CASE opcode = 19
    <2>1. Compute(OpImmCase, ImmI)
      BY <1>13, BodyIs
    <2>2. OpImmCase = "default" \/ Result(OpImmCase, op1, ImmI) \in Int
      <3>1. ASSUME NEW op \in ISA!OpImms, OpImmCase = ImmCase(op)
            PROVE  Result(OpImmCase, op1, ImmI) \in Int
        <4>1. CASE op = "SRAI"
          <5>1. PICK imm \in Int : ImmI = 1024 + imm
            <6>1. ImmI = 1024 + (ImmI - 1024) /\ ImmI - 1024 \in Int
              BY <1>3
            <6> QED BY <6>1
          <5>2. Result(ImmCase(op), op1, IF op = "SRAI" THEN 1024 + imm ELSE imm) \in Int
            BY <1>2, <5>1, ImmResult
          <5>3. (IF op = "SRAI" THEN 1024 + imm ELSE imm) = ImmI
            BY <4>1, <5>1
          <5> QED BY <3>1, <5>2, <5>3, Zenon
        <4>2. CASE op # "SRAI"
          BY <3>1, <4>2, <1>2, <1>3, ImmResult
        <4> QED BY <4>1, <4>2
      <3> QED BY <3>1, OpImmCases
    <2> QED BY <2>1, <2>2, ComputeGoes
  <1>14. CASE opcode = 51
    <2>1. ~Faults(OpCase, op1, op2) /\ Compute(OpCase, op2)
      BY <1>14, <1>5, BodyIs, Zenon DEF OpBody, Ends
    <2>2. OpCase = "default" \/ Result(OpCase, op1, op2) \in Int
      BY <2>1, <1>2, OpCases, OpResult
    <2> QED BY <2>1, <2>2, ComputeGoes
  <1> QED BY <1>6, <1>7, <1>8, <1>9, <1>10, <1>11, <1>12, <1>13, <1>14

-----------------------------------------------------------------------------
(* Words that are no instruction                                            *)

LEMMA UndefinedIs == Running /\ Undefined => ISA!Trap
  <1> SUFFICES ASSUME Running, Undefined PROVE ISA!Trap
    OBVIOUS
  <1>1. phase' = "end" /\ exit' \notin {"no start", "terminate"} /\ regs' = regs /\ UNCHANGED <<mem, output, pc>>
    BY DEF Undefined, Ends
  <1> QED BY <1>1, TrapIs

\* The names that the switches find for functions there are not.
LEMMA NoNames ==
  /\ funct3 \in {2, 3} => Case(Branches, funct3) = "default"
  /\ funct3 \in {3, 6, 7} => Case(Loads, funct3) = "default"
  /\ funct3 \notin {0, 1, 2} => Case(Stores, funct3) = "default"
  /\ funct3 = 5 /\ funct7 \notin {0, 32} => OpImmCase = "default"
  /\ funct3 \in {0, 5} /\ funct7 \notin {0, 1, 32} => OpCase = "default"
  <1>1. funct3 \in {2, 3} => Case(Branches, funct3) = "default"
    BY DEF Case, Branches
  <1>2. funct3 \in {3, 6, 7} => Case(Loads, funct3) = "default"
    BY DEF Case, Loads
  <1>3. funct3 \notin {0, 1, 2} => Case(Stores, funct3) = "default"
    BY DEF Case, Stores
  <1>4. funct7 \notin {0, 32} => ShiftRight(funct7) = "default"
    BY DEF ShiftRight
  <1>5. funct3 = 5 /\ funct7 \notin {0, 32} => OpImmCase = "default"
    <2>1. funct3 = 5 => Case(OpImms, funct3) = "SRI"
      BY DEF Case, OpImms
    <2> QED BY <2>1, <1>4 DEF OpImmCase
  <1>6. funct3 \in {0, 5} /\ funct7 \notin {0, 1, 32} => OpCase = "default"
    <2>1. (funct3 = 0 => Case(Ops, funct3) = "ADUB") /\ (funct3 = 5 => Case(Ops, funct3) = "SR")
      BY DEF Case, Ops
    <2>2. CASE funct3 = 0
      BY <2>1, <2>2 DEF OpCase
    <2>3. CASE funct3 = 5
      BY <2>1, <2>3, <1>4 DEF OpCase
    <2> QED BY <2>2, <2>3
  <1> QED BY <1>1, <1>2, <1>3, <1>5, <1>6

\* Nothing but the next instruction, and a trap.
PassesBy == X' = X /\ pc' = pc + 4 /\ ISA!Quiet

LEMMA DefaultPasses ==
  ASSUME Running, NEW n, Compute("default", n)
  PROVE  PassesBy
  <1>1. regs' = cleared /\ pc' = pc + 4 /\ UNCHANGED <<mem, output, exit, phase>>
    BY DEF Compute, NextInsn, GoTo, Quiet
  <1> QED BY <1>1, QuietIs, NoRegisterSet DEF PassesBy

LEMMA ReservedStep ==
  ASSUME Running, NEW i, i.op = "reserved", i.imm \in Int, ISA!Unassigned(i.imm), ins = ISA!Encode(i),
         IF opcode \in {55, 23, 111, 103, 115, 99, 3, 35, 19, 51} THEN Body ELSE Undefined
  PROVE  ISA!Execute(i)
  <1>1. ins \in Int
    BY EncodedSingle
  <1>2. ISA!Trap \/ PassesBy
    <2>1. CASE opcode \notin {55, 23, 111, 103, 115, 99, 3, 35, 19, 51}
      BY <2>1, UndefinedIs
    <2>2. CASE opcode = 99 /\ funct3 \in {2, 3}
      <3>1. Branch /\ Case(Branches, funct3) = "default"
        BY <2>2, BodyIs, NoNames
      <3>2. regs' = cleared /\ Ends("undefined") /\ UNCHANGED <<mem, output, pc>>
        BY <3>1 DEF Branch
      <3> QED BY <3>2, TrapIs DEF Ends
    <2>3. CASE opcode = 3 /\ funct3 \in {3, 6, 7}
      <3>1. Load /\ Case(Loads, funct3) = "default"
        BY <2>3, BodyIs, NoNames
      <3>2. \A adr : ~Unaligned("default", adr)
        BY DEF Unaligned
      <3>3. regs' = cleared /\ mem' = mem /\ NextInsn /\ UNCHANGED <<output, exit, phase>>
        BY <3>1, <3>2, Zenon DEF Load
      <3> QED BY <3>3, QuietIs, NoRegisterSet DEF PassesBy, NextInsn, GoTo
    <2>4. CASE opcode = 35 /\ funct3 \notin {0, 1, 2}
      <3>1. Store /\ Case(Stores, funct3) = "default"
        BY <2>4, BodyIs, NoNames
      <3>2. \A adr : ~Unaligned("default", adr)
        BY DEF Unaligned
      <3>3. \A adr, b : Written("default", adr, b) = mem
        BY DEF Written
      <3>4. regs' = cleared /\ mem' = mem /\ NextInsn /\ UNCHANGED <<output, exit, phase>>
        BY <3>1, <3>2, <3>3, Zenon DEF Store, Written
      <3> QED BY <3>4, QuietIs, NoRegisterSet DEF PassesBy, NextInsn, GoTo
    <2>5. CASE opcode = 19 /\ funct3 = 5 /\ funct7 \notin {0, 32}
      <3>1. Compute("default", ImmI)
        BY <2>5, BodyIs, NoNames
      <3> QED BY <3>1, DefaultPasses
    <2>6. CASE opcode = 51 /\ funct3 \in {0, 5} /\ funct7 \notin {0, 1, 32}
      <3>1. OpBody /\ OpCase = "default"
        BY <2>6, BodyIs, NoNames
      <3>2. ~Faults("default", op1, op2)
        BY DEF Faults
      <3>3. Compute("default", op2)
        BY <3>1, <3>2, Zenon DEF OpBody
      <3> QED BY <3>3, DefaultPasses
    <2> QED BY <2>1, <2>2, <2>3, <2>4, <2>5, <2>6, ReservedDecoded
  <1>3. PICK a, b, addr : a = X[i.rs1] /\ b = X[i.rs2] /\ addr = Unsigned(a + i.imm)
    OBVIOUS
  <1> QED BY <1>2, <1>3, ExecuteIs DEF PassesBy

-----------------------------------------------------------------------------
(* An instruction of the listing                                            *)

\* The formats of the instructions.
Formats(i) ==
  \/ i.op \in {"LUI", "AUIPC"} /\ i.imm \in Int
  \/ i.op = "JAL" /\ i.imm \in Imm21
  \/ i.op \in ISA!Branches /\ i.imm \in Imm13
  \/ i.op \in {"JALR"} \cup ISA!Loads \cup ISA!Stores \cup (ISA!OpImms \ ISA!Shifts) /\ i.imm \in Imm12
  \/ i.op \in ISA!Shifts /\ i.imm \in Regs5
  \/ i.op \in ISA!Ops \cup {"ECALL"}
  \/ i.op = "reserved" /\ i.imm \in Int /\ ISA!Unassigned(i.imm)

LEMMA FormatsAre ==
  ASSUME NEW i, ISA!IsInstruction(i)
  PROVE  HasRegisters(i) /\ Formats(i)
  <1>1. HasRegisters(i)
    BY DEF ISA!IsInstruction, HasRegisters, Regs5
  <1>2. (-(2^11))..(2^11 - 1) = Imm12
    BY DEF Imm12
  <1>3. CASE i.op \in {"LUI", "AUIPC"} /\ i.imm \in (-(2^19))..(2^19 - 1)
    <2>1. i.imm \in Int
      BY <1>3
    <2> QED BY <1>1, <1>3, <2>1, Zenon DEF Formats
  <1>4. CASE i.op = "JAL" /\ i.imm \in (-(2^20))..(2^20 - 1) /\ i.imm % 2 = 0
    <2>1. i.imm \in Imm21
      BY <1>4, Zenon DEF Imm21
    <2> QED BY <1>1, <1>4, <2>1, Zenon DEF Formats
  <1>5. CASE i.op \in ISA!Branches /\ i.imm \in (-(2^12))..(2^12 - 1) /\ i.imm % 2 = 0
    <2>1. i.imm \in Imm13
      BY <1>5, Zenon DEF Imm13
    <2> QED BY <1>1, <1>5, <2>1, Zenon DEF Formats
  <1>6. CASE i.op \in {"JALR"} \cup ISA!Loads \cup ISA!Stores \cup (ISA!OpImms \ ISA!Shifts) /\ i.imm \in (-(2^11))..(2^11 - 1)
    <2>1. i.imm \in Imm12
      BY <1>2, <1>6, Zenon
    <2> QED BY <1>1, <1>6, <2>1, Zenon DEF Formats
  <1>7. CASE i.op \in ISA!Shifts /\ i.imm \in 0..31
    BY <1>1, <1>7, Zenon DEF Formats, Regs5
  <1>8. CASE i.op \in ISA!Ops \cup {"ECALL"}
    BY <1>1, <1>8, Zenon DEF Formats
  <1>9. CASE i.op = "reserved" /\ i.imm \in Int /\ ISA!Unassigned(i.imm)
    BY <1>1, <1>9, Zenon DEF Formats
  <1>10. i.imm \in ((-(2^30)) - 2^30)..((2^30 - 1) + 2^30) => i.imm \in Int
    OBVIOUS
  <1> QED BY <1>3, <1>4, <1>5, <1>6, <1>7, <1>8, <1>9, <1>10, Zenon DEF ISA!IsInstruction

LEMMA EncodedNumber ==
  ASSUME NEW i, HasRegisters(i), Formats(i)
  PROVE  ISA!Encode(i) \in Int
  <1>1. i.rd \in Int /\ i.rs1 \in Int /\ i.rs2 \in Int
    BY DEF HasRegisters, Regs5
  <1>2. Imm12 \subseteq Int /\ Regs5 \subseteq Int /\ Funcs \subseteq Int
    BY DEF Imm12, Regs5, Funcs
  <1>3. ISA!SignBit(i.imm) \in Int
    BY DEF ISA!SignBit
  <1>4. CASE i.op \in {"LUI", "AUIPC"} /\ i.imm \in Int
    <2>1. PICK o \in Int : ISA!Encode(i) = UWord(i.imm, i.rd, o)
      BY <1>4, EncodedSingle
    <2> QED BY <1>1, <1>4, <2>1 DEF UWord
  <1>5. CASE i.op = "JAL" /\ i.imm \in Imm21
    <2>1. PICK m, s1, s2, s3 : /\ m = i.imm /\ s1 = ISA!Slice(m, 10, 1) /\ s2 = ISA!Slice(m, 11, 11) /\ s3 = ISA!Slice(m, 19, 12)
      OBVIOUS
    <2>2. s1 \in Int /\ s2 \in Int /\ s3 \in Int
      BY <1>5, <2>1, JumpParts
    <2>3. ISA!Encode(i) = s1 * 2^21 + s2 * 2^20 + s3 * 2^12 + i.rd * 2^7 + 111 + ISA!SignBit(i.imm)
      BY <1>5, <2>1, EncodedSingle
    <2> QED BY <1>1, <1>3, <2>2, <2>3
  <1>6. CASE i.op \in ISA!Branches /\ i.imm \in Imm13
    <2>1. PICK m, s1, s2, s3 : /\ m = i.imm /\ s1 = ISA!Slice(m, 4, 1) /\ s2 = ISA!Slice(m, 10, 5) /\ s3 = ISA!Slice(m, 11, 11)
      OBVIOUS
    <2>2. s1 \in Int /\ s2 \in Int /\ s3 \in Int
      BY <1>6, <2>1, BranchParts
    <2>3. PICK f3 : f3 = ISA!F3[i.op] /\ f3 \in Int
      BY <1>2, <1>6, AccessNames
    <2>4. ISA!Encode(i) = s2 * 2^25 + i.rs2 * 2^20 + i.rs1 * 2^15 + f3 * 2^12 + s1 * 2^8 + s3 * 2^7 + 99 + ISA!SignBit(i.imm)
      BY <1>6, <2>1, <2>3, EncodedBranch
    <2> QED BY <1>1, <1>3, <2>2, <2>3, <2>4
  <1>7. CASE i.op = "JALR" /\ i.imm \in Imm12
    <2>1. ISA!Encode(i) = IWord(i.imm, i.rs1, 0, i.rd, 103)
      <3>1. ISA!F3["JALR"] = 0
        BY AccessNames
      <3>2. i.op = "JALR" => ISA!Encode(i) = IWord(i.imm, i.rs1, ISA!F3[i.op], i.rd, 103)
        BY EncodedSingle, Zenon
      <3> QED BY <1>7, <3>1, <3>2, Zenon
    <2>2. i.imm \in Int
      BY <1>2, <1>7
    <2> QED BY <1>1, <2>1, <2>2 DEF IWord
  <1>8. CASE i.op \in ISA!Loads /\ i.imm \in Imm12
    <2>1. PICK f3 \in Int : f3 = ISA!F3[i.op]
      BY <1>2, <1>8, AccessNames
    <2>2. ISA!Encode(i) = IWord(i.imm, i.rs1, f3, i.rd, 3) /\ i.imm \in Int
      BY <1>2, <1>8, <2>1, EncodedLoad
    <2> QED BY <1>1, <2>1, <2>2 DEF IWord
  <1>9. CASE i.op \in ISA!Stores /\ i.imm \in Imm12
    <2>1. PICK f3 \in Int : f3 = ISA!F3[i.op]
      BY <1>2, <1>9, AccessNames
    <2>2. i.imm \in Int
      BY <1>2, <1>9
    <2>3. ISA!Encode(i) = RWord(i.imm \div 32, i.rs2, i.rs1, f3, i.imm % 32, 35)
      BY <1>9, <2>1, EncodedStore
    <2> QED BY <1>1, <2>1, <2>2, <2>3 DEF RWord
  <1>10. CASE i.op \in ISA!OpImms \ ISA!Shifts /\ i.imm \in Imm12
    <2>1. PICK f3 \in Int : f3 = ISA!F3[i.op]
      BY <1>2, <1>10, ImmNames
    <2>2. ISA!Encode(i) = IWord(i.imm, i.rs1, f3, i.rd, 19) /\ i.imm \in Int
      BY <1>2, <1>10, <2>1, EncodedImm
    <2> QED BY <1>1, <2>1, <2>2 DEF IWord
  <1>11. CASE i.op \in ISA!Shifts /\ i.imm \in Regs5
    <2>1. i.op \in ISA!OpImms
      BY <1>11, NamesDiffer
    <2>2. PICK f3 \in Int, f7 \in Int : f3 = ISA!F3[i.op] /\ f7 = ISA!F7(i.op)
      <3>1. PICK f3, f7 : f3 = ISA!F3[i.op] /\ f7 = ISA!F7(i.op)
        OBVIOUS
      <3>2. f3 \in Funcs /\ f7 \in {0, 1, 32}
        BY <2>1, <3>1, ImmNames
      <3>3. f3 \in Int /\ f7 \in Int
        BY <1>2, <3>2
      <3> QED BY <3>1, <3>3, Zenon
    <2>3. ISA!Encode(i) = RWord(f7, i.imm, i.rs1, f3, i.rd, 19) /\ i.imm \in Int
      BY <1>2, <1>11, <2>2, EncodedShift
    <2> QED BY <1>1, <2>2, <2>3 DEF RWord
  <1>12. CASE i.op \in ISA!Ops
    <2>1. PICK f3 \in Int, f7 \in Int : f3 = ISA!F3[i.op] /\ f7 = ISA!F7(i.op)
      <3>1. PICK f3, f7 : f3 = ISA!F3[i.op] /\ f7 = ISA!F7(i.op)
        OBVIOUS
      <3>2. f3 \in Funcs /\ f7 \in {0, 1, 32}
        BY <1>12, <3>1, OpNames
      <3>3. f3 \in Int /\ f7 \in Int
        BY <1>2, <3>2
      <3> QED BY <3>1, <3>3, Zenon
    <2>2. ISA!Encode(i) = RWord(f7, i.rs2, i.rs1, f3, i.rd, 51)
      BY <1>12, <2>1, EncodedOp
    <2> QED BY <1>1, <2>1, <2>2 DEF RWord
  <1>13. CASE i.op = "ECALL" \/ (i.op = "reserved" /\ i.imm \in Int)
    BY <1>13, EncodedSingle
  <1> QED BY <1>4, <1>5, <1>6, <1>7, <1>8, <1>9, <1>10, <1>11, <1>12, <1>13, Zenon DEF Formats

Known == {55, 23, 111, 103, 115, 99, 3, 35, 19, 51}
Stutters == X' = X /\ ISA!Quiet /\ pc' = pc

\* Every instruction is executed, but for a system call that there is not.
LEMMA InstructionStep ==
  ASSUME Running, NEW i, ISA!IsInstruction(i), ins = ISA!Encode(i), IF opcode \in Known THEN Body ELSE Undefined
  PROVE  ISA!Execute(i) \/ Stutters
  <1>1. HasRegisters(i) /\ Formats(i)
    BY FormatsAre
  <1>2. 55 \in Known /\ 23 \in Known /\ 111 \in Known /\ 103 \in Known /\ 115 \in Known /\ 99 \in Known /\ 3 \in Known
        /\ 35 \in Known /\ 19 \in Known /\ 51 \in Known
    BY DEF Known
  <1>3. CASE i.op \in {"LUI", "AUIPC"} /\ i.imm \in Int
    <2>1. Body
      BY <1>1, <1>2, <1>3, UpperDecoded
    <2> QED BY <1>1, <1>3, <2>1, UpperStep
  <1>4. CASE i.op = "JAL" /\ i.imm \in Imm21
    <2>1. Body
      BY <1>1, <1>2, <1>4, JalDecoded
    <2> QED BY <1>1, <1>4, <2>1, JalStep
  <1>5. CASE i.op \in ISA!Branches /\ i.imm \in Imm13
    <2>1. Body
      BY <1>1, <1>2, <1>5, BranchDecoded
    <2> QED BY <1>1, <1>5, <2>1, BranchStep
  <1>6. CASE i.op = "JALR" /\ i.imm \in Imm12
    <2>1. Body
      BY <1>1, <1>2, <1>6, JalrDecoded
    <2> QED BY <1>1, <1>6, <2>1, JalrStep
  <1>7. CASE i.op \in ISA!Loads /\ i.imm \in Imm12
    <2>1. Body
      BY <1>1, <1>2, <1>7, LoadDecoded
    <2> QED BY <1>1, <1>7, <2>1, LoadStep
  <1>8. CASE i.op \in ISA!Stores /\ i.imm \in Imm12
    <2>1. Body
      BY <1>1, <1>2, <1>8, StoreDecoded
    <2> QED BY <1>1, <1>8, <2>1, StoreStep
  <1>9. CASE i.op \in ISA!OpImms /\ (i.op \in ISA!Shifts => i.imm \in Regs5) /\ (i.op \notin ISA!Shifts => i.imm \in Imm12)
    <2>1. Body
      BY <1>1, <1>2, <1>9, OpImmDecoded
    <2> QED BY <1>1, <1>9, <2>1, OpImmStep
  <1>10. CASE i.op \in ISA!Ops
    <2>1. Body
      BY <1>1, <1>2, <1>10, OpDecoded
    <2> QED BY <1>1, <1>10, <2>1, OpStep
  <1>11. CASE i.op = "ECALL"
    <2>1. Body
      BY <1>2, <1>11, EcallDecoded
    <2> QED BY <1>11, <2>1, EcallStep DEF Stutters
  <1>12. CASE i.op = "reserved" /\ i.imm \in Int /\ ISA!Unassigned(i.imm)
    BY <1>12, ReservedStep DEF Known
  <1>13. i.op \in ISA!Shifts => i.op \in ISA!OpImms
    BY NamesDiffer
  <1> QED BY <1>1, <1>3, <1>4, <1>5, <1>6, <1>7, <1>8, <1>9, <1>10, <1>11, <1>12, <1>13, Zenon DEF Formats

LEMMA InstructionGoes ==
  ASSUME Running, NEW i, ISA!IsInstruction(i), ins = ISA!Encode(i), IF opcode \in Known THEN Body ELSE Undefined,
         phase' = "run"
  PROVE  Goes
  <1>1. ins \in Int
    BY FormatsAre, EncodedNumber
  <1>2. opcode \in Known
    BY DEF Undefined, Ends
  <1> QED BY <1>1, <1>2, BodyGoes DEF Known

-----------------------------------------------------------------------------
(* The listing                                                              *)

LEMMA LatestIn ==
  ASSUME NEW n \in Nat, NEW S \in SUBSET (1..n), S # {}
  PROVE  Latest(S) \in S
  <1> DEFINE T == {n - k : k \in S}
  <1>1. \A k \in S : k \in Int /\ n - k \in Nat
    OBVIOUS
  <1>2. T \subseteq Nat /\ T # {}
    BY <1>1
  <1>3. PICK m \in T : \A t \in T : m <= t
    <2> HIDE DEF T
    <2> QED BY <1>2, LeastNumber
  <1>4. PICK k \in S : m = n - k
    BY <1>3
  <1>5. \A j \in S : j <= k
    <2> SUFFICES ASSUME NEW j \in S PROVE j <= k
      OBVIOUS
    <2>1. n - k <= n - j
      BY <1>3, <1>4
    <2> QED BY <1>1, <2>1
  <1> QED BY <1>5 DEF Latest

\* The lines, as the instruction set names them.
LEMMA LinesAre ==
  ASSUME LoadInv, lineNo = Len(listing)
  PROVE  /\ lineNo \in Nat /\ DOMAIN listing = 1..lineNo
         /\ ISA!LinesOf("start") = StartLines(lineNo)
         /\ \A q : ISA!InsnAt(q) = InsnLines(lineNo, q) /\ ISA!Covering(q) = DataLines(lineNo, q)
         /\ \A S : ISA!Last(S) = Latest(S)
  <1>1. lineNo \in Nat /\ DOMAIN listing = 1..lineNo
    BY ListingIs DEF LoadInv
  <1>2. ISA!LinesOf("start") = StartLines(lineNo)
    BY <1>1 DEF ISA!LinesOf, StartLines
  <1>3. \A q : ISA!InsnAt(q) = InsnLines(lineNo, q)
    BY <1>1 DEF ISA!LinesOf, ISA!InsnAt, InsnLines
  <1>4. \A q : ISA!Covering(q) = DataLines(lineNo, q)
    BY <1>1 DEF ISA!LinesOf, ISA!Covering, DataLines
  <1>5. \A S : ISA!Last(S) = Latest(S)
    BY DEF ISA!Last, Latest
  <1> QED BY <1>1, <1>2, <1>3, <1>4, <1>5

\* The line of an instruction.
LEMMA LoadedInsn ==
  ASSUME NEW l, IsLine(l), l.kind = "insn", NEW i, i = l.insn
  PROVE  ISA!IsInstruction(i) /\ l.word = ISA!Encode(i) /\ l.addr % 4 = 0
  <1>1. l.kind # "other" /\ l.kind # "start" /\ l.kind # "data"
    OBVIOUS
  <1>2. l.word = ISA!Encode(l.insn) /\ l.addr % 4 = 0
    BY <1>1, Zenon DEF IsLine
  <1>3. i = l.insn
    OBVIOUS
  <1>4. ISA!IsInstruction(i)
    BY <1>1, <1>3, Zenon DEF IsLine, ISA!IsInstruction
  <1>5. l.word = ISA!Encode(i)
    BY <1>2, <1>3
  <1> QED BY <1>2, <1>4, <1>5

LEMMA LoadedStart ==
  ASSUME NEW l, IsLine(l), l.kind = "start"
  PROVE  l.addr \in Nat
BY DEF IsLine

-----------------------------------------------------------------------------
(* The steps of the simulator are those of the instruction set.             *)

LEMMA SimulateStep ==
  ASSUME LoadInv, RunInv, simulate
  PROVE  (ISA!Step \/ (Stutters /\ listing' = listing)) /\ RunInv'
  <1>1. Running
    BY DEF simulate, RunInv, Running
  <1>2. lineNo = Len(listing) /\ listing' = listing /\ exit = "" /\ phase = "run"
    BY DEF simulate, LoadInv, PhaseInv, loaded
  <1>3. Status = "running"
    BY <1>2 DEF Status
  <1>4. IF pc \in DOMAIN code /\ ~UnalignedWord(pc) /\ opcode \in Known THEN Body ELSE Undefined
    <2>1. IF pc \in DOMAIN code /\ ~UnalignedWord(pc) /\ \E name \in DOMAIN Opcodes : Is(name) THEN Body ELSE Undefined
      BY Zenon DEF simulate, Body
    <2> QED BY <2>1, OpcodesAre, Zenon DEF Known
  <1>5. phase' \in {"run", "end"} /\ (phase' = "run" => exit' = "")
    BY <1>2, SimulateStays
  <1>6. PICK lines : lines = InsnLines(lineNo, pc) /\ lines = ISA!InsnAt(pc) /\ (pc \in DOMAIN code <=> lines # {})
                     /\ (pc \in DOMAIN code => ins = listing[Latest(lines)].word)
    BY <1>2, LinesAre DEF LoadInv, CodeInv, ins
  <1>7. CASE lines = {}
    <2>1. Undefined
      BY <1>4, <1>6, <1>7
    <2>2. ISA!Trap
      BY <1>1, <2>1, UndefinedIs
    <2>3. ISA!Step
      BY <1>2, <1>3, <1>6, <1>7, <2>2, Zenon DEF ISA!Step, Status
    <2>4. phase' = "end"
      BY <2>1 DEF Undefined, Ends
    <2> QED BY <2>3, <2>4 DEF RunInv
  <1>8. CASE lines # {}
    <2>1. PICK k : k = Latest(lines) /\ k \in lines
      <3>1. lines \in SUBSET (1..lineNo) /\ lineNo \in Nat
        BY <1>2, <1>6, LinesAre DEF InsnLines
      <3> QED BY <3>1, <1>8, LatestIn
    <2>2. listing[k].kind = "insn" /\ listing[k].addr = pc /\ IsLine(listing[k])
      <3>1. k \in DOMAIN listing
        BY <1>2, <1>6, <2>1, LinesAre DEF InsnLines
      <3> QED BY <1>6, <2>1, <3>1, ListingIs DEF InsnLines, LoadInv
    <2>3. PICK i : i = listing[k].insn /\ ISA!IsInstruction(i) /\ ins = ISA!Encode(i) /\ pc % 4 = 0
      <3>1. PICK l : l = listing[k] /\ IsLine(l) /\ l.kind = "insn" /\ l.addr = pc /\ ins = l.word
        <4>1. ins = listing[k].word
          BY <1>6, <1>8, <2>1
        <4> QED BY <2>2, <4>1
      <3>2. PICK i : i = l.insn
        OBVIOUS
      <3>3. ISA!IsInstruction(i) /\ l.word = ISA!Encode(i) /\ l.addr % 4 = 0
        BY <3>1, <3>2, LoadedInsn, Zenon
      <3> QED BY <3>1, <3>2, <3>3, Zenon
    <2>4. IF opcode \in Known THEN Body ELSE Undefined
      BY <1>4, <1>6, <1>8, <2>3 DEF UnalignedWord
    <2>5. ISA!Execute(i) \/ Stutters
      BY <1>1, <2>3, <2>4, InstructionStep
    <2>6. ISA!Execute(i) => ISA!Step
      <3>1. ISA!Execute(i) => ISA!Execute(listing[ISA!Last(ISA!InsnAt(pc))].insn)
        <4>1. i = listing[ISA!Last(ISA!InsnAt(pc))].insn
          BY <1>2, <1>6, <2>1, <2>3, LinesAre
        <4> QED BY <4>1, ZenonT(60)
             DEF ISA!Execute, ISA!Compute, ISA!Load, ISA!Store, ISA!SystemCall, ISA!Write, ISA!GoTo, ISA!Loaded, ISA!Value
      <3>2. ISA!InsnAt(pc) # {}
        BY <1>6, <1>8
      <3> QED BY <1>2, <1>3, <3>1, <3>2, Zenon DEF ISA!Step, Status
    <2>7. RunInv'
      <3>1. phase' = "run" => Goes
        BY <1>1, <2>3, <2>4, InstructionGoes
      <3> QED BY <1>5, <3>1 DEF RunInv, Goes, MemoryOK
    <2> QED BY <1>2, <2>5, <2>6, <2>7
  <1> QED BY <1>7, <1>8

\* What the instruction set sees, unchanged.
Same == /\ listing' = listing /\ X' = X /\ pc' = pc /\ B' = B /\ Status' = Status /\ output' = output

\* Before the start nothing is seen: no step of the instruction set is taken.
LEMMA LoadingIsUnseen ==
  ASSUME LoadInv, RunInv, pass_args_to_program \/ ReadLine
  PROVE  Same /\ RunInv'
  <1>1. phase \in {"args", "load"} /\ phase' = "load" /\ UNCHANGED <<listing, regs, pc, output, exit>>
    BY DEF pass_args_to_program, ReadLine, loaded, machine
  <1>2. X' = X /\ Status' = Status
    BY <1>1 DEF X, Status
  <1>3. B' = B
    <2>1. B = [q \in 0..(WordValues - 1) |-> 0]
      BY <1>1 DEF B
    <2>2. B' = [q \in 0..(WordValues - 1) |-> 0]
      BY <1>1 DEF B
    <2> QED BY <2>1, <2>2
  <1> QED BY <1>1, <1>2, <1>3 DEF Same, RunInv

\* The memory when the program starts.
LEMMA BootBytes ==
  ASSUME LoadInv, phase = "load", lineNo = Len(listing)
  PROVE  \A a \in 0..(WordValues - 1) :
           IF ISA!Covering(a) # {}
           THEN memory_rd_b(mem, a) = listing[ISA!Last(ISA!Covering(a))].bytes[a - listing[ISA!Last(ISA!Covering(a))].addr + 1]
           ELSE a \in ArgBase..(WordValues \div 2 - 1) \/ memory_rd_b(mem, a) = 0
  <1>1. DataThere(mem, lineNo)
    BY DEF LoadInv, PhaseInv
  <1>2. ArgExtent(args) \subseteq ArgBase..(WordValues \div 2 - 1)
    <2>1. ArgExtent(args) = ArgBase..(StringsTo(Len(args)) - 1) /\ ArgExtent(args) \subseteq 0..(WordValues \div 2 - 1)
      BY ArgPlaces, ListingIs DEF LoadInv
    <2>2. ArgBase \in Int
      BY ArgPlaces DEF LoadInv
    <2>3. \A q \in ArgExtent(args) : q \in 0..(WordValues \div 2 - 1) /\ q >= ArgBase
      BY <2>1
    <2> QED BY <2>2, <2>3
  <1>3. ASSUME NEW a \in 0..(WordValues - 1)
        PROVE  IF ISA!Covering(a) # {}
               THEN memory_rd_b(mem, a) = listing[ISA!Last(ISA!Covering(a))].bytes[a - listing[ISA!Last(ISA!Covering(a))].addr + 1]
               ELSE a \in ArgBase..(WordValues \div 2 - 1) \/ memory_rd_b(mem, a) = 0
    <2>1. ISA!Covering(a) = DataLines(lineNo, a) /\ ISA!Last(ISA!Covering(a)) = Latest(DataLines(lineNo, a))
      BY LinesAre
    <2>2. IF DataLines(lineNo, a) # {}
          THEN memory_rd_b(mem, a) = listing[Latest(DataLines(lineNo, a))].bytes[a - listing[Latest(DataLines(lineNo, a))].addr + 1]
          ELSE a \notin ArgExtent(args) => memory_rd_b(mem, a) = 0
      BY <1>1, Zenon DEF DataThere
    <2> QED BY <1>2, <2>1, <2>2
  <1> QED BY <1>3

\* The start is that of the instruction set, or it does not start.
LEMMA StartStep ==
  ASSUME LoadInv, RunInv, Start
  PROVE  (ISA!Boot \/ ISA!NoStart) /\ RunInv'
  <1>1. phase = "load" /\ lineNo = Len(listing) /\ exit = "" /\ UNCHANGED <<listing, mem, regs, output>>
    BY DEF Start, loaded, LoadInv, PhaseInv
  <1>2. Status = "off" /\ B = [q \in 0..(WordValues - 1) |-> 0] /\ X' = X
    BY <1>1 DEF Status, B, X
  <1>3. PICK S : S = StartLines(lineNo) /\ S = ISA!LinesOf("start") /\ startAddr = (IF S = {} THEN NoAddr ELSE listing[Latest(S)].addr)
    BY <1>1, LinesAre DEF LoadInv, StartInv
  <1>4. S # {} => listing[Latest(S)].addr \in Nat
    <2> SUFFICES ASSUME S # {} PROVE listing[Latest(S)].addr \in Nat
      OBVIOUS
    <2>1. S \in SUBSET (1..lineNo) /\ lineNo \in Nat /\ DOMAIN listing = 1..lineNo
      BY <1>1, <1>3, LinesAre DEF StartLines
    <2>2. PICK k : k = Latest(S) /\ k \in S /\ k \in DOMAIN listing
      BY <2>1, LatestIn
    <2>3. listing[k].kind = "start" /\ IsLine(listing[k])
      BY <1>3, <2>2, ListingIs DEF StartLines, LoadInv
    <2>4. listing[k].addr \in Nat
      BY <2>3, LoadedStart
    <2> QED BY <2>2, <2>4
  <1>5. CASE S = {}
    <2>1. phase' = "end" /\ exit' = "no start" /\ pc' = pc
      BY <1>3, <1>5 DEF Start
    <2>2. Status' = "trapped"
      BY <2>1 DEF Status
    <2>3. B' = [q \in 0..(WordValues - 1) |-> 0]
      BY <2>1 DEF B
    <2>4. ISA!Trap
      BY <1>1, <1>2, <2>1, <2>2, <2>3 DEF ISA!Trap, X, B, Status
    <2>5. ISA!NoStart
      BY <1>1, <1>2, <1>3, <1>5, <2>4, Zenon DEF ISA!NoStart, Status
    <2> QED BY <2>1, <2>5 DEF RunInv
  <1>6. CASE S # {}
    <2>1. startAddr # NoAddr /\ startAddr \in Int /\ startAddr = listing[Latest(S)].addr
      BY <1>3, <1>4, <1>6 DEF NoAddr
    <2>2. phase' = "run" /\ exit' = "" /\ pc' = startAddr
      BY <1>1, <2>1 DEF Start
    <2>3. Status' = "running"
      BY <2>2 DEF Status
    <2>4. \A a \in 0..(WordValues - 1) : B'[a] = memory_rd_b(mem, a)
      <3>1. B' = [q \in 0..(WordValues - 1) |-> memory_rd_b(mem', q)]
        BY <2>2 DEF B, ByteAt
      <3> QED BY <1>1, <3>1
    <2>5. \A a \in ISA!Addresses :
            IF ISA!Covering(a) # {}
            THEN B'[a] = listing[ISA!Last(ISA!Covering(a))].bytes[a - listing[ISA!Last(ISA!Covering(a))].addr + 1]
            ELSE a \in ArgBase..(WordValues \div 2 - 1) \/ B'[a] = 0
      BY <1>1, <2>4, BootBytes, IsaNumbers
    <2>6. pc' = listing[ISA!Last(ISA!LinesOf("start"))].addr
      BY <1>1, <1>3, <2>1, <2>2, LinesAre
    <2>7. ISA!Boot
      BY <1>1, <1>2, <1>3, <1>6, <2>3, <2>5, <2>6 DEF ISA!Boot, X, B, Status
    <2>8. RunInv'
      <3>1. regs = [r \in 0..31 |-> 0] /\ MemoryOK(mem)
        BY <1>1 DEF LoadInv, PhaseInv
      <3>2. 0 \in Words
        BY Numbers DEF Words
      <3>3. regs' \in [0..31 -> Words] /\ MemoryOK(mem')
        BY <1>1, <3>1, <3>2
      <3> QED BY <2>1, <2>2, <3>3 DEF RunInv, MemoryOK
    <2> QED BY <2>7, <2>8
  <1> QED BY <1>5, <1>6

LEMMA RunInitially == Init => RunInv /\ ISA!Init
  <1> SUFFICES ASSUME Init PROVE RunInv /\ ISA!Init
    OBVIOUS
  <1>1. phase = "args" /\ exit = "" /\ regs = [r \in 0..31 |-> 0] /\ pc = 0 /\ output = << >>
    BY DEF Init
  <1>2. X = [r \in 0..31 |-> 0] /\ Status = "off" /\ B = [q \in 0..(WordValues - 1) |-> 0]
    BY <1>1 DEF X, Status, B
  <1>3. ISA!Init
    BY <1>1, <1>2, IsaNumbers DEF ISA!Init, X, Status, B
  <1> QED BY <1>1, <1>3 DEF RunInv

\* A step of the simulator is one of the instruction set, or is not seen in it.
LEMMA StepsAreSteps ==
  LoadInv /\ RunInv /\ [Next]_vars => RunInv' /\ (ISA!Boot \/ ISA!NoStart \/ ISA!Step \/ Same)
  <1> SUFFICES ASSUME LoadInv, RunInv, [Next]_vars PROVE RunInv' /\ (ISA!Boot \/ ISA!NoStart \/ ISA!Step \/ Same)
    OBVIOUS
  <1>1. CASE pass_args_to_program \/ ReadLine
    BY <1>1, LoadingIsUnseen
  <1>2. CASE Start
    BY <1>2, StartStep
  <1>3. CASE simulate
    <2>1. (ISA!Step \/ (Stutters /\ listing' = listing)) /\ RunInv'
      BY <1>3, SimulateStep
    <2>2. Stutters /\ listing' = listing => Same
      BY DEF Stutters, Same, ISA!Quiet, B, Status
    <2> QED BY <2>1, <2>2
  <1>4. CASE UNCHANGED vars
    <2>1. UNCHANGED <<listing, regs, pc, output, exit, phase, mem>>
      BY <1>4 DEF vars, machine
    <2>2. X' = X /\ Status' = Status
      BY <2>1 DEF X, Status
    <2>3. B' = B
      BY <2>1 DEF B, ByteAt
    <2>4. RunInv'
      BY <2>1 DEF RunInv, MemoryOK
    <2> QED BY <2>1, <2>2, <2>3, <2>4 DEF Same
  <1> QED BY <1>1, <1>2, <1>3, <1>4 DEF Next

\* The simulator implements the instruction set, but for the departures that
\* Departs lists (ImplementsISA): what is loaded from the listing is executed as
\* the instruction set says, for every width, listing and argument.
THEOREM SimulatorImplementsISA == Spec => ImplementsISA
  <1>1. Same => UNCHANGED ISA!riscvVars
    BY DEF Same, ISA!riscvVars, X, B, Status
  <1>2. LoadInv /\ RunInv /\ [Next]_vars => RunInv' /\ [ISA!Boot \/ ISA!NoStart \/ ISA!Step]_(ISA!riscvVars)
    BY <1>1, StepsAreSteps
  <1>3. Init => LoadInv /\ RunInv /\ ISA!Init
    BY LoadInitially, RunInitially
  <1> QED BY <1>2, <1>3, LoadKept, PTL DEF Spec, ImplementsISA, ISA!Spec
=============================================================================
