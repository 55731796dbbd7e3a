---------------------------- MODULE MessageProofs ----------------------------
(***************************************************************************)
(* Messages, as bytes: their framing over a stream (Transmission), and the *)
(* buffers that objects are written to and read from (ByteBuffer).         *)
(*                                                                         *)
(* Framing holds for messages of any bytes and number, sizes of any width  *)
(* and pieces of any length.  The invariant is that what has been written  *)
(* and not been read, with what the reader has of its frame and the writer *)
(* has left of its own, is a row of frames: those of the messages that are *)
(* pending (Way).  A size that is complete is then the length of the first *)
(* of them, because a size that is serialized comes back (SizeComesBack).  *)
(*                                                                         *)
(* A buffer holds its objects for any values of the five types, any mix of *)
(* pushes and pops at both ends, and a cut at any byte.  A push puts what  *)
(* an object is written down as at an end (ObjectPushed), a pop takes that *)
(* off (ObjectPopped), and the pop of a part of it fails (ObjectMissed);   *)
(* each is proved of the loops over lists first, for any type of element.  *)
(* The invariant adds to BodyHoldsItems what remains behind the objects of *)
(* a buffer that was cut: the beginning of the one that the cut went       *)
(* through (Remains).                                                      *)
(***************************************************************************)
EXTENDS Transmission, ByteBuffer, Induction, SequenceTheorems

-----------------------------------------------------------------------------
(* Numbers and their digits *)

\* The quotient and the remainder of a division by m.
LEMMA DivMod ==
    ASSUME NEW a \in Nat, NEW m \in Nat \ {0}
    PROVE  /\ a \div m \in Nat /\ a % m \in 0 .. m - 1
           /\ a = m * (a \div m) + (a % m)
OBVIOUS

\* The product of naturals.
LEMMA Products ==
    ASSUME NEW a \in Nat, NEW b \in Nat
    PROVE  /\ a * b \in Nat
           /\ a # 0 /\ b # 0 => a * b # 0
OBVIOUS

\* A smaller factor leaves room for the other one.
LEMMA LessTimes ==
    ASSUME NEW a \in Nat, NEW b \in Nat, NEW m \in Nat, a < b
    PROVE  a * m + m <= b * m
<1>1. PICK d \in Nat : b = a + 1 + d
  <2>1. b - a - 1 \in Nat /\ b = a + 1 + (b - a - 1)
    OBVIOUS
  <2>2. QED BY <2>1
<1>2. b * m = a * m + m + d * m
  BY <1>1
<1>3. d * m \in Nat /\ a * m \in Nat /\ b * m \in Nat
  BY Products
<1>4. QED BY <1>2, <1>3

\* There is one quotient and one remainder.
LEMMA DivModUnique ==
    ASSUME NEW a \in Nat, NEW m \in Nat \ {0}, NEW q \in Nat, NEW r \in 0 .. m - 1,
           a = m * q + r
    PROVE  a \div m = q /\ a % m = r
<1>1. PICK q2 \in Nat, r2 \in 0 .. m - 1 : q2 = a \div m /\ r2 = a % m /\ a = m * q2 + r2
  BY DivMod
<1>2. PICK x, y : x = q * m /\ y = q2 * m
  OBVIOUS
<1>3. a = x + r /\ a = y + r2 /\ x \in Nat /\ y \in Nat
  BY <1>1, <1>2, Products
<1>4. CASE q < q2
  <2>1. x + m <= y
    BY <1>2, <1>4, LessTimes
  <2>2. QED BY <1>3, <2>1
<1>5. CASE q2 < q
  <2>1. y + m <= x
    BY <1>2, <1>5, LessTimes
  <2>2. QED BY <1>3, <2>1
<1>6. CASE q = q2
  BY <1>1, <1>2, <1>3, <1>6
<1>7. QED BY <1>1, <1>4, <1>5, <1>6

\* One more digit d of n to the base b.
LEMMA OneMoreDigit ==
    ASSUME NEW n \in Nat, NEW p \in Nat \ {0}, NEW b \in Nat \ {0}
    PROVE  n % (b * p) = (n % p) + ((n \div p) % b) * p
<1>1. PICK q \in Nat, r \in 0 .. p - 1 : q = n \div p /\ r = n % p /\ n = p * q + r
  BY DivMod
<1>2. PICK c \in Nat, s \in 0 .. b - 1 : c = q \div b /\ s = q % b /\ q = b * c + s
  BY DivMod
<1>3. PICK sp : sp = s * p
  OBVIOUS
<1>4. sp \in Nat /\ sp + p <= b * p /\ b * p \in Nat \ {0}
  BY <1>3, Products, LessTimes
<1>5. n = (b * p) * c + (sp + r)
  <2>1. p * (b * c + s) = (b * p) * c + s * p
    OBVIOUS
  <2>2. n = (b * p) * c + s * p + r
    BY <1>1, <1>2, <2>1
  <2>3. QED BY <1>3, <1>4, <2>2
<1>6. sp + r \in 0 .. (b * p) - 1
  BY <1>4
<1>7. n % (b * p) = sp + r
  BY <1>4, <1>5, <1>6, DivModUnique
<1>8. QED BY <1>1, <1>2, <1>3, <1>4, <1>7

\* The powers of Base, step by step.
LEMMA PowerStep ==
    /\ Power \in [Nat -> Nat \ {0}]
    /\ Power[0] = 1
    /\ \A k \in Nat : Power[k + 1] = Base * Power[k]
<1>1. PICK step : step = [x \in (Nat \ {0}) \X Nat |-> Base * x[1]]
  OBVIOUS
<1>2. step \in [(Nat \ {0}) \X Nat -> Nat \ {0}]
  <2>1. SUFFICES ASSUME NEW x \in (Nat \ {0}) \X Nat PROVE Base * x[1] \in Nat \ {0}
    BY <1>1
  <2>2. PICK y \in Nat \ {0} : y = x[1]
    OBVIOUS
  <2>3. Base * y \in Nat \ {0}
    BY WidthAssumption, Products
  <2>4. QED BY <2>2, <2>3
<1>3. 1 \in Nat \ {0}
  OBVIOUS
<1>4. PICK f : DefinedBy(f, Nat \ {0}, 1, step)
  BY <1>2, <1>3, Recursion, Zenon
<1>5. f \in [Nat -> Nat \ {0}] /\ f[0] = 1 /\ \A k \in Nat : f[k + 1] = Base * f[k]
  <2>1. f \in [Nat -> Nat \ {0}] /\ f[0] = 1 /\ \A k \in Nat : f[k + 1] = step[<<f[k], k + 1>>]
    BY <1>4 DEF DefinedBy
  <2>2. ASSUME NEW k \in Nat PROVE f[k + 1] = Base * f[k]
    <3>1. PICK x \in (Nat \ {0}) \X Nat : x = <<f[k], k + 1>>
      <4>1. f[k] \in Nat \ {0} /\ k + 1 \in Nat
        BY <2>1
      <4>2. <<f[k], k + 1>> \in (Nat \ {0}) \X Nat
        BY <4>1
      <4>3. QED BY <4>2
    <3>2. step[x] = Base * x[1]
      BY <1>1
    <3>3. f[k + 1] = step[x]
      BY <2>1, <3>1
    <3>4. QED BY <3>1, <3>2, <3>3
  <2>3. QED BY <2>1, <2>2
<1>6. \A k \in Nat : f[k] = IF k = 0 THEN 1 ELSE Base * f[k - 1]
  <2> TAKE k \in Nat
  <2>1. CASE k = 0
    BY <1>5, <2>1
  <2>2. CASE k # 0
    <3>1. k - 1 \in Nat /\ (k - 1) + 1 = k
      BY <2>2
    <3>2. f[k] = Base * f[k - 1]
      BY <1>5, <3>1
    <3>3. QED BY <2>2, <3>2
  <2>3. QED BY <2>1, <2>2
<1>7. f = [k \in Nat |-> IF k = 0 THEN 1 ELSE Base * f[k - 1]]
  BY <1>5, <1>6
<1>8. Power = [k \in Nat |-> IF k = 0 THEN 1 ELSE Base * Power[k - 1]]
  <2>1. \E g : g = [k \in Nat |-> IF k = 0 THEN 1 ELSE Base * g[k - 1]]
    BY <1>7, Zenon
  <2>2. QED BY <2>1, Zenon DEF Power
<1>9. Power[0] = 1
  BY <1>8
<1>10. \A k \in Nat : Power[k + 1] = Base * Power[k]
  <2> TAKE k \in Nat
  <2>1. k + 1 \in Nat /\ k + 1 # 0 /\ (k + 1) - 1 = k
    OBVIOUS
  <2>2. QED BY <1>8, <2>1
<1>11. \A k \in Nat : Power[k] = f[k]
  <2>1. PICK S : S = {k \in Nat : Power[k] = f[k]}
    OBVIOUS
  <2>2. 0 \in S
    BY <1>5, <1>9, <2>1
  <2>3. ASSUME NEW k \in Nat, k \in S PROVE k + 1 \in S
    BY <1>5, <1>10, <2>1, <2>3
  <2>4. Nat \subseteq S
    BY <2>2, <2>3, SetInduction
  <2>5. QED BY <2>1, <2>4
<1>12. Power \in [Nat -> Nat \ {0}]
  <2>1. Power = [k \in Nat |-> Power[k]]
    BY <1>8
  <2>2. \A k \in Nat : Power[k] \in Nat \ {0}
    BY <1>5, <1>11
  <2>3. QED BY <2>1, <2>2
<1>13. QED BY <1>9, <1>10, <1>12

\* How to recognise what deserialize gives: the value of the first k bytes.
LEMMA DeserializeIs ==
    ASSUME NEW bytes \in Seq(Byte), NEW f,
           f[0] = 0, \A k \in 1 .. Len(bytes) : f[k] = f[k - 1] + bytes[k] * Power[k - 1]
    PROVE  deserialize(bytes) = f[Len(bytes)]
<1>1. PICK n \in Nat : n = Len(bytes)
  OBVIOUS
<1>2. PICK value : value = CHOOSE g : g = [k \in 0 .. Len(bytes) |->
               IF k = 0 THEN 0 ELSE g[k - 1] + bytes[k] * Power[k - 1]]
  OBVIOUS
<1>3. deserialize(bytes) = value[n]
  BY <1>1, <1>2, Zenon DEF deserialize
<1>4. PICK fl : fl = [k \in 0 .. n |-> f[k]]
  OBVIOUS
<1>5. \A k \in 0 .. n : fl[k] = IF k = 0 THEN 0 ELSE fl[k - 1] + bytes[k] * Power[k - 1]
  <2> TAKE k \in 0 .. n
  <2>1. CASE k = 0
    BY <1>4, <2>1
  <2>2. CASE k # 0
    <3>1. k \in 1 .. n /\ k - 1 \in 0 .. n
      BY <2>2
    <3>2. f[k] = f[k - 1] + bytes[k] * Power[k - 1]
      BY <1>1, <3>1
    <3>3. fl[k] = f[k] /\ fl[k - 1] = f[k - 1]
      BY <1>4, <3>1
    <3>4. QED BY <2>2, <3>2, <3>3
  <2>3. QED BY <2>1, <2>2
<1>6. fl = [k \in 0 .. Len(bytes) |-> IF k = 0 THEN 0 ELSE fl[k - 1] + bytes[k] * Power[k - 1]]
  BY <1>1, <1>4, <1>5
<1>7. \E g : g = [k \in 0 .. Len(bytes) |->
                    IF k = 0 THEN 0 ELSE g[k - 1] + bytes[k] * Power[k - 1]]
  BY <1>6, Zenon
<1>8. value = [k \in 0 .. Len(bytes) |->
                 IF k = 0 THEN 0 ELSE value[k - 1] + bytes[k] * Power[k - 1]]
  BY <1>2, <1>7, Zenon
<1>9. \A k \in 0 .. n : value[k] = IF k = 0 THEN 0 ELSE value[k - 1] + bytes[k] * Power[k - 1]
  BY <1>1, <1>8
<1>10. PICK S : S = {k \in Nat : k \in 0 .. n => value[k] = fl[k]}
  OBVIOUS
<1>11. 0 \in S
  <2>1. 0 \in 0 .. n
    OBVIOUS
  <2>2. value[0] = 0 /\ fl[0] = 0
    BY <1>5, <1>9, <2>1
  <2>3. QED BY <1>10, <2>2
<1>12. ASSUME NEW k \in Nat, k \in S PROVE k + 1 \in S
  <2>1. SUFFICES ASSUME k + 1 \in 0 .. n PROVE value[k + 1] = fl[k + 1]
    BY <1>10
  <2>2. k \in 0 .. n /\ k + 1 # 0 /\ (k + 1) - 1 = k
    BY <2>1
  <2>3. value[k] = fl[k]
    BY <1>10, <1>12, <2>2
  <2>4. value[k + 1] = value[k] + bytes[k + 1] * Power[k]
    BY <1>9, <2>1, <2>2
  <2>5. fl[k + 1] = fl[k] + bytes[k + 1] * Power[k]
    BY <1>5, <2>1, <2>2
  <2>6. QED BY <2>3, <2>4, <2>5
<1>13. value[n] = fl[n]
  <2>1. n \in S
    BY <1>11, <1>12, SetInduction
  <2>2. QED BY <1>10, <2>1
<1>14. fl[n] = f[n]
  BY <1>4
<1>15. QED BY <1>1, <1>3, <1>13, <1>14

\* A size is a natural number.
LEMMA DeserializeType ==
    ASSUME NEW bytes \in Seq(Byte)
    PROVE  deserialize(bytes) \in Nat
<1>1. PICK step : step = [x \in Nat \X Nat |->
         IF x[2] \in 1 .. Len(bytes) THEN x[1] + bytes[x[2]] * Power[x[2] - 1] ELSE x[1]]
  OBVIOUS
<1>2. step \in [Nat \X Nat -> Nat]
  <2>1. SUFFICES ASSUME NEW v \in Nat, NEW k \in Nat, k \in 1 .. Len(bytes)
                 PROVE  v + bytes[k] * Power[k - 1] \in Nat
    BY <1>1
  <2>2. PICK b \in Nat, p \in Nat : b = bytes[k] /\ p = Power[k - 1]
    <3>1. bytes[k] \in Byte
      BY <2>1
    <3>2. bytes[k] \in Nat
      BY <3>1, WidthAssumption DEF Byte
    <3>3. k - 1 \in Nat
      BY <2>1
    <3>4. Power[k - 1] \in Nat
      BY <3>3, PowerStep
    <3>5. QED BY <3>2, <3>4
  <2>3. b * p \in Nat
    BY Products
  <2>4. QED BY <2>2, <2>3
<1>3. 0 \in Nat
  OBVIOUS
<1>4. PICK f : DefinedBy(f, Nat, 0, step)
  BY <1>2, <1>3, Recursion, Zenon
<1>5. f \in [Nat -> Nat] /\ f[0] = 0 /\ \A k \in Nat : f[k + 1] = step[<<f[k], k + 1>>]
  BY <1>4 DEF DefinedBy
<1>6. \A k \in 1 .. Len(bytes) : f[k] = f[k - 1] + bytes[k] * Power[k - 1]
  <2> TAKE k \in 1 .. Len(bytes)
  <2>1. k - 1 \in Nat /\ (k - 1) + 1 = k /\ k \in Nat
    OBVIOUS
  <2>2. f[k] = step[<<f[k - 1], k>>] /\ f[k - 1] \in Nat
    BY <1>5, <2>1
  <2>3. PICK x \in Nat \X Nat : x = <<f[k - 1], k>>
    BY <2>1, <2>2
  <2>4. step[x] = x[1] + bytes[x[2]] * Power[x[2] - 1]
    BY <1>1, <2>3
  <2>5. QED BY <2>2, <2>3, <2>4
<1>7. deserialize(bytes) = f[Len(bytes)]
  BY <1>5, <1>6, DeserializeIs
<1>8. Len(bytes) \in Nat
  OBVIOUS
<1>9. QED BY <1>5, <1>7, <1>8

\* serialize() of a size gives SizeLen bytes, and deserialize() gives the size
\* back if it is less than what SizeLen bytes can count: the conversion on both
\* sides of socket_send and socket_receive loses nothing.
THEOREM SizeComesBack ==
    ASSUME NEW n \in Nat, NEW len \in Nat
    PROVE  /\ serialize(n, len) \in Seq(Byte) /\ Len(serialize(n, len)) = len
           /\ n < Power[len] => deserialize(serialize(n, len)) = n
<1>1. PICK bytes : bytes = serialize(n, len)
  OBVIOUS
<1>2. \A k \in Nat : Power[k] \in Nat \ {0} /\ n \div Power[k] \in Nat
                     /\ (n \div Power[k]) % Base \in Byte
  <2> TAKE k \in Nat
  <2>1. PICK p \in Nat \ {0} : p = Power[k]
    BY PowerStep
  <2>2. n \div p \in Nat
    BY DivMod
  <2>3. PICK q \in Nat : q = n \div p
    BY <2>2
  <2>4. q % Base \in 0 .. Base - 1
    BY WidthAssumption, DivMod
  <2>5. QED BY <2>1, <2>2, <2>3, <2>4 DEF Byte
<1>3. /\ bytes \in Seq(Byte) /\ Len(bytes) = len
      /\ \A i \in 1 .. len : bytes[i] = (n \div Power[i - 1]) % Base
  <2>1. \A i \in 1 .. len : (n \div Power[i - 1]) % Base \in Byte
    <3> TAKE i \in 1 .. len
    <3>1. i - 1 \in Nat
      BY WidthAssumption
    <3>2. QED BY <1>2, <3>1
  <2>2. len \in Nat
    BY WidthAssumption
  <2>3. bytes = [i \in 1 .. len |-> (n \div Power[i - 1]) % Base]
    BY <1>1 DEF serialize
  <2>4. QED BY <2>1, <2>2, <2>3
<1>4. ASSUME n < Power[len] PROVE deserialize(bytes) = n
  <2>1. PICK f : f = [k \in Nat |-> n % Power[k]]
    OBVIOUS
  <2>2. f[0] = 0
    <3>1. Power[0] = 1
      BY PowerStep
    <3>2. n % 1 = 0
      OBVIOUS
    <3>3. QED BY <2>1, <3>1, <3>2
  <2>3. \A k \in 1 .. Len(bytes) : f[k] = f[k - 1] + bytes[k] * Power[k - 1]
    <3> TAKE k \in 1 .. Len(bytes)
    <3>1. PICK j \in Nat : j = k - 1 /\ k = j + 1
      <4>1. k - 1 \in Nat /\ k = (k - 1) + 1
        BY <1>3, WidthAssumption
      <4>2. QED BY <4>1
    <3>2. PICK p \in Nat \ {0} : p = Power[j]
      BY PowerStep
    <3>3. Power[k] = Base * p
      BY <3>1, <3>2, PowerStep
    <3>4. n % (Base * p) = (n % p) + ((n \div p) % Base) * p
      BY WidthAssumption, OneMoreDigit
    <3>5. f[k] = n % (Base * p) /\ f[k - 1] = n % p
      BY <2>1, <3>1, <3>2, <3>3
    <3>6. bytes[k] = (n \div p) % Base
      BY <1>3, <3>1, <3>2
    <3>7. QED BY <3>1, <3>2, <3>4, <3>5, <3>6
  <2>4. deserialize(bytes) = f[len]
    BY <1>3, <2>2, <2>3, DeserializeIs
  <2>5. n % Power[len] = n
    <3>1. PICK p \in Nat \ {0} : p = Power[len]
      BY PowerStep, WidthAssumption
    <3>2. n % p = n
      BY <1>4, <3>1
    <3>3. QED BY <3>1, <3>2
  <2>6. QED BY <2>1, <2>4, <2>5, WidthAssumption
<1>5. QED BY <1>1, <1>3, <1>4

-----------------------------------------------------------------------------
(* Sequences of bytes *)

\* What is common to the front of two equal sequences.
LEMMA SameFront ==
    ASSUME NEW B, NEW a \in Seq(B), NEW b \in Seq(B), NEW c \in Seq(B), NEW d \in Seq(B),
           a \o b = c \o d, Len(a) = Len(c)
    PROVE  a = c /\ b = d
<1>1. PICK s \in Seq(B) : s = a \o b
  <2>1. a \o b \in Seq(B)
    OBVIOUS
  <2>2. QED BY <2>1
<1>2. a = SubSeq(s, 1, Len(a)) /\ b = SubSeq(s, Len(a) + 1, Len(s))
  BY <1>1
<1>3. c = SubSeq(s, 1, Len(c)) /\ d = SubSeq(s, Len(c) + 1, Len(s))
  BY <1>1
<1>4. QED BY <1>2, <1>3

\* What is equal before the same back is equal.
LEMMA SameBack ==
    ASSUME NEW B, NEW a \in Seq(B), NEW b \in Seq(B), NEW c \in Seq(B), a \o b = c \o b
    PROVE  a = c
<1>1. Len(a) + Len(b) = Len(c) + Len(b)
  <2>1. Len(a \o b) = Len(a) + Len(b) /\ Len(c \o b) = Len(c) + Len(b)
    OBVIOUS
  <2>2. QED BY <2>1
<1>2. Len(a) = Len(c)
  BY <1>1
<1>3. QED BY <1>2, SameFront

\* Concatenation is associative.
LEMMA Assoc ==
    ASSUME NEW B, NEW a \in Seq(B), NEW b \in Seq(B), NEW c \in Seq(B)
    PROVE  (a \o b) \o c = a \o (b \o c) /\ a \o b \in Seq(B)
OBVIOUS

\* The length and the elements of a concatenation.
LEMMA ConcatIs ==
    ASSUME NEW B, NEW a \in Seq(B), NEW b \in Seq(B)
    PROVE  /\ a \o b \in Seq(B) /\ Len(a \o b) = Len(a) + Len(b)
           /\ \A i \in 1 .. Len(a) : (a \o b)[i] = a[i]
           /\ \A i \in Len(a) + 1 .. Len(a) + Len(b) : (a \o b)[i] = b[i - Len(a)]
OBVIOUS

\* Both for bytes.
LEMMA BytesAssoc ==
    \A a, b, c \in Seq(Byte) : (a \o b) \o c = a \o (b \o c) /\ a \o b \in Seq(Byte)
BY Assoc

\* The length of bytes in a row.
LEMMA BytesConcat ==
    \A a, b \in Seq(Byte) :
       a \o b \in Seq(Byte) /\ Len(a \o b) = Len(a) + Len(b) /\ Len(a) \in Nat /\ Len(b) \in Nat
OBVIOUS

\* A sequence is its first n elements and the others.
LEMMA TwoParts ==
    ASSUME NEW B, NEW s \in Seq(B), NEW n \in 0 .. Len(s)
    PROVE  /\ s = SubSeq(s, 1, n) \o SubSeq(s, n + 1, Len(s))
           /\ SubSeq(s, 1, n) \in Seq(B) /\ Len(SubSeq(s, 1, n)) = n
           /\ SubSeq(s, n + 1, Len(s)) \in Seq(B)
           /\ Len(SubSeq(s, n + 1, Len(s))) = Len(s) - n
<1>1. PICK l \in Nat : l = Len(s)
  OBVIOUS
<1>2. PICK a : a = SubSeq(s, 1, n)
  OBVIOUS
<1>3. PICK b : b = SubSeq(s, n + 1, l)
  OBVIOUS
<1>4. a \in Seq(B) /\ Len(a) = n /\ \A i \in 1 .. n : a[i] = s[i]
  BY <1>1, <1>2
<1>5. b \in Seq(B) /\ Len(b) = l - n /\ \A i \in 1 .. l - n : b[i] = s[n + i]
  BY <1>1, <1>3
<1>6. a \o b \in Seq(B) /\ Len(a \o b) = l
  <2>1. a \in Seq(B) /\ b \in Seq(B)
    BY <1>4, <1>5
  <2>2. a \o b \in Seq(B) /\ Len(a \o b) = Len(a) + Len(b)
    BY ONLY <2>1, ConcatIs
  <2>3. QED BY <1>1, <1>4, <1>5, <2>2
<1>7. ASSUME NEW i \in 1 .. l PROVE (a \o b)[i] = s[i]
  <2>1. CASE i <= n
    BY <1>4, <1>5, <2>1
  <2>2. CASE i > n
    <3>1. (a \o b)[i] = b[i - n] /\ i - n \in 1 .. l - n
      BY <1>4, <1>5, <2>2
    <3>2. b[i - n] = s[n + (i - n)] /\ n + (i - n) = i
      BY <1>5, <3>1
    <3>3. QED BY <3>1, <3>2
  <2>3. i <= n \/ i > n
    BY <1>1
  <2>4. QED BY <2>1, <2>2, <2>3, Zenon
<1>8. a \o b = s
  BY <1>1, <1>6, <1>7, SeqEqual
<1>9. QED BY <1>1, <1>2, <1>3, <1>4, <1>5, <1>8

-----------------------------------------------------------------------------
(* Frames in a row *)

\* The frame of a message holds its length, and the message.
LEMMA FrameIs ==
    ASSUME NEW m \in Messages
    PROVE  /\ m \in Seq(Byte) /\ Len(m) \in Nat /\ Wrap(Len(m)) = Len(m)
           /\ Frame(m) = serialize(Len(m), SizeLen) \o m
           /\ Frame(m) \in Seq(Byte)
           /\ serialize(Len(m), SizeLen) \in Seq(Byte) /\ Len(serialize(Len(m), SizeLen)) = SizeLen
           /\ deserialize(serialize(Len(m), SizeLen)) = Len(m)
<1>1. m \in Seq(Byte) /\ Len(m) < Power[SizeLen] /\ Len(m) \in Nat
  BY MessagesAssumption
<1>2. Wrap(Len(m)) = Len(m)
  <2>1. PICK p \in Nat \ {0} : p = Power[SizeLen]
    BY PowerStep, BoundsAssumption, WidthAssumption
  <2>2. Len(m) % p = Len(m)
    BY <1>1, <2>1
  <2>3. QED BY <2>1, <2>2 DEF Wrap
<1>3. /\ serialize(Len(m), SizeLen) \in Seq(Byte) /\ Len(serialize(Len(m), SizeLen)) = SizeLen
      /\ deserialize(serialize(Len(m), SizeLen)) = Len(m)
  BY <1>1, SizeComesBack, WidthAssumption
<1>4. Frame(m) = serialize(Len(m), SizeLen) \o m
  BY <1>2, Zenon DEF Frame
<1>5. Frame(m) \in Seq(Byte)
  BY <1>1, <1>3, <1>4
<1>6. QED BY <1>1, <1>2, <1>3, <1>4, <1>5

\* The frames that Frames puts in a row are sequences of bytes.
LEMMA FrameLists ==
    ASSUME NEW ms \in Seq(Messages)
    PROVE  [i \in DOMAIN ms |-> Frame(ms[i])] \in Seq(Seq(Byte))
<1>1. \A i \in DOMAIN ms : Frame(ms[i]) \in Seq(Byte)
  <2> TAKE i \in DOMAIN ms
  <2>1. ms[i] \in Messages
    OBVIOUS
  <2>2. QED BY <2>1, FrameIs
<1>2. PICK n \in Nat : n = Len(ms) /\ DOMAIN ms = 1 .. n
  OBVIOUS
<1>3. QED BY <1>1, <1>2

\* The frames of messages in a row.
LEMMA FramesConcat ==
    ASSUME NEW ms \in Seq(Messages), NEW ns \in Seq(Messages)
    PROVE  /\ Frames(ms) \in Seq(Byte)
           /\ Frames(ms \o ns) = Frames(ms) \o Frames(ns)
<1>1. PICK a, b, c : /\ a = [i \in DOMAIN ms |-> Frame(ms[i])]
                     /\ b = [i \in DOMAIN ns |-> Frame(ns[i])]
                     /\ c = [i \in DOMAIN (ms \o ns) |-> Frame((ms \o ns)[i])]
  OBVIOUS
<1>2. a \in Seq(Seq(Byte)) /\ b \in Seq(Seq(Byte)) /\ c \in Seq(Seq(Byte))
  <2>1. ms \o ns \in Seq(Messages)
    OBVIOUS
  <2>2. QED BY <1>1, <2>1, FrameLists
<1>3. c = a \o b
  <2>1. PICK k \in Nat, l \in Nat : k = Len(ms) /\ l = Len(ns)
    OBVIOUS
  <2>2. Len(a) = k /\ Len(b) = l /\ Len(c) = k + l
    <3>1. DOMAIN ms = 1 .. k /\ DOMAIN ns = 1 .. l /\ DOMAIN (ms \o ns) = 1 .. k + l
      BY <2>1
    <3>2. DOMAIN a = 1 .. k /\ DOMAIN b = 1 .. l /\ DOMAIN c = 1 .. k + l
      BY <1>1, <3>1
    <3>3. QED BY <1>2, <3>2, LenProperties
  <2>3. ASSUME NEW i \in 1 .. k + l PROVE c[i] = (a \o b)[i]
    <3>1. CASE i <= k
      <4>1. (ms \o ns)[i] = ms[i] /\ i \in DOMAIN ms /\ i \in DOMAIN (ms \o ns)
        BY <2>1, <3>1
      <4>2. c[i] = a[i]
        BY <1>1, <4>1
      <4>3. i \in 1 .. Len(a)
        BY <2>1, <2>2, <3>1
      <4>4. (a \o b)[i] = a[i]
        BY <1>2, <4>3, ConcatIs
      <4>5. QED BY <4>2, <4>4
    <3>2. CASE i > k
      <4>1. (ms \o ns)[i] = ns[i - k] /\ i - k \in DOMAIN ns /\ i \in DOMAIN (ms \o ns)
        BY <2>1, <3>2
      <4>2. c[i] = b[i - k]
        BY <1>1, <4>1
      <4>3. Len(a) = k /\ i \in Len(a) + 1 .. Len(a) + Len(b)
        BY <2>1, <2>2, <3>2
      <4>4. (a \o b)[i] = b[i - k]
        BY <1>2, <4>3, ConcatIs
      <4>5. QED BY <4>2, <4>4
    <3>3. i <= k \/ i > k
      BY <2>1
    <3>4. QED BY <3>1, <3>2, <3>3, Zenon
  <2>4. a \o b \in Seq(Seq(Byte)) /\ Len(a \o b) = k + l
    BY <1>2, <2>2, ConcatIs
  <2>5. QED BY <1>2, <2>2, <2>3, <2>4, SeqEqual
<1>4. FlattenSeq(a \o b) = FlattenSeq(a) \o FlattenSeq(b)
  BY <1>2, FlattenConcat
<1>5. FlattenSeq(a) \in Seq(Byte)
  <2>1. << >> \in Seq(Byte)
    OBVIOUS
  <2>2. QED BY <1>2, <2>1, FlattenProperties
<1>6. Frames(ms) = FlattenSeq(a) /\ Frames(ns) = FlattenSeq(b) /\ Frames(ms \o ns) = FlattenSeq(c)
  BY <1>1, Zenon DEF Frames
<1>7. QED BY <1>3, <1>4, <1>5, <1>6

\* The frames of no message and of one.
LEMMA FramesFew ==
    /\ Frames(<< >>) = << >>
    /\ \A m \in Messages : Frames(<<m>>) = Frame(m)
<1>1. Frames(<< >>) = << >>
  <2>1. [i \in DOMAIN << >> |-> Frame(<< >>[i])] = << >>
    OBVIOUS
  <2>2. QED BY <2>1, FlattenEmpty DEF Frames
<1>2. ASSUME NEW m \in Messages PROVE Frames(<<m>>) = Frame(m)
  <2>1. PICK f \in Seq(Byte) : f = Frame(m)
    BY FrameIs
  <2>2. PICK a : a = [i \in DOMAIN <<m>> |-> Frame(<<m>>[i])]
    OBVIOUS
  <2>3. a = <<f>>
    BY <2>1, <2>2
  <2>4. <<f>> = Append(<< >>, f) /\ << >> \in Seq(Seq(Byte))
    OBVIOUS
  <2>5. FlattenSeq(<<f>>) = FlattenSeq(<< >>) \o f
    BY <2>1, <2>4, FlattenProperties
  <2>6. FlattenSeq(<<f>>) = f
    BY <2>1, <2>5, FlattenEmpty
  <2>7. Frames(<<m>>) = FlattenSeq(a)
    BY <2>2, Zenon DEF Frames
  <2>8. QED BY <2>1, <2>3, <2>6, <2>7
<1>3. QED BY <1>1, <1>2

-----------------------------------------------------------------------------
(* What is on its way *)

\* Between the messages begun (b) and the messages received (r) there are the
\* pending ones: their frames are what the receive i has read (rd), what is in
\* the stream (st), and what has yet to be written (un), which is lost once a
\* send was cut (c).
Way(b, r, rd, st, un, c, i) ==
    \E pending \in Seq(Messages), rest \in Seq(Byte) :
       /\ b = r \o pending
       /\ Frames(pending) = rd \o (st \o rest)
       /\ "out" \notin c => rest = un
       /\ i # Idle /\ i.phase = "data" => pending # << >> /\ i.size = Len(pending[1])

\* What the lemmas below are about.
Parts(b, r, rd, st, un) ==
    /\ b \in Seq(Messages) /\ r \in Seq(Seq(Byte))
    /\ rd \in Seq(Byte) /\ st \in Seq(Byte) /\ un \in Seq(Byte)

\* A message that is begun is pending.
LEMMA WayBegin ==
    ASSUME NEW b, NEW r, NEW rd, NEW st, NEW c, NEW i, NEW m \in Messages,
           Parts(b, r, rd, st, << >>), Way(b, r, rd, st, << >>, c, i), "out" \notin c
    PROVE  Way(Append(b, m), r, rd, st, Frame(m), c, i)
<1>1. PICK pending \in Seq(Messages), rest \in Seq(Byte) :
         /\ b = r \o pending
         /\ Frames(pending) = rd \o (st \o rest)
         /\ rest = << >>
         /\ i # Idle /\ i.phase = "data" => pending # << >> /\ i.size = Len(pending[1])
  BY DEF Way
<1>2. PICK p : p = pending \o <<m>>
  OBVIOUS
<1>3. PICK f \in Seq(Byte) : f = Frame(m)
  BY FrameIs
<1>4. p \in Seq(Messages) /\ (pending # << >> => p # << >> /\ p[1] = pending[1])
  BY <1>2
<1>5. Append(b, m) = r \o p
  <2>1. r \in Seq(Seq(Byte) \cup Messages) /\ pending \in Seq(Seq(Byte) \cup Messages)
        /\ <<m>> \in Seq(Seq(Byte) \cup Messages)
    BY DEF Parts
  <2>2. (r \o pending) \o <<m>> = r \o (pending \o <<m>>)
    BY <2>1, Assoc
  <2>3. Append(b, m) = b \o <<m>>
    BY DEF Parts
  <2>4. QED BY <1>1, <1>2, <2>2, <2>3
<1>6. Frames(p) = rd \o (st \o f)
  <2>1. <<m>> \in Seq(Messages)
    OBVIOUS
  <2>2. Frames(p) = Frames(pending) \o Frames(<<m>>)
    BY <1>2, <2>1, FramesConcat
  <2>3. Frames(<<m>>) = f
    BY <1>3, FramesFew
  <2>4. Frames(pending) = rd \o st
    BY <1>1 DEF Parts
  <2>5. (rd \o st) \o f = rd \o (st \o f)
    <3>1. rd \in Seq(Byte) /\ st \in Seq(Byte)
      BY DEF Parts
    <3>2. QED BY ONLY <3>1, f \in Seq(Byte), BytesAssoc
  <2>6. QED BY <2>2, <2>3, <2>4, <2>5
<1>7. \E pn \in Seq(Messages), rs \in Seq(Byte) :
         /\ Append(b, m) = r \o pn
         /\ Frames(pn) = rd \o (st \o rs)
         /\ "out" \notin c => rs = f
         /\ i # Idle /\ i.phase = "data" => pn # << >> /\ i.size = Len(pn[1])
  <2>1. i # Idle /\ i.phase = "data" => p # << >> /\ i.size = Len(p[1])
    BY <1>1, <1>4
  <2>2. QED BY <1>3, <1>4, <1>5, <1>6, <2>1, Zenon
<1>8. QED BY <1>3, <1>7, Zenon DEF Way

\* What is written goes from the sender to the stream.
LEMMA WayWrite ==
    ASSUME NEW b, NEW r, NEW rd, NEW st, NEW w \in Seq(Byte), NEW un, NEW c, NEW i,
           Parts(b, r, rd, st, un), Way(b, r, rd, st, w \o un, c, i), "out" \notin c
    PROVE  Way(b, r, rd, st \o w, un, c, i)
<1>1. PICK pending \in Seq(Messages), rest \in Seq(Byte) :
         /\ b = r \o pending
         /\ Frames(pending) = rd \o (st \o rest)
         /\ rest = w \o un
         /\ i # Idle /\ i.phase = "data" => pending # << >> /\ i.size = Len(pending[1])
  BY DEF Way
<1>2. st \o rest = (st \o w) \o un
  <2>1. st \in Seq(Byte) /\ un \in Seq(Byte)
    BY DEF Parts
  <2>2. st \o (w \o un) = (st \o w) \o un
    BY ONLY <2>1, w \in Seq(Byte), BytesAssoc
  <2>3. QED BY <1>1, <2>2
<1>3. Frames(pending) = rd \o ((st \o w) \o un) /\ un \in Seq(Byte)
  BY <1>1, <1>2 DEF Parts
<1>4. \E pn \in Seq(Messages), rs \in Seq(Byte) :
         /\ b = r \o pn
         /\ Frames(pn) = rd \o ((st \o w) \o rs)
         /\ "out" \notin c => rs = un
         /\ i # Idle /\ i.phase = "data" => pn # << >> /\ i.size = Len(pn[1])
  BY <1>1, <1>3, Zenon
<1>5. QED BY <1>4, Zenon DEF Way

\* A send that fails before its first byte might not have been begun.
LEMMA WayUnbegin ==
    ASSUME NEW b, NEW r, NEW rd, NEW st, NEW c, NEW i,
           Parts(b, r, rd, st, Frame(Last(b))), Way(b, r, rd, st, Frame(Last(b)), c, i),
           "out" \notin c, Len(r) < Len(b),
           i # Idle /\ i.phase = "data" => rd # << >>
    PROVE  Way(Front(b), r, rd, st, << >>, c, i)
<1>1. PICK pending \in Seq(Messages), rest \in Seq(Byte) :
         /\ b = r \o pending
         /\ Frames(pending) = rd \o (st \o rest)
         /\ rest = Frame(Last(b))
         /\ i # Idle /\ i.phase = "data" => pending # << >> /\ i.size = Len(pending[1])
  BY DEF Way
<1>2. PICK A : A = Seq(Byte) \cup Messages
  OBVIOUS
<1>3. r \in Seq(A) /\ pending \in Seq(A) /\ b \in Seq(A)
  BY <1>2 DEF Parts
<1>4. Len(b) = Len(r) + Len(pending) /\ Len(pending) # 0
  <2>1. Len(b) = Len(r) + Len(pending)
    BY <1>1, <1>3, ConcatIs
  <2>2. QED BY <1>3, <2>1
<1>5. PICK k \in Nat : k = Len(pending) - 1 /\ Len(pending) = k + 1
  <2>1. Len(pending) \in Nat
    OBVIOUS
  <2>2. Len(pending) - 1 \in Nat /\ Len(pending) = (Len(pending) - 1) + 1
    BY <1>4, <2>1
  <2>3. QED BY <2>2
<1>6. PICK p, m : p = SubSeq(pending, 1, k) /\ m = pending[k + 1]
  OBVIOUS
<1>7. p \in Seq(Messages) /\ Len(p) = k /\ m \in Messages /\ pending = p \o <<m>>
      /\ \A j \in 1 .. k : p[j] = pending[j]
  BY <1>5, <1>6
<1>8. p \in Seq(A) /\ <<m>> \in Seq(A)
  BY <1>2, <1>7
<1>9. b = (r \o p) \o <<m>> /\ r \o p \in Seq(A)
  BY <1>1, <1>3, <1>7, <1>8, Assoc
<1>10. Last(b) = m /\ Front(b) = r \o p
  <2>1. PICK s \in Seq(A) : s = r \o p
    BY <1>9
  <2>2. PICK l \in Nat : l = Len(s)
    BY <2>1
  <2>3. Len(b) = l + 1 /\ b[l + 1] = m /\ b = Append(s, m)
    BY <1>9, <2>1, <2>2, <1>8
  <2>4. SubSeq(b, 1, l) = s
    BY <1>8, <2>1, <2>2, <2>3, <1>3
  <2>5. QED BY <2>1, <2>2, <2>3, <2>4 DEF Last, Front
<1>11. PICK f \in Seq(Byte) : f = Frame(m) /\ rest = f
  BY <1>1, <1>10
<1>12. Frames(p) = rd \o (st \o << >>)
  <2>1. Frames(pending) = Frames(p) \o f /\ Frames(p) \in Seq(Byte)
    <3>1. <<m>> \in Seq(Messages)
      BY <1>7
    <3>2. Frames(pending) = Frames(p) \o Frames(<<m>>) /\ Frames(p) \in Seq(Byte)
      BY <1>7, <3>1, FramesConcat
    <3>3. QED BY <1>7, <1>11, <3>2, FramesFew
  <2>2. rd \o (st \o f) = (rd \o st) \o f /\ rd \o st \in Seq(Byte)
    <3>1. rd \in Seq(Byte) /\ st \in Seq(Byte)
      BY DEF Parts
    <3>2. QED BY ONLY <1>11, <3>1, BytesAssoc
  <2>3. Frames(p) = rd \o st
    <3>1. PICK x \in Seq(Byte), y \in Seq(Byte) : x = Frames(p) /\ y = rd \o st
      BY <2>1, <2>2
    <3>2. x \o f = y \o f
      BY <1>1, <1>11, <2>1, <2>2, <3>1
    <3>3. QED BY <1>11, <3>1, <3>2, SameBack
  <2>4. QED BY <2>3 DEF Parts
<1>13. i # Idle /\ i.phase = "data" => p # << >> /\ i.size = Len(p[1])
  <2>1. SUFFICES ASSUME i # Idle /\ i.phase = "data" PROVE p # << >> /\ i.size = Len(p[1])
    OBVIOUS
  <2>2. p # << >>
    <3>1. SUFFICES ASSUME p = << >> PROVE FALSE
      OBVIOUS
    <3>2. rd \o (st \o << >>) = << >>
      BY <1>12, <3>1, FramesFew
    <3>3. rd = << >>
      BY <3>2 DEF Parts
    <3>4. QED BY <2>1, <3>3
  <2>3. p[1] = pending[1]
    BY <1>7, <2>2
  <2>4. QED BY <1>1, <2>1, <2>2, <2>3
<1>14. << >> \in Seq(Byte)
  OBVIOUS
<1>15. \E pn \in Seq(Messages), rs \in Seq(Byte) :
         /\ Front(b) = r \o pn
         /\ Frames(pn) = rd \o (st \o rs)
         /\ "out" \notin c => rs = << >>
         /\ i # Idle /\ i.phase = "data" => pn # << >> /\ i.size = Len(pn[1])
  BY <1>7, <1>10, <1>12, <1>13, <1>14, Zenon
<1>16. QED BY <1>15, Zenon DEF Way

\* A send that is cut leaves its rest unwritten.
LEMMA WayCut ==
    ASSUME NEW b, NEW r, NEW rd, NEW st, NEW un, NEW un2, NEW c, NEW i,
           Way(b, r, rd, st, un, c, i)
    PROVE  Way(b, r, rd, st, un2, c \cup {"out"}, i)
BY DEF Way

\* Nothing is asked of a receive that has not got a size.
LEMMA WayStart ==
    ASSUME NEW b, NEW r, NEW rd, NEW st, NEW un, NEW c, NEW i, NEW j,
           Way(b, r, rd, st, un, c, i), j = Idle \/ j.phase # "data"
    PROVE  Way(b, r, rd, st, un, c, j)
<1>1. PICK pending \in Seq(Messages), rest \in Seq(Byte) :
         /\ b = r \o pending
         /\ Frames(pending) = rd \o (st \o rest)
         /\ "out" \notin c => rest = un
  BY DEF Way
<1>2. \E pn \in Seq(Messages), rs \in Seq(Byte) :
         /\ b = r \o pn
         /\ Frames(pn) = rd \o (st \o rs)
         /\ "out" \notin c => rs = un
         /\ j # Idle /\ j.phase = "data" => pn # << >> /\ j.size = Len(pn[1])
  BY <1>1, Zenon
<1>3. QED BY <1>2, Zenon DEF Way

\* What is read goes from the stream to the receiver.
LEMMA WayRead ==
    ASSUME NEW b, NEW r, NEW rd, NEW st, NEW w \in Seq(Byte), NEW un, NEW c, NEW i, NEW j,
           Parts(b, r, rd, st, un), Way(b, r, rd, w \o st, un, c, i),
           j # Idle /\ j.phase = "data" => i # Idle /\ i.phase = "data" /\ i.size = j.size
    PROVE  Way(b, r, rd \o w, st, un, c, j)
<1>1. PICK pending \in Seq(Messages), rest \in Seq(Byte) :
         /\ b = r \o pending
         /\ Frames(pending) = rd \o ((w \o st) \o rest)
         /\ "out" \notin c => rest = un
         /\ i # Idle /\ i.phase = "data" => pending # << >> /\ i.size = Len(pending[1])
  BY DEF Way
<1>2. rd \o ((w \o st) \o rest) = (rd \o w) \o (st \o rest)
  <2>1. rd \in Seq(Byte) /\ st \in Seq(Byte)
    BY DEF Parts
  <2>2. (w \o st) \o rest = w \o (st \o rest) /\ st \o rest \in Seq(Byte)
    BY ONLY <2>1, w \in Seq(Byte), rest \in Seq(Byte), BytesAssoc
  <2>3. rd \o (w \o (st \o rest)) = (rd \o w) \o (st \o rest)
    <3>1. PICK x \in Seq(Byte) : x = st \o rest
      BY <2>2
    <3>2. rd \o (w \o x) = (rd \o w) \o x
      BY ONLY <2>1, w \in Seq(Byte), x \in Seq(Byte)
    <3>3. QED BY <3>1, <3>2
  <2>4. QED BY <2>2, <2>3, Zenon
<1>3. j # Idle /\ j.phase = "data" => pending # << >> /\ j.size = Len(pending[1])
  BY <1>1
<1>4. Frames(pending) = (rd \o w) \o (st \o rest)
  BY <1>1, <1>2
<1>5. \E pn \in Seq(Messages), rs \in Seq(Byte) :
         /\ b = r \o pn
         /\ Frames(pn) = (rd \o w) \o (st \o rs)
         /\ "out" \notin c => rs = un
         /\ j # Idle /\ j.phase = "data" => pn # << >> /\ j.size = Len(pn[1])
  BY <1>1, <1>3, <1>4, Zenon
<1>6. QED BY <1>5, Zenon DEF Way

\* The first pending message, once something of its frame or more is there.
LEMMA FirstPending ==
    ASSUME NEW pending \in Seq(Messages), pending # << >>
    PROVE  \E m \in Messages, tail \in Seq(Messages) :
              /\ m = pending[1] /\ pending = <<m>> \o tail
              /\ Frames(tail) \in Seq(Byte)
              /\ Frames(pending) = serialize(Len(m), SizeLen) \o (m \o Frames(tail))
<1>1. PICK n \in Nat : n = Len(pending) /\ n # 0
  OBVIOUS
<1>2. PICK m \in Messages : m = pending[1]
  BY <1>1
<1>3. PICK tail \in Seq(Messages) : tail = SubSeq(pending, 2, n)
  <2>1. SubSeq(pending, 2, n) \in Seq(Messages)
    BY <1>1
  <2>2. QED BY <2>1
<1>4. pending = <<m>> \o tail
  BY <1>1, <1>2, <1>3
<1>5. <<m>> \in Seq(Messages)
  OBVIOUS
<1>6. Frames(pending) = Frames(<<m>>) \o Frames(tail) /\ Frames(tail) \in Seq(Byte)
  BY <1>4, <1>5, FramesConcat
<1>7. Frames(<<m>>) = serialize(Len(m), SizeLen) \o m
  BY FramesFew, FrameIs
<1>8. PICK s \in Seq(Byte), f \in Seq(Byte) : s = serialize(Len(m), SizeLen) /\ f = Frames(tail)
  BY <1>6, FrameIs
<1>9. m \in Seq(Byte)
  BY FrameIs
<1>10. (s \o m) \o f = s \o (m \o f)
  BY ONLY <1>9, s \in Seq(Byte), f \in Seq(Byte), BytesAssoc
<1>11. QED BY <1>2, <1>4, <1>6, <1>7, <1>8, <1>10

\* A size that is complete is the size of the next message; if that has no
\* bytes it is received.
LEMMA WaySize ==
    ASSUME NEW b, NEW r, NEW rd, NEW st, NEW un, NEW c, NEW i,
           Parts(b, r, rd, st, un), Way(b, r, rd, st, un, c, i), Len(rd) = SizeLen
    PROVE  \E m \in Messages :
              /\ rd = serialize(Len(m), SizeLen) /\ deserialize(rd) = Len(m)
              /\ \A j : j.size = Len(m) => Way(b, r, rd, st, un, c, j)
              /\ m = << >> => Way(b, Append(r, << >>), << >>, st, un, c, Idle)
<1>1. PICK pending \in Seq(Messages), rest \in Seq(Byte) :
         /\ b = r \o pending
         /\ Frames(pending) = rd \o (st \o rest)
         /\ "out" \notin c => rest = un
  BY DEF Way
<1>2. rd \in Seq(Byte) /\ st \o rest \in Seq(Byte) /\ r \in Seq(Seq(Byte))
  BY DEF Parts
<1>3. pending # << >>
  <2>1. SUFFICES ASSUME pending = << >> PROVE FALSE
    OBVIOUS
  <2>2. rd \o (st \o rest) = << >>
    BY <1>1, <2>1, FramesFew
  <2>3. PICK x \in Seq(Byte) : x = st \o rest
    BY <1>2
  <2>4. Len(rd \o x) = Len(rd) + Len(x) /\ Len(x) \in Nat
    BY ONLY <1>2, x \in Seq(Byte), BytesConcat
  <2>5. Len(rd \o x) = 0
    BY <2>2, <2>3
  <2>6. QED BY <2>4, <2>5, BoundsAssumption, WidthAssumption
<1>4. PICK m \in Messages, tail \in Seq(Messages) :
         /\ m = pending[1] /\ pending = <<m>> \o tail
         /\ Frames(tail) \in Seq(Byte)
         /\ Frames(pending) = serialize(Len(m), SizeLen) \o (m \o Frames(tail))
  BY <1>3, FirstPending
<1>5. PICK s \in Seq(Byte), f \in Seq(Byte) :
         s = serialize(Len(m), SizeLen) /\ f = Frames(tail) /\ Len(s) = SizeLen /\ deserialize(s) = Len(m)
  BY <1>4, FrameIs
<1>6. m \in Seq(Byte) /\ m \o f \in Seq(Byte)
  <2>1. m \in Seq(Byte)
    BY FrameIs
  <2>2. QED BY <2>1
<1>7. rd = s /\ st \o rest = m \o f
  <2>1. PICK x \in Seq(Byte), y \in Seq(Byte) : x = st \o rest /\ y = m \o f
    BY <1>2, <1>6
  <2>2. rd \o x = s \o y
    BY <1>1, <1>4, <1>5, <2>1
  <2>3. Len(rd) = Len(s)
    BY <1>5
  <2>4. rd = s /\ x = y
    BY ONLY <1>2, s \in Seq(Byte), x \in Seq(Byte), y \in Seq(Byte), <2>2, <2>3, SameFront
  <2>5. QED BY <2>1, <2>4
<1>8. ASSUME NEW j, j.size = Len(m) PROVE Way(b, r, rd, st, un, c, j)
  <2>1. j # Idle /\ j.phase = "data" => pending # << >> /\ j.size = Len(pending[1])
    BY <1>3, <1>4, <1>8
  <2>2. QED BY <1>1, <2>1, Zenon DEF Way
<1>9. ASSUME m = << >> PROVE Way(b, Append(r, << >>), << >>, st, un, c, Idle)
  <2>1. b = Append(r, << >>) \o tail
    <3>1. PICK A : A = Seq(Byte) \cup Messages
      OBVIOUS
    <3>2. r \in Seq(A) /\ <<m>> \in Seq(A) /\ tail \in Seq(A)
      BY <1>2, <3>1
    <3>3. (r \o <<m>>) \o tail = r \o (<<m>> \o tail)
      BY ONLY <3>2, Assoc
    <3>4. Append(r, << >>) = r \o <<m>>
      BY <1>2, <1>9
    <3>5. QED BY <1>1, <1>4, <3>3, <3>4
  <2>2. Frames(tail) = << >> \o (st \o rest)
    <3>1. m \o f = f
      BY <1>9
    <3>2. QED BY <1>2, <1>5, <1>7, <3>1
  <2>3. ~ (Idle # Idle /\ Idle.phase = "data")
    OBVIOUS
  <2>4. \E pn \in Seq(Messages), rs \in Seq(Byte) :
         /\ b = Append(r, << >>) \o pn
         /\ Frames(pn) = << >> \o (st \o rs)
         /\ "out" \notin c => rs = un
         /\ Idle # Idle /\ Idle.phase = "data" => pn # << >> /\ Idle.size = Len(pn[1])
    BY <1>1, <2>1, <2>2, <2>3, Zenon
  <2>5. QED BY <2>4, Zenon DEF Way
<1>10. QED BY <1>5, <1>7, <1>8, <1>9, Zenon

\* Data that is complete is the next message.
LEMMA WayData ==
    ASSUME NEW b, NEW r, NEW size \in Nat, NEW got \in Seq(Byte), NEW st, NEW un, NEW c, NEW i,
           Parts(b, r, got, st, un), Way(b, r, serialize(size, SizeLen) \o got, st, un, c, i),
           i # Idle, i.phase = "data", i.size = size, Len(got) = size
    PROVE  Way(b, Append(r, got), << >>, st, un, c, Idle)
<1>1. PICK s \in Seq(Byte) : s = serialize(size, SizeLen) /\ Len(s) = SizeLen
  BY SizeComesBack, WidthAssumption
<1>2. PICK pending \in Seq(Messages), rest \in Seq(Byte) :
         /\ b = r \o pending
         /\ Frames(pending) = (s \o got) \o (st \o rest)
         /\ "out" \notin c => rest = un
         /\ pending # << >> /\ size = Len(pending[1])
  BY <1>1 DEF Way
<1>3. st \o rest \in Seq(Byte) /\ r \in Seq(Seq(Byte))
  BY DEF Parts
<1>4. PICK m \in Messages, tail \in Seq(Messages) :
         /\ m = pending[1] /\ pending = <<m>> \o tail
         /\ Frames(tail) \in Seq(Byte)
         /\ Frames(pending) = serialize(Len(m), SizeLen) \o (m \o Frames(tail))
  BY <1>2, FirstPending
<1>5. m \in Seq(Byte) /\ serialize(Len(m), SizeLen) = s /\ Len(m) = size
  BY <1>1, <1>2, <1>4, FrameIs
<1>6. got = m /\ st \o rest = Frames(tail)
  <2>1. PICK x \in Seq(Byte), f \in Seq(Byte) : x = st \o rest /\ f = Frames(tail)
    BY <1>3, <1>4
  <2>2. (s \o got) \o x = s \o (got \o x)
    BY ONLY s \in Seq(Byte), got \in Seq(Byte), x \in Seq(Byte)
  <2>3. s \o (got \o x) = s \o (m \o f)
    BY <1>2, <1>4, <1>5, <2>1, <2>2
  <2>4. got \o x \in Seq(Byte) /\ m \o f \in Seq(Byte)
    BY <1>5
  <2>5. got \o x = m \o f
    <3>1. PICK y \in Seq(Byte), z \in Seq(Byte) : y = got \o x /\ z = m \o f
      BY <2>4
    <3>2. s \o y = s \o z
      BY <2>3, <3>1
    <3>3. QED BY <3>1, <3>2, SameFront
  <2>6. got = m /\ x = f
    BY <1>5, <2>5, SameFront
  <2>7. QED BY <2>1, <2>6
<1>7. b = Append(r, got) \o tail
  <2>1. PICK A : A = Seq(Byte) \cup Messages
    OBVIOUS
  <2>2. r \in Seq(A) /\ <<m>> \in Seq(A) /\ tail \in Seq(A)
    BY <1>3, <2>1
  <2>3. (r \o <<m>>) \o tail = r \o (<<m>> \o tail)
    BY ONLY <2>2, Assoc
  <2>4. Append(r, got) = r \o <<m>>
    BY <1>3, <1>6
  <2>5. QED BY <1>2, <1>4, <2>3, <2>4
<1>8. Frames(tail) = << >> \o (st \o rest)
  BY <1>3, <1>6
<1>9. ~ (Idle # Idle /\ Idle.phase = "data")
  OBVIOUS
<1>10. \E pn \in Seq(Messages), rs \in Seq(Byte) :
         /\ b = Append(r, got) \o pn
         /\ Frames(pn) = << >> \o (st \o rs)
         /\ "out" \notin c => rs = un
         /\ Idle # Idle /\ Idle.phase = "data" => pn # << >> /\ Idle.size = Len(pn[1])
  BY <1>2, <1>7, <1>8, <1>9, Zenon
<1>11. QED BY <1>10, Zenon DEF Way

\* The messages received are the first ones begun; not all, while one of them
\* is not written.
LEMMA WayBehind ==
    ASSUME NEW b, NEW r, NEW rd, NEW st, NEW un, NEW c, NEW i,
           Parts(b, r, rd, st, un), Way(b, r, rd, st, un, c, i)
    PROVE  /\ IsPrefix(r, b)
           /\ "out" \notin c /\ un # << >> => Len(r) < Len(b)
<1>1. PICK pending \in Seq(Messages), rest \in Seq(Byte) :
         /\ b = r \o pending
         /\ Frames(pending) = rd \o (st \o rest)
         /\ "out" \notin c => rest = un
  BY DEF Way
<1>2. PICK A : A = Seq(Byte) \cup Messages
  OBVIOUS
<1>3. r \in Seq(A) /\ pending \in Seq(A) /\ b \in Seq(A)
  BY <1>2 DEF Parts
<1>4. Len(b) = Len(r) + Len(pending) /\ Len(r) \in Nat /\ Len(pending) \in Nat
      /\ \A k \in 1 .. Len(r) : b[k] = r[k]
  BY <1>1, <1>3, ConcatIs
<1>5. IsPrefix(r, b)
  BY <1>3, <1>4 DEF IsPrefix
<1>6. ASSUME "out" \notin c, un # << >> PROVE Len(r) < Len(b)
  <2>1. SUFFICES ASSUME Len(pending) = 0 PROVE FALSE
    BY <1>4
  <2>2. pending = << >>
    BY <2>1
  <2>3. rd \o (st \o un) = << >>
    BY <1>1, <1>6, <2>2, FramesFew
  <2>4. un = << >>
    BY <2>3 DEF Parts
  <2>5. QED BY <1>6, <2>4
<1>7. QED BY <1>5, <1>6

-----------------------------------------------------------------------------
(* The invariant *)

\* What a receive has read of a frame, and what a send has left of one.
ReadOf(i) ==
    IF i = Idle THEN << >>
    ELSE IF i.phase = "size" THEN i.got ELSE serialize(i.size, SizeLen) \o i.got
RestOf(o, b) ==
    IF o = Idle THEN << >>
    ELSE IF o.phase = "size" THEN o.left \o Last(b) ELSE o.left

Sending ==
    out # Idle =>
       /\ begun # << >> /\ out.left # << >>
       /\ out.phase = "size" =>
             \E done \in Seq(Byte) : done \o out.left = serialize(Wrap(Len(Last(begun))), SizeLen)
Receiving ==
    in # Idle => Len(in.got) < in.size /\ (in.phase = "size" => in.size = SizeLen)
Counts ==
    /\ Len(begun) <= MaxOps
    /\ sent <= Len(begun) /\ (out # Idle => sent + 1 <= Len(begun))
CutsEnd ==
    /\ torn => cut # {}
    /\ ~torn => ("out" \in cut => out = Idle) /\ ("in" \in cut => in = Idle)
Behind ==
    ~torn => IsPrefix(received, begun) /\ (out # Idle => Len(received) < Len(begun))
OnItsWay ==
    ~torn /\ "in" \notin cut =>
        Way(begun, received, ReadOf(in), stream, RestOf(out, begun), cut, in)

IInv == TypeOK /\ Sending /\ Receiving /\ Counts /\ CutsEnd /\ Behind /\ OnItsWay

\* A send is idle, or has a phase and something left.
LEMMA OutIs ==
    ASSUME TypeOK
    PROVE  \/ out = Idle
           \/ \E ph \in {"size", "data"}, l \in Seq(Byte) :
                 out = [phase |-> ph, left |-> l] /\ out # Idle
BY DEF TypeOK, Idle

\* A receive is idle or has a phase, a size and what it got.
LEMMA InIs ==
    ASSUME TypeOK
    PROVE  \/ in = Idle
           \/ \E ph \in {"size", "data"}, size \in Nat, got \in Seq(Byte) :
                 in = [phase |-> ph, size |-> size, got |-> got] /\ in # Idle
BY DEF TypeOK, Idle

\* What has something left or got is not idle.
LEMMA NotIdle ==
    ASSUME NEW ph \in {"size", "data"}, NEW l, NEW size, NEW got
    PROVE  /\ [phase |-> ph, left |-> l] # Idle
           /\ [phase |-> ph, size |-> size, got |-> got] # Idle
BY DEF Idle

\* The last message begun is a message.
LEMMA LastBegun ==
    ASSUME NEW b \in Seq(Messages), b # << >>
    PROVE  Last(b) \in Messages /\ Last(b) \in Seq(Byte)
<1>1. Last(b) \in Messages
  BY DEF Last
<1>2. QED BY <1>1, FrameIs

\* The types of what Way is about.
LEMMA PartsOf ==
    ASSUME IInv
    PROVE  Parts(begun, received, ReadOf(in), stream, RestOf(out, begun))
<1>1. /\ begun \in Seq(Messages) /\ received \in Seq(Seq(Byte)) /\ stream \in Seq(Byte)
      /\ TypeOK /\ Sending
  BY DEF IInv, TypeOK
<1>2. RestOf(out, begun) \in Seq(Byte)
  <2>1. CASE out = Idle
    BY <2>1 DEF RestOf
  <2>2. CASE out # Idle
    <3>1. PICK ph \in {"size", "data"}, l \in Seq(Byte) : out = [phase |-> ph, left |-> l]
      BY <1>1, <2>2, OutIs
    <3>2. Last(begun) \in Seq(Byte)
      BY <1>1, <2>2, LastBegun DEF Sending
    <3>3. out.left = l /\ l \o Last(begun) \in Seq(Byte)
      BY <3>1, <3>2
    <3>4. QED BY <2>2, <3>3 DEF RestOf
  <2>3. QED BY <2>1, <2>2
<1>3. ReadOf(in) \in Seq(Byte)
  <2>1. CASE in = Idle
    BY <2>1 DEF ReadOf
  <2>2. CASE in # Idle
    <3>1. PICK ph \in {"size", "data"}, size \in Nat, got \in Seq(Byte) :
             in = [phase |-> ph, size |-> size, got |-> got]
      BY <1>1, <2>2, InIs
    <3>2. PICK s \in Seq(Byte) : s = serialize(size, SizeLen)
      BY SizeComesBack, WidthAssumption
    <3>3. in.got = got /\ in.size = size /\ s \o got \in Seq(Byte)
      BY <3>1
    <3>4. QED BY <2>2, <3>2, <3>3 DEF ReadOf
  <2>3. QED BY <2>1, <2>2
<1>4. QED BY <1>1, <1>2, <1>3 DEF Parts

\* Nothing is on its way at first.
LEMMA InitIInv == Init => IInv
<1>1. SUFFICES ASSUME Init PROVE IInv
  OBVIOUS
<1>2. out = Idle /\ stream = << >> /\ in = Idle /\ begun = << >> /\ sent = 0 /\ asked = 0
      /\ received = << >> /\ cut = {} /\ torn = FALSE
  BY <1>1, Zenon DEF Init
<1>3. TypeOK
  <2>1. torn \in BOOLEAN
    BY <1>2, Zenon
  <2>2. QED BY <1>2, <2>1, BoundsAssumption, WidthAssumption DEF TypeOK
<1>4. Sending /\ Receiving /\ Counts /\ CutsEnd
  BY <1>2, BoundsAssumption, WidthAssumption DEF Sending, Receiving, Counts, CutsEnd
<1>5. Behind
  BY <1>2 DEF Behind, IsPrefix
<1>6. OnItsWay
  <2>1. ReadOf(in) = << >> /\ RestOf(out, begun) = << >>
    BY <1>2 DEF ReadOf, RestOf
  <2>2. << >> = << >> \o << >> /\ Frames(<< >>) = << >> \o (<< >> \o << >>)
    BY FramesFew
  <2>3. << >> \in Seq(Messages) /\ << >> \in Seq(Byte)
    OBVIOUS
  <2>4. \E pn \in Seq(Messages), rs \in Seq(Byte) :
           /\ << >> = << >> \o pn
           /\ Frames(pn) = << >> \o (<< >> \o rs)
           /\ "out" \notin {} => rs = << >>
           /\ Idle # Idle /\ Idle.phase = "data" => pn # << >> /\ Idle.size = Len(pn[1])
    BY <2>2, <2>3, Zenon
  <2>5. Way(<< >>, << >>, << >>, << >>, << >>, {}, Idle)
    BY <2>4, Zenon DEF Way
  <2>6. QED BY <1>2, <2>1, <2>5, Zenon DEF OnItsWay
<1>7. QED BY <1>3, <1>4, <1>5, <1>6 DEF IInv

\* The frame of a message that is begun has yet to be written.
LEMMA BeginSendStep ==
    ASSUME IInv, NEW m \in Messages, BeginSend(m)
    PROVE  IInv'
<1>1. /\ TypeOK /\ Sending /\ Receiving /\ Counts /\ CutsEnd /\ Behind /\ OnItsWay
  BY DEF IInv
<1>2. PICK s \in Seq(Byte) : s = serialize(Wrap(Len(m)), SizeLen) /\ s # << >> /\ Frame(m) = s \o m
  <2>1. Wrap(Len(m)) = Len(m) /\ serialize(Len(m), SizeLen) \in Seq(Byte) /\ Len(serialize(Len(m), SizeLen)) = SizeLen
        /\ Frame(m) = serialize(Len(m), SizeLen) \o m
    BY FrameIs
  <2>2. PICK s \in Seq(Byte) : s = serialize(Len(m), SizeLen) /\ Len(s) = SizeLen
    BY <2>1
  <2>3. s # << >>
    BY <2>2, BoundsAssumption, WidthAssumption
  <2>4. QED BY <2>1, <2>2, <2>3
<1>3. /\ out = Idle /\ Len(begun) < MaxOps
      /\ begun' = Append(begun, m)
      /\ out' = [phase |-> "size", left |-> s]
      /\ torn' = (torn \/ "out" \in cut)
      /\ stream' = stream /\ in' = in /\ sent' = sent /\ asked' = asked
      /\ received' = received /\ cut' = cut
  BY <1>2 DEF BeginSend
<1>4. out' # Idle /\ out'.left = s /\ out'.phase = "size"
  BY <1>3, NotIdle
<1>5. begun \in Seq(Messages) /\ Len(begun) \in Nat
  BY <1>1 DEF TypeOK
<1>6. /\ begun' \in Seq(Messages) /\ begun' # << >> /\ Len(begun') = Len(begun) + 1
      /\ Last(begun') = m
  BY <1>3, <1>5 DEF Last
<1>7. TypeOK'
  <2>1. out' \in [phase : {"size", "data"}, left : Seq(Byte)]
    BY <1>2, <1>3
  <2>2. torn' \in BOOLEAN
    BY <1>1, <1>3, Zenon DEF TypeOK
  <2>3. QED BY <1>1, <1>3, <1>6, <2>1, <2>2 DEF TypeOK
<1>8. Sending'
  <2>1. << >> \o s = serialize(Wrap(Len(Last(begun'))), SizeLen) /\ << >> \in Seq(Byte)
    BY <1>2, <1>6
  <2>2. \E done \in Seq(Byte) : done \o s = serialize(Wrap(Len(Last(begun'))), SizeLen)
    BY <2>1, Zenon
  <2>3. QED BY <1>2, <1>4, <1>6, <2>2 DEF Sending
<1>9. Receiving'
  BY <1>1, <1>3 DEF Receiving
<1>10. Counts'
  BY <1>1, <1>3, <1>5, <1>6, BoundsAssumption, WidthAssumption DEF Counts, TypeOK
<1>11. CutsEnd'
  BY <1>1, <1>3 DEF CutsEnd
<1>12. Behind'
  <2>1. SUFFICES ASSUME ~torn' PROVE IsPrefix(received', begun') /\ Len(received') < Len(begun')
    BY DEF Behind
  <2>2. IsPrefix(received, begun)
    BY <1>1, <1>3, <2>1 DEF Behind
  <2>3. Len(received) \in Nat /\ received \in Seq(Seq(Byte))
    BY <1>1 DEF TypeOK
  <2>4. Len(received) <= Len(begun) /\ SubSeq(begun', 1, Len(received)) = SubSeq(begun, 1, Len(received))
    BY <1>3, <1>5, <2>2, <2>3 DEF IsPrefix
  <2>5. QED BY <1>3, <1>5, <1>6, <2>2, <2>3, <2>4 DEF IsPrefix
<1>13. OnItsWay'
  <2>1. SUFFICES ASSUME ~torn', "in" \notin cut'
                 PROVE  Way(begun, received, ReadOf(in), stream, RestOf(out, begun), cut, in)'
    BY DEF OnItsWay
  <2>2. RestOf(out, begun) = << >> /\ RestOf(out', begun') = Frame(m)
    BY <1>2, <1>3, <1>4, <1>6 DEF RestOf
  <2>3. Way(begun, received, ReadOf(in), stream, << >>, cut, in) /\ "out" \notin cut
    BY <1>1, <1>3, <2>1, <2>2 DEF OnItsWay
  <2>4. Parts(begun, received, ReadOf(in), stream, << >>)
    BY <2>2, PartsOf
  <2>5. Way(Append(begun, m), received, ReadOf(in), stream, Frame(m), cut, in)
    BY <2>3, <2>4, WayBegin, Zenon
  <2>6. QED BY <1>3, <2>2, <2>5, Zenon
<1>14. QED
  BY <1>7, <1>8, <1>9, <1>10, <1>11, <1>12, <1>13 DEF IInv

\* What is left after a piece w of a send was written.
LEMMA AfterWriteIs ==
    ASSUME IInv, out # Idle, NEW w \in Seq(Byte), NEW k \in Seq(Byte), out.left = w \o k,
           NEW o, o = AfterWrite(k)
    PROVE  /\ o \in {Idle} \cup [phase : {"size", "data"}, left : Seq(Byte)]
           /\ RestOf(out, begun) = w \o RestOf(o, begun)
           /\ RestOf(o, begun) \in Seq(Byte)
           /\ o # Idle => o.left # << >>
           /\ o # Idle /\ o.phase = "size" => out.phase = "size" /\ o.left = k
<1>1. TypeOK /\ Sending /\ begun \in Seq(Messages)
  BY DEF IInv, TypeOK
<1>2. PICK ph \in {"size", "data"} : out = [phase |-> ph, left |-> w \o k]
  BY <1>1, OutIs
<1>3. out.phase = ph
  BY <1>2
<1>4. PICK m \in Seq(Byte) : m = Last(begun)
  BY <1>1, LastBegun DEF Sending
<1>5. RestOf(out, begun) = IF ph = "size" THEN (w \o k) \o m ELSE w \o k
  BY <1>3, <1>4, Zenon DEF RestOf
<1>6. k = << >> => w \o k = w
  OBVIOUS
<1>7. CASE k # << >>
  <2>1. o = [phase |-> ph, left |-> k]
    BY <1>2, <1>7 DEF AfterWrite
  <2>2. o # Idle /\ o.left = k /\ o.phase = ph
    BY <2>1, NotIdle
  <2>3. CASE ph = "size"
    <3>1. RestOf(o, begun) = k \o m
      BY <1>4, <2>2, <2>3, Zenon DEF RestOf
    <3>2. (w \o k) \o m = w \o (k \o m) /\ k \o m \in Seq(Byte)
      BY ONLY w \in Seq(Byte), k \in Seq(Byte), m \in Seq(Byte), BytesAssoc
    <3>3. QED BY <1>3, <1>5, <1>7, <2>1, <2>2, <2>3, <3>1, <3>2
  <2>4. CASE ph = "data"
    <3>1. RestOf(o, begun) = k
      BY <2>2, <2>4 DEF RestOf
    <3>2. QED BY <1>3, <1>5, <1>7, <2>1, <2>2, <2>4, <3>1
  <2>5. QED BY <2>3, <2>4
<1>8. CASE k = << >> /\ ph = "size" /\ m # << >>
  <2>1. o = [phase |-> "data", left |-> m]
    BY <1>3, <1>4, <1>8 DEF AfterWrite
  <2>2. o # Idle /\ o.left = m /\ o.phase = "data"
    BY <2>1, NotIdle
  <2>3. RestOf(o, begun) = m
    BY <2>2 DEF RestOf
  <2>4. QED BY <1>5, <1>6, <1>8, <2>1, <2>2, <2>3
<1>9. CASE k = << >> /\ ~ (ph = "size" /\ m # << >>)
  <2>1. o = Idle
    BY <1>3, <1>4, <1>9 DEF AfterWrite
  <2>2. RestOf(o, begun) = << >>
    BY <2>1 DEF RestOf
  <2>3. RestOf(out, begun) = w
    <3>1. ph = "size" => m = << >>
      BY <1>9
    <3>2. w \o << >> = w
      OBVIOUS
    <3>3. QED BY <1>5, <1>6, <1>9, <3>1, <3>2
  <2>4. QED BY <2>1, <2>2, <2>3
<1>10. QED BY <1>7, <1>8, <1>9

\* A piece of the frame goes from the sender to the stream.
LEMMA WriteSomeStep ==
    ASSUME IInv, WriteSome
    PROVE  IInv'
<1>1. TypeOK /\ Sending /\ Receiving /\ Counts /\ CutsEnd /\ Behind /\ OnItsWay
  BY DEF IInv
<1>2. out # Idle
  BY DEF WriteSome
<1>3. PICK n \in 1 .. MaxBuffer :
          /\ n <= Len(out.left)
          /\ stream' = stream \o SubSeq(out.left, 1, n)
          /\ out' = AfterWrite(SubSeq(out.left, n + 1, Len(out.left)))
  BY Zenon DEF WriteSome
<1>4. /\ sent' = (IF out' = Idle THEN sent + 1 ELSE sent)
      /\ in' = in /\ begun' = begun /\ asked' = asked /\ received' = received
      /\ cut' = cut /\ torn' = torn
  BY Zenon DEF WriteSome
<1>5. n \in Nat
  BY BoundsAssumption, WidthAssumption
<1>6. PICK w \in Seq(Byte), k \in Seq(Byte),
           o \in {Idle} \cup [phase : {"size", "data"}, left : Seq(Byte)] :
         /\ out' = o /\ stream' = stream \o w
         /\ out.left = w \o k
         /\ RestOf(out, begun) = w \o RestOf(o, begun)
         /\ RestOf(o, begun) \in Seq(Byte)
         /\ o # Idle => o.left # << >>
         /\ o # Idle /\ o.phase = "size" => out.phase = "size" /\ o.left = k
  <2>1. PICK l \in Seq(Byte) : out.left = l
    BY <1>1, <1>2, OutIs
  <2>2. PICK w, k : w = SubSeq(l, 1, n) /\ k = SubSeq(l, n + 1, Len(l))
    OBVIOUS
  <2>3. n \in 0 .. Len(l)
    BY <1>3, <1>5, <2>1
  <2>4. w \in Seq(Byte) /\ k \in Seq(Byte) /\ l = w \o k
    BY <2>2, <2>3, TwoParts
  <2>5. out' = AfterWrite(k) /\ stream' = stream \o w
    BY <1>3, <2>1, <2>2, Zenon
  <2>6. PICK o : o = AfterWrite(k)
    OBVIOUS
  <2>7. /\ o \in {Idle} \cup [phase : {"size", "data"}, left : Seq(Byte)]
        /\ RestOf(out, begun) = w \o RestOf(o, begun)
        /\ RestOf(o, begun) \in Seq(Byte)
        /\ o # Idle => o.left # << >>
        /\ o # Idle /\ o.phase = "size" => out.phase = "size" /\ o.left = k
    BY <1>2, <2>1, <2>4, <2>6, AfterWriteIs, Zenon
  <2>8. QED BY <2>1, <2>4, <2>5, <2>6, <2>7, Zenon
<1>8. TypeOK'
  <2>1. out' \in {Idle} \cup [phase : {"size", "data"}, left : Seq(Byte)]
    BY <1>6, <1>6, Zenon
  <2>2. stream' \in Seq(Byte)
    BY <1>1, <1>6 DEF TypeOK
  <2>3. sent' \in 0 .. MaxOps
    BY <1>1, <1>2, <1>4, BoundsAssumption, WidthAssumption DEF TypeOK, Counts
  <2>4. torn' \in BOOLEAN
    BY <1>1, <1>4, Zenon DEF TypeOK
  <2>5. QED BY <1>1, <1>4, <2>1, <2>2, <2>3, <2>4 DEF TypeOK
<1>9. Sending'
  <2>1. SUFFICES ASSUME out' # Idle
                 PROVE  /\ begun # << >> /\ out'.left # << >>
                        /\ out'.phase = "size" =>
                             \E done \in Seq(Byte) :
                                done \o out'.left = serialize(Wrap(Len(Last(begun))), SizeLen)
    BY <1>4 DEF Sending
  <2>2. begun # << >> /\ out'.left # << >>
    BY <1>1, <1>2, <1>6, <1>6, <2>1 DEF Sending
  <2>3. ASSUME out'.phase = "size"
        PROVE  \E done \in Seq(Byte) : done \o out'.left = serialize(Wrap(Len(Last(begun))), SizeLen)
    <3>1. out.phase = "size" /\ out'.left = k
      BY <1>6, <1>6, <2>1, <2>3, Zenon
    <3>2. PICK done \in Seq(Byte) : done \o (w \o k) = serialize(Wrap(Len(Last(begun))), SizeLen)
      BY <1>1, <1>2, <1>6, <3>1 DEF Sending
    <3>3. (done \o w) \o k = done \o (w \o k) /\ done \o w \in Seq(Byte)
      BY ONLY done \in Seq(Byte), w \in Seq(Byte), k \in Seq(Byte), BytesAssoc
    <3>4. QED BY <3>1, <3>2, <3>3, Zenon
  <2>4. QED BY <2>2, <2>3
<1>10. Receiving'
  BY <1>1, <1>4 DEF Receiving
<1>11. Counts'
  BY <1>1, <1>2, <1>4, BoundsAssumption, WidthAssumption DEF Counts, TypeOK
<1>12. CutsEnd'
  BY <1>1, <1>2, <1>4 DEF CutsEnd
<1>13. Behind'
  BY <1>1, <1>2, <1>4 DEF Behind
<1>14. OnItsWay'
  <2>1. SUFFICES ASSUME ~torn, "in" \notin cut
                 PROVE  Way(begun, received, ReadOf(in), stream \o w,
                            RestOf(o, begun), cut, in)
    BY <1>4, <1>6, Zenon DEF OnItsWay
  <2>2. Way(begun, received, ReadOf(in), stream, w \o RestOf(o, begun), cut, in)
    BY <1>1, <1>6, <2>1 DEF OnItsWay
  <2>3. "out" \notin cut
    BY <1>1, <1>2, <2>1 DEF CutsEnd
  <2>4. Parts(begun, received, ReadOf(in), stream, RestOf(o, begun))
    <3>1. Parts(begun, received, ReadOf(in), stream, RestOf(out, begun))
      BY PartsOf
    <3>2. QED BY <1>6, <3>1, Zenon DEF Parts
  <2>5. QED BY <2>2, <2>3, <2>4, WayWrite, Zenon
<1>15. QED
  BY <1>8, <1>9, <1>10, <1>11, <1>12, <1>13, <1>14 DEF IInv

\* A receive that begins has read nothing.
LEMMA BeginReceiveStep ==
    ASSUME IInv, BeginReceive
    PROVE  IInv'
<1>1. TypeOK /\ Sending /\ Receiving /\ Counts /\ CutsEnd /\ Behind /\ OnItsWay
  BY DEF IInv
<1>2. /\ in = Idle /\ asked < MaxOps /\ asked' = asked + 1
      /\ in' = [phase |-> "size", size |-> SizeLen, got |-> << >>]
      /\ torn' = (torn \/ "in" \in cut)
      /\ out' = out /\ stream' = stream /\ begun' = begun /\ sent' = sent
      /\ received' = received /\ cut' = cut
  BY Zenon DEF BeginReceive
<1>3. in' # Idle /\ in'.phase = "size" /\ in'.size = SizeLen /\ in'.got = << >>
  BY <1>2, NotIdle
<1>4. TypeOK'
  <2>1. in' \in [phase : {"size", "data"}, size : Nat, got : Seq(Byte)]
    BY <1>2, BoundsAssumption, WidthAssumption
  <2>2. torn' \in BOOLEAN
    BY <1>1, <1>2, Zenon DEF TypeOK
  <2>3. asked' \in 0 .. MaxOps
    BY <1>1, <1>2, BoundsAssumption, WidthAssumption DEF TypeOK
  <2>4. QED BY <1>1, <1>2, <2>1, <2>2, <2>3 DEF TypeOK
<1>5. Sending'
  BY <1>1, <1>2, Zenon DEF Sending
<1>6. Receiving'
  BY <1>3, BoundsAssumption, WidthAssumption DEF Receiving
<1>7. Counts'
  BY <1>1, <1>2 DEF Counts
<1>8. CutsEnd'
  BY <1>1, <1>2 DEF CutsEnd
<1>9. Behind'
  BY <1>1, <1>2 DEF Behind
<1>10. OnItsWay'
  <2>1. SUFFICES ASSUME ~torn', "in" \notin cut'
                 PROVE  Way(begun, received, ReadOf(in), stream, RestOf(out, begun), cut, in)'
    BY DEF OnItsWay
  <2>2. ~torn /\ "in" \notin cut
    BY <1>2, <2>1
  <2>3. ReadOf(in) = << >> /\ ReadOf(in') = << >>
    BY <1>2, <1>3 DEF ReadOf
  <2>4. Way(begun, received, << >>, stream, RestOf(out, begun), cut, in)
    BY <1>1, <2>2, <2>3 DEF OnItsWay
  <2>5. in'.phase # "data"
    BY <1>3
  <2>6. Way(begun, received, << >>, stream, RestOf(out, begun), cut, in')
    BY <2>4, <2>5, WayStart, Zenon
  <2>7. QED BY <1>2, <2>3, <2>6, Zenon
<1>11. QED
  BY <1>4, <1>5, <1>6, <1>7, <1>8, <1>9, <1>10 DEF IInv

\* A receive that fails inside a frame says so in cut.
LEMMA ReadFailsStep ==
    ASSUME IInv, ReadFails
    PROVE  IInv'
<1>1. TypeOK /\ Sending /\ Receiving /\ Counts /\ CutsEnd /\ Behind /\ OnItsWay
  BY DEF IInv
<1>2. /\ in # Idle /\ in' = Idle
      /\ cut' = IF in.phase = "size" /\ in.got = << >> THEN cut ELSE cut \cup {"in"}
      /\ out' = out /\ stream' = stream /\ begun' = begun /\ sent' = sent
      /\ asked' = asked /\ received' = received /\ torn' = torn
  BY Zenon DEF ReadFails
<1>3. TypeOK'
  <2>1. torn' \in BOOLEAN
    BY <1>1, <1>2, Zenon DEF TypeOK
  <2>2. cut' \subseteq {"out", "in"}
    BY <1>1, <1>2 DEF TypeOK
  <2>3. QED BY <1>1, <1>2, <2>1, <2>2 DEF TypeOK
<1>4. Sending' /\ Receiving'
  BY <1>1, <1>2, Zenon DEF Sending, Receiving
<1>5. Counts'
  BY <1>1, <1>2 DEF Counts
<1>6. CutsEnd'
  BY <1>1, <1>2 DEF CutsEnd
<1>7. Behind'
  BY <1>1, <1>2 DEF Behind
<1>8. OnItsWay'
  <2>1. SUFFICES ASSUME ~torn', "in" \notin cut'
                 PROVE  Way(begun, received, ReadOf(in), stream, RestOf(out, begun), cut, in)'
    BY DEF OnItsWay
  <2>2. ~torn /\ "in" \notin cut /\ cut' = cut /\ in.phase = "size" /\ in.got = << >>
    BY <1>2, <2>1
  <2>3. ReadOf(in) = << >> /\ ReadOf(in') = << >>
    BY <1>2, <2>2 DEF ReadOf
  <2>4. Way(begun, received, << >>, stream, RestOf(out, begun), cut, in)
    BY <1>1, <2>2, <2>3 DEF OnItsWay
  <2>5. Way(begun, received, << >>, stream, RestOf(out, begun), cut, Idle)
    BY <2>4, WayStart, Zenon
  <2>6. QED BY <1>2, <2>2, <2>3, <2>5, Zenon
<1>9. QED
  BY <1>3, <1>4, <1>5, <1>6, <1>7, <1>8 DEF IInv

\* What all but the last elements of a sequence begin with.
LEMMA FrontIs ==
    ASSUME NEW B, NEW b \in Seq(B), b # << >>
    PROVE  /\ Front(b) \in Seq(B) /\ Len(Front(b)) = Len(b) - 1
           /\ \A r \in Seq(B) : IsPrefix(r, b) /\ Len(r) < Len(b) => IsPrefix(r, Front(b))
<1>1. PICK n \in Nat : Len(b) = n + 1 /\ Len(b) - 1 = n
  <2>1. Len(b) - 1 \in Nat /\ Len(b) = (Len(b) - 1) + 1
    OBVIOUS
  <2>2. QED BY <2>1
<1>2. PICK f \in Seq(B) : f = Front(b) /\ Len(f) = n /\ \A k \in 1 .. n : f[k] = b[k]
  <2>1. PICK f : f = SubSeq(b, 1, n)
    OBVIOUS
  <2>2. f \in Seq(B) /\ Len(f) = n /\ \A k \in 1 .. n : f[k] = b[k]
    BY <1>1, <2>1
  <2>3. QED BY <1>1, <2>1, <2>2 DEF Front
<1>3. ASSUME NEW r \in Seq(B), IsPrefix(r, b), Len(r) < Len(b) PROVE IsPrefix(r, f)
  <2>1. PICK l \in Nat : l = Len(r) /\ l <= n
    BY <1>1, <1>3
  <2>2. \A k \in 1 .. l : r[k] = b[k]
    <3>1. SubSeq(r, 1, l) = SubSeq(b, 1, l)
      BY <1>3, <2>1 DEF IsPrefix
    <3>2. \A k \in 1 .. l : SubSeq(r, 1, l)[k] = r[k] /\ SubSeq(b, 1, l)[k] = b[k]
      BY <1>1, <2>1
    <3>3. QED BY <3>1, <3>2
  <2>3. SubSeq(r, 1, l) = SubSeq(f, 1, l)
    <3>1. PICK x, y : x = SubSeq(r, 1, l) /\ y = SubSeq(f, 1, l)
      OBVIOUS
    <3>2. x \in Seq(B) /\ Len(x) = l /\ \A k \in 1 .. l : x[k] = r[k]
      BY <2>1, <3>1
    <3>3. y \in Seq(B) /\ Len(y) = l /\ \A k \in 1 .. l : y[k] = f[k]
      BY <1>2, <2>1, <3>1
    <3>4. \A k \in 1 .. l : x[k] = y[k]
      BY <1>2, <2>1, <2>2, <3>2, <3>3
    <3>5. x = y
      BY <3>2, <3>3, <3>4, SeqEqual
    <3>6. QED BY <3>1, <3>5
  <2>4. QED BY <1>2, <2>1, <2>3 DEF IsPrefix
<1>4. QED BY <1>1, <1>2, <1>3

\* A send that fails before its first byte was not begun, another one is cut.
LEMMA WriteFailsStep ==
    ASSUME IInv, WriteFails
    PROVE  IInv'
<1>1. TypeOK /\ Sending /\ Receiving /\ Counts /\ CutsEnd /\ Behind /\ OnItsWay
  BY DEF IInv
<1>2. /\ out # Idle /\ out' = Idle
      /\ stream' = stream /\ in' = in /\ sent' = sent /\ asked' = asked
      /\ received' = received /\ torn' = torn
  BY Zenon DEF WriteFails
<1>3. begun \in Seq(Messages) /\ begun # << >> /\ Len(begun) \in Nat
  BY <1>1, <1>2 DEF TypeOK, Sending
<1>4. RestOf(out', begun') = << >>
  BY <1>2 DEF RestOf
<1>5. torn' \in BOOLEAN
  BY <1>1, <1>2, Zenon DEF TypeOK
<1>6. Sending' /\ Receiving'
  BY <1>1, <1>2, Zenon DEF Sending, Receiving
<1>7. CASE out.phase = "size" /\ Len(out.left) = SizeLen
  <2>1. begun' = Front(begun) /\ cut' = cut
    BY <1>7, Zenon DEF WriteFails
  <2>2. /\ Front(begun) \in Seq(Messages) /\ Len(Front(begun)) = Len(begun) - 1
    BY <1>3, FrontIs
  <2>3. TypeOK'
    BY <1>1, <1>2, <1>5, <2>1, <2>2 DEF TypeOK
  <2>4. Counts'
    BY <1>1, <1>2, <1>3, <2>1, <2>2, BoundsAssumption, WidthAssumption DEF Counts, TypeOK
  <2>5. CutsEnd'
    BY <1>1, <1>2, <2>1 DEF CutsEnd
  <2>6. Behind'
    <3>1. SUFFICES ASSUME ~torn' PROVE IsPrefix(received', begun')
      BY <1>2 DEF Behind
    <3>2. IsPrefix(received, begun) /\ Len(received) < Len(begun)
      BY <1>1, <1>2, <3>1 DEF Behind
    <3>3. PICK A : A = Seq(Byte) \cup Messages
      OBVIOUS
    <3>4. received \in Seq(A) /\ begun \in Seq(A)
      BY <1>1, <3>3 DEF TypeOK
    <3>5. IsPrefix(received, Front(begun))
      BY <1>3, <3>2, <3>4, FrontIs
    <3>6. QED BY <1>2, <2>1, <3>5, Zenon
  <2>7. OnItsWay'
    <3>1. SUFFICES ASSUME ~torn', "in" \notin cut'
                   PROVE  Way(begun, received, ReadOf(in), stream, RestOf(out, begun), cut, in)'
      BY DEF OnItsWay
    <3>2. ~torn /\ "in" \notin cut /\ "out" \notin cut
      BY <1>1, <1>2, <2>1, <3>1 DEF CutsEnd
    <3>3. PICK m \in Messages : m = Last(begun)
      BY <1>3, LastBegun
    <3>4. PICK l \in Seq(Byte) : out.left = l /\ Len(l) = SizeLen
      BY <1>1, <1>2, <1>7, OutIs
    <3>5. PICK s \in Seq(Byte) : /\ s = serialize(Wrap(Len(m)), SizeLen) /\ Len(s) = SizeLen
                                 /\ Frame(m) = s \o m
      BY FrameIs
    <3>6. PICK done \in Seq(Byte) : done \o l = s
      BY <1>1, <1>2, <1>7, <3>3, <3>4, <3>5 DEF Sending
    <3>7. l = s
      <4>1. Len(done \o l) = Len(done) + Len(l) /\ Len(done) \in Nat
        BY ONLY done \in Seq(Byte), l \in Seq(Byte), BytesConcat
      <4>2. Len(done) = 0
        BY <3>4, <3>5, <3>6, <4>1, BoundsAssumption, WidthAssumption
      <4>3. done = << >>
        BY <4>2
      <4>4. << >> \o l = l
        OBVIOUS
      <4>5. QED BY <3>6, <4>3, <4>4
    <3>8. RestOf(out, begun) = Frame(Last(begun))
      BY <1>2, <1>7, <3>3, <3>4, <3>5, <3>7, Zenon DEF RestOf
    <3>9. Len(received) < Len(begun)
      BY <1>1, <1>2, <3>2 DEF Behind
    <3>10. in # Idle /\ in.phase = "data" => ReadOf(in) # << >>
      <4>1. SUFFICES ASSUME in # Idle, in.phase = "data" PROVE ReadOf(in) # << >>
        OBVIOUS
      <4>2. PICK size \in Nat, got \in Seq(Byte) : in.size = size /\ in.got = got
        BY <1>1, <4>1, InIs
      <4>3. PICK x \in Seq(Byte) : x = serialize(size, SizeLen) /\ Len(x) = SizeLen
        BY SizeComesBack, WidthAssumption
      <4>4. ReadOf(in) = x \o got
        BY <4>1, <4>2, <4>3 DEF ReadOf
      <4>5. Len(x \o got) = SizeLen + Len(got) /\ Len(got) \in Nat
        BY ONLY x \in Seq(Byte), got \in Seq(Byte), <4>3, BytesConcat
      <4>6. Len(x \o got) # 0
        BY <4>5, BoundsAssumption, WidthAssumption
      <4>7. QED BY <4>4, <4>6
    <3>11. Way(begun, received, ReadOf(in), stream, Frame(Last(begun)), cut, in)
      BY <1>1, <3>2, <3>8 DEF OnItsWay
    <3>12. Parts(begun, received, ReadOf(in), stream, Frame(Last(begun)))
      BY <3>8, PartsOf
    <3>13. Way(Front(begun), received, ReadOf(in), stream, << >>, cut, in)
      BY <3>2, <3>9, <3>10, <3>11, <3>12, WayUnbegin
    <3>14. QED BY <1>2, <1>4, <2>1, <3>13, Zenon
  <2>8. QED BY <1>6, <2>3, <2>4, <2>5, <2>6, <2>7 DEF IInv
<1>8. CASE ~ (out.phase = "size" /\ Len(out.left) = SizeLen)
  <2>1. begun' = begun /\ cut' = cut \cup {"out"}
    BY <1>8, Zenon DEF WriteFails
  <2>2. TypeOK'
    <3>1. cut' \subseteq {"out", "in"}
      BY <1>1, <2>1 DEF TypeOK
    <3>2. QED BY <1>1, <1>2, <1>5, <2>1, <3>1 DEF TypeOK
  <2>3. Counts'
    BY <1>1, <1>2, <2>1 DEF Counts
  <2>4. CutsEnd'
    BY <1>1, <1>2, <2>1 DEF CutsEnd
  <2>5. Behind'
    BY <1>1, <1>2, <2>1 DEF Behind
  <2>6. OnItsWay'
    <3>1. SUFFICES ASSUME ~torn', "in" \notin cut'
                   PROVE  Way(begun, received, ReadOf(in), stream, RestOf(out, begun), cut, in)'
      BY DEF OnItsWay
    <3>2. ~torn /\ "in" \notin cut
      BY <1>2, <2>1, <3>1
    <3>3. Way(begun, received, ReadOf(in), stream, RestOf(out, begun), cut, in)
      BY <1>1, <3>2 DEF OnItsWay
    <3>4. Way(begun, received, ReadOf(in), stream, << >>, cut \cup {"out"}, in)
      BY <3>3, WayCut, Zenon
    <3>5. QED BY <1>2, <1>4, <2>1, <3>4, Zenon
  <2>7. QED BY <1>6, <2>2, <2>3, <2>4, <2>5, <2>6 DEF IInv
<1>9. QED BY <1>7, <1>8

\* What a receive has done after a piece w, with g in its buffer then.
LEMMA AfterReadIs ==
    ASSUME IInv, NEW ph \in {"size", "data"}, NEW size \in Nat, NEW got \in Seq(Byte),
           in = [phase |-> ph, size |-> size, got |-> got],
           NEW g \in Seq(Byte), Len(g) <= size,
           NEW i, i = AfterRead(g)
    PROVE  \/ /\ Len(g) < size
              /\ i = [phase |-> ph, size |-> size, got |-> g]
           \/ /\ Len(g) = size /\ ph = "size" /\ size = SizeLen /\ deserialize(g) > 0
              /\ i = [phase |-> "data", size |-> deserialize(g), got |-> << >>]
           \/ /\ Len(g) = size /\ ph = "size" /\ size = SizeLen /\ deserialize(g) = 0
              /\ i = Idle
           \/ /\ Len(g) = size /\ ph = "data"
              /\ i = Idle
<1>1. in.phase = ph /\ in.size = size /\ in # Idle
  BY NotIdle
<1>2. ph = "size" => size = SizeLen
  BY <1>1 DEF IInv, Receiving
<1>3. PICK v \in Nat : v = deserialize(g)
  BY DeserializeType
<1>4. CASE Len(g) < size
  <2>1. i = [in EXCEPT !.got = g]
    BY <1>1, <1>4 DEF AfterRead
  <2>2. QED BY <1>4, <2>1
<1>5. CASE Len(g) = size /\ ph = "size" /\ v > 0
  <2>1. i = [phase |-> "data", size |-> v, got |-> << >>]
    BY <1>1, <1>3, <1>5 DEF AfterRead
  <2>2. QED BY <1>2, <1>3, <1>5, <2>1
<1>6. CASE Len(g) = size /\ ph = "size" /\ v = 0
  <2>1. i = Idle
    BY <1>1, <1>3, <1>6 DEF AfterRead
  <2>2. QED BY <1>2, <1>3, <1>6, <2>1
<1>7. CASE Len(g) = size /\ ph = "data"
  <2>1. i = Idle
    BY <1>1, <1>3, <1>7 DEF AfterRead
  <2>2. QED BY <1>7, <2>1
<1>8. Len(g) < size \/ Len(g) = size
  OBVIOUS
<1>9. v > 0 \/ v = 0
  BY <1>3
<1>10. QED BY <1>4, <1>5, <1>6, <1>7, <1>8, <1>9, Zenon

\* A piece goes from the stream to the receiver, and may complete what it is
\* part of: a size, an empty message, or a message.
LEMMA ReadSomeStep ==
    ASSUME IInv, ReadSome
    PROVE  IInv'
<1>1. TypeOK /\ Sending /\ Receiving /\ Counts /\ CutsEnd /\ Behind /\ OnItsWay
  BY DEF IInv
<1>2. /\ in # Idle
      /\ out' = out /\ begun' = begun /\ sent' = sent /\ asked' = asked
      /\ cut' = cut /\ torn' = torn
  BY Zenon DEF ReadSome
<1>3. PICK ph \in {"size", "data"}, size \in Nat, got \in Seq(Byte) :
         in = [phase |-> ph, size |-> size, got |-> got]
  BY <1>1, <1>2, InIs
<1>4. in.phase = ph /\ in.size = size /\ in.got = got
  BY <1>3
<1>5. PICK n \in 1 .. MaxBuffer :
         /\ n <= size - Len(got) /\ n <= Len(stream)
         /\ stream' = SubSeq(stream, n + 1, Len(stream))
         /\ in' = AfterRead(got \o SubSeq(stream, 1, n))
         /\ received' = (IF in' # Idle THEN received
                         ELSE Append(received, IF ph = "data" THEN got \o SubSeq(stream, 1, n)
                                               ELSE << >>))
  BY <1>4, Zenon DEF ReadSome
<1>6. PICK w \in Seq(Byte), st \in Seq(Byte) :
         /\ stream = w \o st /\ Len(w) = n
         /\ w = SubSeq(stream, 1, n) /\ st = SubSeq(stream, n + 1, Len(stream))
  <2>1. stream \in Seq(Byte) /\ n \in 0 .. Len(stream)
    BY <1>1, <1>5, BoundsAssumption, WidthAssumption DEF TypeOK
  <2>2. PICK w, st : w = SubSeq(stream, 1, n) /\ st = SubSeq(stream, n + 1, Len(stream))
    OBVIOUS
  <2>3. w \in Seq(Byte) /\ st \in Seq(Byte) /\ stream = w \o st /\ Len(w) = n
    BY <2>1, <2>2, TwoParts
  <2>4. QED BY <2>2, <2>3, Zenon
<1>7. PICK g \in Seq(Byte) : g = got \o w /\ Len(g) <= size
  <2>1. Len(got \o w) = Len(got) + n /\ got \o w \in Seq(Byte) /\ Len(got) \in Nat
    <3>1. Len(got \o w) = Len(got) + Len(w) /\ got \o w \in Seq(Byte) /\ Len(got) \in Nat
      BY ONLY got \in Seq(Byte), w \in Seq(Byte)
    <3>2. QED BY <1>6, <3>1, Zenon
  <2>2. Len(got) + n <= size
    BY <1>5, <2>1, BoundsAssumption, WidthAssumption
  <2>3. Len(got \o w) <= size
    BY <2>1, <2>2
  <2>4. QED BY <2>1, <2>3
<1>8. PICK i : i = AfterRead(g)
  OBVIOUS
<1>9. /\ stream' = st /\ in' = i
      /\ received' = (IF i # Idle THEN received
                      ELSE Append(received, IF ph = "data" THEN g ELSE << >>))
  BY <1>5, <1>6, <1>7, <1>8, Zenon
<1>10. \/ /\ Len(g) < size
          /\ i = [phase |-> ph, size |-> size, got |-> g]
       \/ /\ Len(g) = size /\ ph = "size" /\ size = SizeLen /\ deserialize(g) > 0
          /\ i = [phase |-> "data", size |-> deserialize(g), got |-> << >>]
       \/ /\ Len(g) = size /\ ph = "size" /\ size = SizeLen /\ deserialize(g) = 0
          /\ i = Idle
       \/ /\ Len(g) = size /\ ph = "data"
          /\ i = Idle
  BY <1>3, <1>7, <1>8, AfterReadIs, ZenonT(60)
<1>11. ph = "size" => size = SizeLen
  BY <1>1, <1>2, <1>4 DEF Receiving
<1>12. PICK v \in Nat : v = deserialize(g)
  BY DeserializeType
<1>13. TypeOK'
  <2>1. i \in {Idle} \cup [phase : {"size", "data"}, size : Nat, got : Seq(Byte)]
    <3>1. \/ i = [phase |-> ph, size |-> size, got |-> g]
          \/ i = [phase |-> "data", size |-> v, got |-> << >>]
          \/ i = Idle
      BY <1>10, <1>12, Zenon
    <3>2. << >> \in Seq(Byte)
      OBVIOUS
    <3>3. CASE i = [phase |-> ph, size |-> size, got |-> g]
      BY <3>3
    <3>4. CASE i = [phase |-> "data", size |-> v, got |-> << >>]
      BY <3>2, <3>4
    <3>5. CASE i = Idle
      BY <3>5
    <3>6. QED BY <3>1, <3>3, <3>4, <3>5
  <2>2. received' \in Seq(Seq(Byte))
    <3>1. PICK a \in Seq(Byte) : a = IF ph = "data" THEN g ELSE << >>
      <4>1. (IF ph = "data" THEN g ELSE << >>) \in Seq(Byte)
        OBVIOUS
      <4>2. QED BY <4>1
    <3>2. received' = IF i # Idle THEN received ELSE Append(received, a)
      BY <1>9, <3>1, Zenon
    <3>3. received \in Seq(Seq(Byte))
      BY <1>1 DEF TypeOK
    <3>4. Append(received, a) \in Seq(Seq(Byte))
      BY <3>3
    <3>5. QED BY <3>2, <3>3, <3>4
  <2>3. torn' \in BOOLEAN
    BY <1>1, <1>2, Zenon DEF TypeOK
  <2>4. QED BY <1>1, <1>2, <1>6, <1>9, <2>1, <2>2, <2>3 DEF TypeOK
<1>14. Sending'
  BY <1>1, <1>2, Zenon DEF Sending
<1>15. Receiving'
  <2>1. SUFFICES ASSUME i # Idle PROVE Len(i.got) < i.size /\ (i.phase = "size" => i.size = SizeLen)
    BY <1>9 DEF Receiving
  <2>2. CASE Len(g) < size /\ i = [phase |-> ph, size |-> size, got |-> g]
    BY <1>11, <2>2
  <2>3. CASE v > 0 /\ i = [phase |-> "data", size |-> v, got |-> << >>]
    <3>1. i.got = << >> /\ i.size = v /\ i.phase = "data"
      BY <2>3
    <3>2. QED BY <2>3, <3>1
  <2>4. QED BY <1>10, <1>12, <2>1, <2>2, <2>3
<1>16. Counts' /\ CutsEnd'
  BY <1>1, <1>2, <1>9 DEF Counts, CutsEnd
<1>17. ASSUME ~torn
       PROVE  /\ "in" \notin cut
              /\ Way(begun, received', ReadOf(i), st, RestOf(out, begun), cut, i)
  <2>1. "in" \notin cut
    BY <1>1, <1>2, <1>17 DEF CutsEnd
  <2>2. PICK un : un = RestOf(out, begun)
    OBVIOUS
  <2>3. PICK rd : rd = ReadOf(in)
    OBVIOUS
  <2>4. Way(begun, received, rd, w \o st, un, cut, in)
    BY <1>1, <1>6, <1>17, <2>1, <2>2, <2>3 DEF OnItsWay
  <2>5. /\ begun \in Seq(Messages) /\ received \in Seq(Seq(Byte))
        /\ rd \in Seq(Byte) /\ un \in Seq(Byte)
    BY <2>2, <2>3, PartsOf DEF Parts
  <2>6. Parts(begun, received, rd, st, un)
    BY <1>6, <2>5 DEF Parts
  <2>7. CASE ph = "size"
    <3>1. rd = got
      BY <1>2, <1>4, <2>3, <2>7 DEF ReadOf
    <3>2. ASSUME NEW j, j # Idle /\ j.phase = "data" => in # Idle /\ in.phase = "data" /\ in.size = j.size
          PROVE  Way(begun, received, g, st, un, cut, j)
      <4>1. Way(begun, received, rd \o w, st, un, cut, j)
        BY <2>4, <2>6, <3>2, WayRead
      <4>2. QED BY <1>7, <3>1, <4>1
    <3>3. CASE Len(g) < size /\ i = [phase |-> ph, size |-> size, got |-> g]
      <4>1. i # Idle /\ i.phase = "size" /\ i.got = g
        BY <2>7, <3>3, NotIdle
      <4>2. ReadOf(i) = g /\ received' = received
        BY <1>9, <4>1 DEF ReadOf
      <4>3. Way(begun, received, g, st, un, cut, i)
        BY <3>2, <4>1
      <4>4. QED BY <2>1, <2>2, <4>2, <4>3
    <3>4. ASSUME Len(g) = SizeLen
          PROVE  \E m \in Messages :
                    /\ g = serialize(Len(m), SizeLen) /\ v = Len(m)
                    /\ \A j : j.size = Len(m) => Way(begun, received, g, st, un, cut, j)
                    /\ m = << >> => Way(begun, Append(received, << >>), << >>, st, un, cut, Idle)
      <4>1. Way(begun, received, g, st, un, cut, in)
        BY <3>2
      <4>2. Parts(begun, received, g, st, un)
        BY <1>6, <1>7, <2>5 DEF Parts
      <4>3. QED BY <1>12, <3>4, <4>1, <4>2, WaySize
    <3>5. CASE Len(g) = SizeLen /\ v > 0 /\ i = [phase |-> "data", size |-> v, got |-> << >>]
      <4>1. PICK m \in Messages :
               /\ g = serialize(Len(m), SizeLen) /\ v = Len(m)
               /\ \A j : j.size = Len(m) => Way(begun, received, g, st, un, cut, j)
        BY <3>4, <3>5
      <4>2. i # Idle /\ i.phase = "data" /\ i.size = v /\ i.got = << >>
        BY <3>5, NotIdle
      <4>3. received' = received
        BY <1>9, <4>2
      <4>4. ReadOf(i) = g
        <5>1. ReadOf(i) = serialize(v, SizeLen) \o << >>
          BY <4>2 DEF ReadOf
        <5>2. g \o << >> = g
          OBVIOUS
        <5>3. QED BY <4>1, <5>1, <5>2
      <4>5. Way(begun, received, g, st, un, cut, i)
        BY <4>1, <4>2
      <4>6. QED BY <2>1, <2>2, <4>3, <4>4, <4>5
    <3>6. CASE Len(g) = SizeLen /\ v = 0 /\ i = Idle
      <4>1. PICK m \in Messages :
               /\ v = Len(m)
               /\ m = << >> => Way(begun, Append(received, << >>), << >>, st, un, cut, Idle)
        BY <3>4, <3>6
      <4>2. m = << >>
        <5>1. m \in Seq(Byte)
          BY FrameIs
        <5>2. QED BY <3>6, <4>1, <5>1
      <4>3. received' = Append(received, << >>) /\ ReadOf(i) = << >>
        BY <1>9, <2>7, <3>6 DEF ReadOf
      <4>4. QED BY <2>1, <2>2, <3>6, <4>1, <4>2, <4>3, Zenon
    <3>7. QED BY <1>10, <1>12, <2>7, <3>3, <3>5, <3>6
  <2>8. CASE ph = "data"
    <3>1. PICK s \in Seq(Byte) : s = serialize(size, SizeLen)
      BY SizeComesBack, WidthAssumption
    <3>2. rd = s \o got
      BY <1>2, <1>4, <2>3, <2>8, <3>1 DEF ReadOf
    <3>3. rd \o w = s \o g
      <4>1. (s \o got) \o w = s \o (got \o w)
        BY ONLY s \in Seq(Byte), got \in Seq(Byte), w \in Seq(Byte), BytesAssoc
      <4>2. QED BY <1>7, <3>2, <4>1
    <3>4. ASSUME NEW j, j # Idle, j.phase = "data", j.size = size
          PROVE  Way(begun, received, s \o g, st, un, cut, j)
      <4>1. Way(begun, received, rd \o w, st, un, cut, j)
        BY <1>2, <1>4, <2>4, <2>6, <2>8, <3>4, WayRead
      <4>2. QED BY <3>3, <4>1
    <3>5. CASE Len(g) < size /\ i = [phase |-> ph, size |-> size, got |-> g]
      <4>1. i # Idle /\ i.phase = "data" /\ i.size = size /\ i.got = g
        BY <2>8, <3>5, NotIdle
      <4>2. ReadOf(i) = s \o g /\ received' = received
        BY <1>9, <3>1, <4>1 DEF ReadOf
      <4>3. Way(begun, received, s \o g, st, un, cut, i)
        BY <3>4, <4>1
      <4>4. QED BY <2>1, <2>2, <4>2, <4>3
    <3>6. CASE Len(g) = size /\ i = Idle
      <4>1. received' = Append(received, g) /\ ReadOf(i) = << >>
        BY <1>9, <2>8, <3>6 DEF ReadOf
      <4>2. Way(begun, received, serialize(size, SizeLen) \o g, st, un, cut, in)
        BY <1>2, <1>4, <2>8, <3>1, <3>4
      <4>3. Parts(begun, received, g, st, un)
        BY <1>6, <1>7, <2>5 DEF Parts
      <4>4. Way(begun, Append(received, g), << >>, st, un, cut, Idle)
        BY <1>2, <1>4, <2>8, <3>6, <4>2, <4>3, WayData
      <4>5. QED BY <2>1, <2>2, <3>6, <4>1, <4>4, Zenon
    <3>7. QED BY <1>10, <2>8, <3>5, <3>6
  <2>9. QED BY <2>7, <2>8
<1>18. OnItsWay'
  BY <1>2, <1>9, <1>17, Zenon DEF OnItsWay
<1>19. Behind'
  <2>1. SUFFICES ASSUME ~torn'
                 PROVE  IsPrefix(received', begun) /\ (out # Idle => Len(received') < Len(begun))
    BY <1>2, Zenon DEF Behind
  <2>2. Way(begun, received', ReadOf(i), st, RestOf(out, begun), cut, i)
    BY <1>2, <1>17, <2>1
  <2>3. Parts(begun, received', ReadOf(i), st, RestOf(out, begun))
    <3>1. received' \in Seq(Seq(Byte))
      BY <1>13 DEF TypeOK
    <3>2. /\ begun \in Seq(Messages) /\ RestOf(out, begun) \in Seq(Byte)
      BY PartsOf DEF Parts
    <3>3. ReadOf(i) \in Seq(Byte)
      <4>1. CASE i = Idle
        BY <4>1 DEF ReadOf
      <4>2. CASE i # Idle
        <5>1. PICK p \in {"size", "data"}, z \in Nat, h \in Seq(Byte) :
                 i = [phase |-> p, size |-> z, got |-> h]
          <6>1. << >> \in Seq(Byte)
            OBVIOUS
          <6>2. QED BY <1>10, <1>12, <4>2, <6>1
        <5>2. PICK s \in Seq(Byte) : s = serialize(z, SizeLen)
          BY SizeComesBack, WidthAssumption
        <5>3. i.got = h /\ i.size = z /\ s \o h \in Seq(Byte)
          BY <5>1
        <5>4. QED BY <4>2, <5>2, <5>3 DEF ReadOf
      <4>3. QED BY <4>1, <4>2
    <3>4. QED BY <1>6, <3>1, <3>2, <3>3, Zenon DEF Parts
  <2>4. ASSUME out # Idle PROVE "out" \notin cut /\ RestOf(out, begun) # << >>
    <3>1. "out" \notin cut
      BY <1>1, <1>2, <2>1, <2>4 DEF CutsEnd
    <3>2. PICK l \in Seq(Byte) : out.left = l /\ l # << >>
      BY <1>1, <2>4, OutIs DEF Sending
    <3>3. PICK m \in Seq(Byte) : m = Last(begun)
      <4>1. begun \in Seq(Messages) /\ begun # << >>
        BY <1>1, <2>4 DEF TypeOK, Sending
      <4>2. QED BY <4>1, LastBegun
    <3>4. l \o m # << >>
      BY <3>2
    <3>5. QED BY <2>4, <3>1, <3>2, <3>3, <3>4 DEF RestOf
  <2>5. QED BY <2>2, <2>3, <2>4, WayBehind
<1>20. QED
  BY <1>13, <1>14, <1>15, <1>16, <1>18, <1>19 DEF IInv

\* Every step preserves the invariant.
LEMMA NextIInv ==
    ASSUME IInv, [Next]_vars
    PROVE  IInv'
<1>1. CASE \E m \in Messages : BeginSend(m)
  BY <1>1, BeginSendStep
<1>2. CASE WriteSome
  BY <1>2, WriteSomeStep
<1>3. CASE WriteFails
  BY <1>3, WriteFailsStep
<1>4. CASE BeginReceive
  BY <1>4, BeginReceiveStep
<1>5. CASE ReadSome
  BY <1>5, ReadSomeStep
<1>6. CASE ReadFails
  BY <1>6, ReadFailsStep
<1>7. CASE UNCHANGED vars
  <2>1. /\ out' = out /\ stream' = stream /\ in' = in
        /\ begun' = begun /\ sent' = sent /\ asked' = asked
        /\ received' = received /\ cut' = cut /\ torn' = torn
    BY <1>7, Zenon DEF vars, history
  <2>2. QED
    BY <2>1, Zenon DEF IInv, TypeOK, Sending, Receiving, Counts, CutsEnd, Behind, OnItsWay
<1>8. QED
  BY <1>1, <1>2, <1>3, <1>4, <1>5, <1>6, <1>7 DEF Next

\* Type correctness, and what is on its way at every moment.
THEOREM InvariantHolds == Spec => []IInv
<1>1. IInv /\ [Next]_vars => IInv'
  BY NextIInv
<1>2. QED BY InitIInv, <1>1, PTL DEF Spec

\* socket_receive answers with the messages of socket_send, in order and
\* undivided, unless an end that failed inside a frame is used again.
THEOREM FramingHolds == Spec => []Framing
<1>1. IInv => Framing
  BY DEF IInv, Behind, Framing
<1>2. QED BY InvariantHolds, <1>1, PTL

\* Conservation: with nothing cut the pending frames are the stream's.
LEMMA NothingLost == IInv => NothingLostInTheStream
<1>1. SUFFICES ASSUME IInv, cut = {}
               PROVE  Frames(begun) = Frames(received) \o Read \o stream \o Unwritten
  BY DEF NothingLostInTheStream, IInv
<1>2. TypeOK /\ CutsEnd /\ OnItsWay
  BY <1>1 DEF IInv
<1>3. ~torn /\ "in" \notin cut /\ "out" \notin cut
  BY <1>1, <1>2 DEF CutsEnd
<1>4. PICK un \in Seq(Byte), rd \in Seq(Byte) : un = RestOf(out, begun) /\ rd = ReadOf(in)
  BY <1>1, PartsOf DEF Parts
<1>5. Unwritten = un
  <2>1. out = Idle \/ out.phase \in {"size", "data"}
    BY <1>2, OutIs
  <2>2. CASE out = Idle
    BY <1>4, <2>2 DEF Unwritten, RestOf
  <2>3. CASE out # Idle /\ out.phase = "size"
    BY <1>4, <2>3 DEF Unwritten, RestOf
  <2>4. CASE out # Idle /\ out.phase = "data"
    BY <1>4, <2>4 DEF Unwritten, RestOf
  <2>5. QED BY <2>1, <2>2, <2>3, <2>4
<1>6. Read = rd
  <2>1. in = Idle \/ in.phase \in {"size", "data"}
    BY <1>2, InIs
  <2>2. CASE in = Idle
    BY <1>4, <2>2 DEF Read, ReadOf
  <2>3. CASE in # Idle /\ in.phase = "size"
    BY <1>4, <2>3 DEF Read, ReadOf
  <2>4. CASE in # Idle /\ in.phase = "data"
    BY <1>4, <2>4 DEF Read, ReadOf
  <2>5. QED BY <2>1, <2>2, <2>3, <2>4
<1>7. PICK pending \in Seq(Messages) :
         begun = received \o pending /\ Frames(pending) = rd \o (stream \o un)
  BY <1>2, <1>3, <1>4 DEF OnItsWay, Way
<1>8. received \in Seq(Messages)
  <2>1. PICK n \in Nat : n = Len(received) /\ received \in Seq(Seq(Byte))
    BY <1>2 DEF TypeOK
  <2>2. PICK A : A = Seq(Byte) \cup Messages
    OBVIOUS
  <2>3. received \in Seq(A) /\ pending \in Seq(A)
    BY <2>1, <2>2
  <2>4. \A k \in 1 .. n : received[k] = begun[k] /\ k \in 1 .. Len(begun)
    <3>1. Len(begun) = n + Len(pending) /\ Len(pending) \in Nat
          /\ \A k \in 1 .. n : begun[k] = received[k]
      BY <1>7, <2>1, <2>3, ConcatIs
    <3>2. QED BY <3>1
  <2>5. \A k \in 1 .. n : received[k] \in Messages
    BY <1>2, <2>4 DEF TypeOK
  <2>6. QED BY <2>1, <2>5
<1>9. Frames(begun) = Frames(received) \o Frames(pending) /\ Frames(received) \in Seq(Byte)
  BY <1>7, <1>8, FramesConcat
<1>10. PICK f \in Seq(Byte), st \in Seq(Byte) : f = Frames(received) /\ st = stream
  BY <1>2, <1>9 DEF TypeOK
<1>11. f \o (rd \o (st \o un)) = ((f \o rd) \o st) \o un
  BY ONLY f \in Seq(Byte), rd \in Seq(Byte), st \in Seq(Byte), un \in Seq(Byte)
<1>12. QED BY <1>5, <1>6, <1>7, <1>9, <1>10, <1>11

\* While nothing is cut no byte is lost, made up or moved between the two ends.
THEOREM NothingLostHolds == Spec => []NothingLostInTheStream
BY InvariantHolds, NothingLost, PTL

-----------------------------------------------------------------------------
(* Bodies: what lies at an end *)

Ends == {"front", "back"}

\* What a pop that succeeds gives.
Got(body, value) == [ok |-> TRUE, body |-> body, value |-> value]

\* What such a pop gives, part by part.
LEMMA GotIs ==
    \A body, value : /\ Got(body, value).ok = TRUE
                     /\ Got(body, value).body = body /\ Got(body, value).value = value
BY DEF Got

\* The two parts of a concatenation.
LEMMA PartsOfConcat ==
    ASSUME NEW B, NEW a \in Seq(B), NEW b \in Seq(B), NEW s, s = a \o b
    PROVE  a = SubSeq(s, 1, Len(a)) /\ b = SubSeq(s, Len(a) + 1, Len(s))
OBVIOUS

\* Bytes that are put at an end and taken off again leave what was there.
LEMMA PushedIsPopped ==
    ASSUME NEW end \in Ends, NEW body \in Seq(Byte), NEW bytes \in Seq(Byte),
           NEW old \in Seq(Byte), Len(old) = Len(bytes)
    PROVE  /\ PushBytes(end, body, bytes) \in Seq(Byte)
           /\ PopBytes(end, PushBytes(end, body, bytes), old) = Got(body, bytes)
<1>1. PICK m \in Nat, n \in Nat : m = Len(body) /\ n = Len(bytes)
  OBVIOUS
<1>2. PICK s : s = PushBytes(end, body, bytes)
  OBVIOUS
<1>3. s \in Seq(Byte) /\ Len(s) = m + n
  BY <1>1, <1>2, BytesConcat DEF PushBytes
<1>4. PICK k \in Nat : k = Len(old) /\ k = n
  BY <1>1
<1>5. CASE end = "back"
  <2>1. s = body \o bytes
    BY <1>2, <1>5 DEF PushBytes
  <2>2. body = SubSeq(s, 1, Len(body)) /\ bytes = SubSeq(s, Len(body) + 1, Len(s))
    BY <1>3, <2>1
  <2>3. ~ (m + n < n) /\ (m + n) - n = m
    OBVIOUS
  <2>4. PopBytes(end, s, old) = Got(body, bytes)
    BY <1>1, <1>3, <1>4, <1>5, <2>2, <2>3, Zenon DEF PopBytes, Got
  <2>5. QED BY <1>2, <1>3, <2>4
<1>6. CASE end # "back"
  <2>1. s = bytes \o body
    BY <1>2, <1>6 DEF PushBytes
  <2>2. bytes = SubSeq(s, 1, Len(bytes)) /\ body = SubSeq(s, Len(bytes) + 1, Len(s))
    BY <1>3, <2>1
  <2>3. ~ (m + n < n)
    OBVIOUS
  <2>4. PopBytes(end, s, old) = Got(body, bytes)
    BY <1>1, <1>3, <1>4, <1>6, <2>2, <2>3, Zenon DEF PopBytes, Got
  <2>5. QED BY <1>2, <1>3, <2>4
<1>7. QED BY <1>5, <1>6

\* The orders of the loops: one is the other one backwards.
LEMMA OrderIs ==
    ASSUME NEW end \in Ends, NEW n \in Nat, NEW i \in 1 .. n
    PROVE  /\ PushOrder(end, n)[i] = IF end = "back" THEN i ELSE n + 1 - i
           /\ PushOrder(end, n)[i] \in 1 .. n /\ PopOrder(end, n)[i] \in 1 .. n
           /\ n + 1 - i \in 1 .. n /\ PopOrder(end, n)[i] = PushOrder(end, n)[n + 1 - i]
<1>1. n + 1 - i \in 1 .. n /\ n + 1 - (n + 1 - i) = i
  OBVIOUS
<1>2. CASE end = "back"
  BY <1>1, <1>2 DEF PushOrder, PopOrder, Upwards, Downwards
<1>3. CASE end # "back"
  BY <1>1, <1>3 DEF PushOrder, PopOrder, Upwards, Downwards
<1>4. QED BY <1>2, <1>3

\* A sequence of sequences that begins with s.
LEMMA FlattenFront ==
    ASSUME NEW B, NEW s \in Seq(B), NEW ss \in Seq(Seq(B))
    PROVE  /\ FlattenSeq(ss) \in Seq(B)
           /\ FlattenSeq(<<s>> \o ss) = s \o FlattenSeq(ss)
<1>1. << >> \in Seq(Seq(B)) /\ <<s>> \in Seq(Seq(B)) /\ <<s>> = Append(<< >>, s)
  OBVIOUS
<1>2. FlattenSeq(<<s>>) = s
  <2>1. FlattenSeq(Append(<< >>, s)) = FlattenSeq(<< >>) \o s
    BY <1>1, FlattenProperties
  <2>2. FlattenSeq(<< >>) = << >>
    BY FlattenEmpty
  <2>3. << >> \o s = s
    OBVIOUS
  <2>4. QED BY <1>1, <2>1, <2>2, <2>3
<1>3. FlattenSeq(<<s>> \o ss) = FlattenSeq(<<s>>) \o FlattenSeq(ss)
  BY <1>1, FlattenConcat
<1>4. FlattenSeq(ss) \in Seq(B)
  BY FlattenProperties
<1>5. QED BY <1>2, <1>3, <1>4

\* The pieces that have been pushed at an end after i turns.
Pushed(end, enc, i) ==
    IF end = "back" THEN SubSeq(enc, 1, i) ELSE SubSeq(enc, Len(enc) + 1 - i, Len(enc))

\* One turn more.
LEMMA PushedMore ==
    ASSUME NEW end \in Ends, NEW enc \in Seq(Seq(Byte)), NEW i \in Nat, i < Len(enc),
           NEW body \in Seq(Byte), NEW x \in 1 .. Len(enc), x = PushOrder(end, Len(enc))[i + 1]
    PROVE  /\ FlattenSeq(Pushed(end, enc, i)) \in Seq(Byte)
           /\ PushBytes(end, PushBytes(end, body, FlattenSeq(Pushed(end, enc, i))), enc[x])
                 = PushBytes(end, body, FlattenSeq(Pushed(end, enc, i + 1)))
<1>1. PICK n \in Nat : n = Len(enc)
  OBVIOUS
<1>2. PICK p \in Seq(Seq(Byte)) : p = Pushed(end, enc, i)
  <2>1. SubSeq(enc, 1, i) \in Seq(Seq(Byte))
    OBVIOUS
  <2>2. SubSeq(enc, n + 1 - i, n) \in Seq(Seq(Byte))
    BY <1>1
  <2>3. QED BY <1>1, <2>1, <2>2 DEF Pushed
<1>3. FlattenSeq(p) \in Seq(Byte) /\ enc[x] \in Seq(Byte)
  <2>1. enc[x] \in Seq(Byte)
    BY ElementOfSeq
  <2>2. QED BY <2>1, FlattenFront
<1>4. CASE end = "back"
  <2>1. x = i + 1
    BY <1>4 DEF PushOrder, Upwards
  <2>2. Pushed(end, enc, i + 1) = Append(p, enc[x])
    <3>1. Pushed(end, enc, i + 1) = SubSeq(enc, 1, i + 1) /\ p = SubSeq(enc, 1, i)
      BY <1>2, <1>4 DEF Pushed
    <3>2. SubSeq(enc, 1, i + 1) = Append(SubSeq(enc, 1, i), enc[i + 1])
      <4>1. 1 \in 1 .. Len(enc) /\ i + 1 \in 1 .. Len(enc) /\ (i + 1) - 1 = i
        BY <1>1
      <4>2. SubSeq(enc, 1, i + 1) = SubSeq(enc, 1, i) \o <<enc[i + 1]>>
        BY <4>1, SubSeqRecursiveSecond
      <4>3. enc[i + 1] \in Seq(Byte) /\ SubSeq(enc, 1, i) \in Seq(Seq(Byte))
        <5>1. SubSeq(enc, 1, i) \in Seq(Seq(Byte))
          OBVIOUS
        <5>2. QED BY <4>1, <5>1, ElementOfSeq
      <4>4. QED BY <4>2, <4>3, AppendIsConcat
    <3>3. QED BY <2>1, <3>1, <3>2
  <2>3. FlattenSeq(Append(p, enc[x])) = FlattenSeq(p) \o enc[x]
    BY <1>3, FlattenProperties
  <2>4. PICK f \in Seq(Byte), e \in Seq(Byte) : f = FlattenSeq(p) /\ e = enc[x]
    BY <1>3
  <2>5. PushBytes(end, PushBytes(end, body, f), e) = PushBytes(end, body, f \o e)
    BY <1>4, BytesAssoc DEF PushBytes
  <2>6. QED BY <1>2, <2>2, <2>3, <2>4, <2>5
<1>5. CASE end # "back"
  <2>1. x = n - i /\ n - i \in 1 .. n
    <3>1. i + 1 \in 1 .. n
      BY <1>1
    <3>2. x = n + 1 - (i + 1)
      BY <1>1, <1>5, <3>1 DEF PushOrder, Downwards
    <3>3. QED BY <1>1, <3>2
  <2>2. Pushed(end, enc, i + 1) = <<enc[x]>> \o p
    <3>1. Pushed(end, enc, i + 1) = SubSeq(enc, n - i, n) /\ p = SubSeq(enc, n - i + 1, n)
      <4>1. n + 1 - (i + 1) = n - i /\ n + 1 - i = n - i + 1
        BY <1>1
      <4>2. QED BY <1>1, <1>2, <1>5, <4>1, Zenon DEF Pushed
    <3>2. SubSeq(enc, n - i, n) = <<enc[n - i]>> \o SubSeq(enc, n - i + 1, n)
      <4>1. n - i \in 1 .. Len(enc) /\ n \in (n - i) .. Len(enc)
        BY <1>1, <2>1
      <4>2. QED BY <4>1, SubSeqRecursiveFirst
    <3>3. QED BY <2>1, <3>1, <3>2
  <2>3. FlattenSeq(<<enc[x]>> \o p) = enc[x] \o FlattenSeq(p)
    BY <1>3, FlattenFront
  <2>4. PICK f \in Seq(Byte), e \in Seq(Byte) : f = FlattenSeq(p) /\ e = enc[x]
    BY <1>3
  <2>5. PushBytes(end, PushBytes(end, body, f), e) = PushBytes(end, body, e \o f)
    BY <1>5, BytesAssoc DEF PushBytes
  <2>6. QED BY <1>2, <2>2, <2>3, <2>4, <2>5
<1>6. QED BY <1>4, <1>5

\* A loop that pushes n pieces in PushOrder leaves them in their own order.
LEMMA PushedAll ==
    ASSUME NEW end \in Ends, NEW enc \in Seq(Seq(Byte)), NEW body \in Seq(Byte),
           NEW n \in Nat, n = Len(enc), NEW g, g[0] = body,
           \A i \in 1 .. n : g[i] = PushBytes(end, g[i - 1], enc[PushOrder(end, n)[i]])
    PROVE  /\ \A i \in 0 .. n : g[i] \in Seq(Byte)
           /\ g[n] = PushBytes(end, body, FlattenSeq(enc))
<1>1. PICK S : S = {i \in Nat : i <= n =>
               /\ g[i] \in Seq(Byte)
               /\ g[i] = PushBytes(end, body, FlattenSeq(Pushed(end, enc, i)))}
  OBVIOUS
<1>2. 0 \in S
  <2>1. Pushed(end, enc, 0) = << >>
    BY DEF Pushed
  <2>2. FlattenSeq(<< >>) = << >>
    BY FlattenEmpty
  <2>3. PushBytes(end, body, << >>) = body
    BY DEF PushBytes
  <2>4. QED BY <1>1, <2>1, <2>2, <2>3
<1>3. ASSUME NEW i \in Nat, i \in S PROVE i + 1 \in S
  <2>1. SUFFICES ASSUME i < n
                 PROVE  /\ g[i + 1] \in Seq(Byte)
                        /\ g[i + 1] = PushBytes(end, body, FlattenSeq(Pushed(end, enc, i + 1)))
    BY <1>1
  <2>2. PICK x \in 1 .. n : x = PushOrder(end, n)[i + 1]
    <3>1. i + 1 \in 1 .. n
      BY <2>1
    <3>2. PushOrder(end, n)[i + 1] \in 1 .. n
      BY <3>1, OrderIs
    <3>3. QED BY <3>2
  <2>3. g[i + 1] = PushBytes(end, g[i], enc[x])
    BY <2>1, <2>2
  <2>4. g[i] \in Seq(Byte) /\ g[i] = PushBytes(end, body, FlattenSeq(Pushed(end, enc, i)))
    BY <1>1, <1>3, <2>1
  <2>5. g[i + 1] = PushBytes(end, body, FlattenSeq(Pushed(end, enc, i + 1)))
    <3>1. i < Len(enc) /\ x \in 1 .. Len(enc) /\ x = PushOrder(end, Len(enc))[i + 1]
      BY <2>1, <2>2
    <3>2. PushBytes(end, PushBytes(end, body, FlattenSeq(Pushed(end, enc, i))), enc[x])
             = PushBytes(end, body, FlattenSeq(Pushed(end, enc, i + 1)))
      BY <3>1, PushedMore
    <3>3. QED BY <2>3, <2>4, <3>2
  <2>6. enc[x] \in Seq(Byte)
    BY <2>2
  <2>7. g[i + 1] \in Seq(Byte)
    BY <2>3, <2>4, <2>6, BytesAssoc DEF PushBytes
  <2>8. QED BY <2>5, <2>7
<1>4. \A i \in Nat : i \in S
  BY <1>2, <1>3, SetInduction
<1>5. Pushed(end, enc, n) = enc
  BY DEF Pushed
<1>6. QED BY <1>1, <1>4, <1>5

\* g are the bodies of such a loop.
Pushing(g, end, enc, body, n) ==
    g = [i \in 0 .. n |-> IF i = 0 THEN body
                          ELSE PushBytes(end, g[i - 1], enc[PushOrder(end, n)[i]])]

\* There is such a loop.
LEMMA PushLoop ==
    ASSUME NEW end \in Ends, NEW enc \in Seq(Seq(Byte)), NEW body \in Seq(Byte),
           NEW n \in Nat, n = Len(enc)
    PROVE  \E g \in [0 .. n -> Seq(Byte)] : Pushing(g, end, enc, body, n)
<1>1. PICK g : g = [i \in 0 .. n |-> PushBytes(end, body, FlattenSeq(Pushed(end, enc, i)))]
  OBVIOUS
<1>2. g[0] = body
  <2>1. Pushed(end, enc, 0) = << >>
    BY DEF Pushed
  <2>2. FlattenSeq(<< >>) = << >>
    BY FlattenEmpty
  <2>3. PushBytes(end, body, << >>) = body
    BY DEF PushBytes
  <2>4. 0 \in 0 .. n
    OBVIOUS
  <2>5. QED BY <1>1, <2>1, <2>2, <2>3, <2>4
<1>3. ASSUME NEW i \in 0 .. n, i # 0
      PROVE  g[i] = PushBytes(end, g[i - 1], enc[PushOrder(end, n)[i]])
  <2>1. PICK j \in Nat : j = i - 1 /\ i = j + 1 /\ j < n /\ j \in 0 .. n
    <3>1. i - 1 \in Nat /\ i = (i - 1) + 1 /\ i - 1 < n /\ i - 1 \in 0 .. n
      BY <1>3
    <3>2. QED BY <3>1
  <2>2. PICK x \in 1 .. n : x = PushOrder(end, n)[j + 1]
    <3>1. j + 1 \in 1 .. n
      BY <2>1
    <3>2. PushOrder(end, n)[j + 1] \in 1 .. n
      BY <3>1, OrderIs
    <3>3. QED BY <3>2
  <2>3. j < Len(enc) /\ x \in 1 .. Len(enc) /\ x = PushOrder(end, Len(enc))[j + 1]
    BY <2>1, <2>2
  <2>4. PushBytes(end, PushBytes(end, body, FlattenSeq(Pushed(end, enc, j))), enc[x])
           = PushBytes(end, body, FlattenSeq(Pushed(end, enc, j + 1)))
    BY <2>3, PushedMore
  <2>5. QED BY <1>1, <2>1, <2>2, <2>4
<1>4. g = [i \in 0 .. n |-> IF i = 0 THEN body
                            ELSE PushBytes(end, g[i - 1], enc[PushOrder(end, n)[i]])]
  BY <1>1, <1>2, <1>3
<1>5. \A i \in 1 .. n : g[i] = PushBytes(end, g[i - 1], enc[PushOrder(end, n)[i]])
  <2> TAKE i \in 1 .. n
  <2>1. i \in 0 .. n /\ i # 0
    OBVIOUS
  <2>2. QED BY <1>3, <2>1
<1>6. \A i \in 0 .. n : g[i] \in Seq(Byte)
  BY <1>2, <1>5, PushedAll, Zenon
<1>7. g \in [0 .. n -> Seq(Byte)]
  BY <1>1, <1>6
<1>8. QED BY <1>4, <1>7 DEF Pushing

\* What lies between two sizes are bytes.
LEMMA BetweenType ==
    ASSUME NEW enc \in Seq(Seq(Byte)), NEW len \in Nat
    PROVE  Between(len, enc) \in Seq(Byte)
<1>1. PICK size \in Seq(Byte) : size = serialize(Len(enc), len)
  BY SizeComesBack
<1>2. PICK f \in Seq(Byte) : f = FlattenSeq(enc)
  BY FlattenProperties, EmptySeq
<1>3. PICK sf \in Seq(Byte) : sf = size \o f
  BY BytesAssoc
<1>4. sf \o size \in Seq(Byte)
  BY BytesAssoc
<1>5. QED BY <1>1, <1>2, <1>3, <1>4 DEF Between

\* They are pushed in three steps.
LEMMA PushedBetween ==
    ASSUME NEW end \in Ends, NEW enc \in Seq(Seq(Byte)), NEW body \in Seq(Byte),
           NEW len \in Nat, NEW size, size = serialize(Len(enc), len)
    PROVE  /\ size \in Seq(Byte) /\ Between(len, enc) \in Seq(Byte)
           /\ FlattenSeq(enc) \in Seq(Byte)
           /\ Between(len, enc) = size \o (FlattenSeq(enc) \o size)
           /\ PushBytes(end, PushBytes(end, PushBytes(end, body, size), FlattenSeq(enc)), size)
                 = PushBytes(end, body, Between(len, enc))
<1>1. size \in Seq(Byte)
  BY SizeComesBack
<1>2. PICK f \in Seq(Byte) : f = FlattenSeq(enc)
  BY FlattenProperties, EmptySeq
<1>3. Between(len, enc) = (size \o f) \o size
  BY <1>1, <1>2, BytesAssoc DEF Between
<1>4. (size \o f) \o size = size \o (f \o size) /\ size \o f \in Seq(Byte)
  BY <1>1, <1>2, BytesAssoc
<1>5. size \o (f \o size) \in Seq(Byte)
  BY <1>1, <1>2, BytesAssoc
<1>6. CASE end = "back"
  <2>1. ((body \o size) \o f) \o size = body \o ((size \o f) \o size)
    <3>1. ((body \o size) \o f) \o size = (body \o (size \o f)) \o size
      BY <1>1, <1>2, BytesAssoc
    <3>2. PICK sf \in Seq(Byte) : sf = size \o f
      BY <1>4
    <3>3. (body \o sf) \o size = body \o (sf \o size)
      BY <1>1, BytesAssoc
    <3>4. QED BY <3>1, <3>2, <3>3
  <2>2. QED BY <1>1, <1>2, <1>3, <1>4, <1>5, <1>6, <2>1 DEF PushBytes
<1>7. CASE end # "back"
  <2>1. size \o (f \o (size \o body)) = (size \o (f \o size)) \o body
    <3>1. f \o size \in Seq(Byte) /\ f \o (size \o body) = (f \o size) \o body
      BY <1>1, <1>2, BytesAssoc
    <3>2. PICK fs \in Seq(Byte) : fs = f \o size
      BY <3>1
    <3>3. size \o (fs \o body) = (size \o fs) \o body
      BY <1>1, BytesAssoc
    <3>4. QED BY <3>1, <3>2, <3>3
  <2>2. QED BY <1>1, <1>2, <1>3, <1>4, <1>5, <1>7, <2>1 DEF PushBytes
<1>8. QED BY <1>6, <1>7

\* A string or a vector is pushed as its bytes between its two sizes.
LEMMA CharsPushed ==
    ASSUME NEW end \in Ends, NEW list \in Seq(Seq(Byte)), NEW body \in Seq(Byte), NEW len \in Nat
    PROVE  PushChars(len, end, body, list) = PushBytes(end, body, Between(len, list))
<1>1. PICK n \in Nat : n = Len(list)
  OBVIOUS
<1>2. PICK size \in Seq(Byte) : size = serialize(Len(list), len)
  BY SizeComesBack
<1>3. PICK start \in Seq(Byte) : start = PushBytes(end, body, size)
  BY BytesAssoc DEF PushBytes
<1>4. PICK filled : filled = CHOOSE g : g = [i \in 0 .. Len(list) |->
               IF i = 0 THEN PushBytes(end, body, serialize(Len(list), len))
               ELSE PushBytes(end, g[i - 1], list[PushOrder(end, Len(list))[i]])]
  OBVIOUS
<1>5. PushChars(len, end, body, list) = PushBytes(end, filled[n], size)
  BY <1>1, <1>2, <1>4, Zenon DEF PushChars, PushList
<1>6. \E g : g = [i \in 0 .. n |->
               IF i = 0 THEN start ELSE PushBytes(end, g[i - 1], list[PushOrder(end, n)[i]])]
  <2>1. \E g \in [0 .. n -> Seq(Byte)] : Pushing(g, end, list, start, n)
    BY <1>1, PushLoop
  <2>2. QED BY <2>1, Zenon DEF Pushing
<1>7. filled = [i \in 0 .. n |->
               IF i = 0 THEN start ELSE PushBytes(end, filled[i - 1], list[PushOrder(end, n)[i]])]
  BY <1>1, <1>2, <1>3, <1>4, <1>6, Zenon
<1>8. filled[0] = start
      /\ \A i \in 1 .. n : filled[i] = PushBytes(end, filled[i - 1], list[PushOrder(end, n)[i]])
  <2>1. 0 \in 0 .. n
    OBVIOUS
  <2>2. filled[0] = start
    BY <1>7, <2>1, Zenon
  <2>3. \A i \in 1 .. n : i \in 0 .. n /\ i # 0
    OBVIOUS
  <2>4. \A i \in 1 .. n : filled[i] = PushBytes(end, filled[i - 1], list[PushOrder(end, n)[i]])
    BY <1>7, <2>3, Zenon
  <2>5. QED BY <2>2, <2>4
<1>9. filled[n] = PushBytes(end, start, FlattenSeq(list))
  BY <1>1, <1>8, PushedAll, Zenon
<1>10. QED BY <1>2, <1>3, <1>5, <1>9, PushedBetween

-----------------------------------------------------------------------------
(* Pops, as a loop that fills a list *)

\* What a pop into a value of V gives.
Result(V) == [ok : BOOLEAN, body : Seq(Byte), value : V]

\* A pop that fails and takes nothing.
Fails(r, body) == ~ r.ok /\ r.body = body

\* A record of these three is a result.
LEMMA ResultIs ==
    ASSUME NEW V, NEW ok \in BOOLEAN, NEW body \in Seq(Byte), NEW value \in V
    PROVE  [ok |-> ok, body |-> body, value |-> value] \in Result(V)
BY DEF Result

\* Another value in a result.
LEMMA ValueChanged ==
    ASSUME NEW V, NEW r \in Result(V), NEW v
    PROVE  [r EXCEPT !.value = v] = [ok |-> r.ok, body |-> r.body, value |-> v]
<1>1. r = [ok |-> r.ok, body |-> r.body, value |-> r.value]
  BY DEF Result
<1>2. QED BY <1>1

\* The same for a pop that succeeds.
LEMMA SetGot ==
    \A body \in Seq(Byte) : \A c, v : [Got(body, c) EXCEPT !.value = v] = Got(body, v)
<1> TAKE body \in Seq(Byte)
<1> TAKE c, v
<1>1. PICK V : V = {c}
  OBVIOUS
<1>2. PICK r : r = Got(body, c)
  OBVIOUS
<1>3. r \in Result(V) /\ r.ok = TRUE /\ r.body = body /\ r.value = c
  BY <1>1, <1>2 DEF Result, Got
<1>4. [r EXCEPT !.value = v] = [ok |-> r.ok, body |-> r.body, value |-> v]
  BY <1>3, ValueChanged
<1>5. QED BY <1>2, <1>3, <1>4 DEF Got

\* A pop of bytes gives as many as it was asked for, or fails and leaves all as it was.
LEMMA BytesPopped ==
    ASSUME NEW end \in Ends, NEW body \in Seq(Byte), NEW old \in Seq(Byte),
           NEW r, r = PopBytes(end, body, old)
    PROVE  /\ r \in Result(Seq(Byte)) /\ Len(r.value) = Len(old)
           /\ r.ok <=> Len(body) >= Len(old)
           /\ ~ r.ok => r.body = body /\ r.value = old
<1>1. PICK m \in Nat, k \in Nat : m = Len(body) /\ k = Len(old)
  OBVIOUS
<1>2. CASE m < k
  <2>1. r = [ok |-> FALSE, body |-> body, value |-> old]
    BY <1>1, <1>2 DEF PopBytes
  <2>2. ~ (m >= k)
    BY <1>2
  <2>3. r \in Result(Seq(Byte)) /\ r.ok = FALSE /\ r.body = body /\ r.value = old
    <3>1. [ok |-> FALSE, body |-> body, value |-> old] \in Result(Seq(Byte))
      BY DEF Result
    <3>2. QED BY <2>1, <3>1
  <2>4. QED BY <1>1, <2>2, <2>3
<1>3. ASSUME NEW rest \in Seq(Byte), NEW value \in Seq(Byte), Len(value) = k, ~ (m < k),
             r = [ok |-> TRUE, body |-> rest, value |-> value]
      PROVE  r \in Result(Seq(Byte)) /\ Len(r.value) = k /\ r.ok /\ m >= k
  <2>1. r \in Result(Seq(Byte)) /\ r.ok = TRUE /\ r.body = rest /\ r.value = value
    <3>1. [ok |-> TRUE, body |-> rest, value |-> value] \in Result(Seq(Byte))
      BY DEF Result
    <3>2. QED BY <1>3, <3>1
  <2>2. m >= k
    BY <1>3
  <2>3. QED BY <1>3, <2>1, <2>2
<1>4. CASE ~ (m < k) /\ end = "back"
  <2>1. r = [ok |-> TRUE, body |-> SubSeq(body, 1, m - k), value |-> SubSeq(body, m - k + 1, m)]
    BY <1>1, <1>4 DEF PopBytes
  <2>2. m - k \in 0 .. Len(body)
    BY <1>1, <1>4
  <2>3. /\ SubSeq(body, 1, m - k) \in Seq(Byte)
        /\ SubSeq(body, m - k + 1, m) \in Seq(Byte) /\ Len(SubSeq(body, m - k + 1, m)) = k
    BY <1>1, <2>2, TwoParts
  <2>4. QED BY <1>1, <1>3, <1>4, <2>1, <2>3
<1>5. CASE ~ (m < k) /\ end # "back"
  <2>1. r = [ok |-> TRUE, body |-> SubSeq(body, k + 1, m), value |-> SubSeq(body, 1, k)]
    BY <1>1, <1>5 DEF PopBytes
  <2>2. k \in 0 .. Len(body)
    BY <1>1, <1>5
  <2>3. /\ SubSeq(body, k + 1, m) \in Seq(Byte)
        /\ SubSeq(body, 1, k) \in Seq(Byte) /\ Len(SubSeq(body, 1, k)) = k
    BY <1>1, <2>2, TwoParts
  <2>4. QED BY <1>1, <1>3, <1>5, <2>1, <2>3
<1>6. QED BY <1>1, <1>2, <1>4, <1>5

\* What one element changes in a list of V.
LEMMA FilledIs ==
    ASSUME NEW V, NEW n \in Nat, NEW r \in Result([1 .. n -> V]), NEW i \in 1 .. n,
           NEW e \in Result(V)
    PROVE  /\ Filled(r, i, e) \in Result([1 .. n -> V])
           /\ Filled(r, i, e) = [ok |-> e.ok, body |-> e.body,
                                 value |-> [r.value EXCEPT ![i] = e.value]]
<1>1. r.value \in [1 .. n -> V] /\ e.ok \in BOOLEAN /\ e.body \in Seq(Byte) /\ e.value \in V
  BY DEF Result
<1>2. PICK v \in [1 .. n -> V] : v = [r.value EXCEPT ![i] = e.value]
  <2>1. [r.value EXCEPT ![i] = e.value] \in [1 .. n -> V]
    BY <1>1
  <2>2. QED BY <2>1
<1>3. e = [ok |-> e.ok, body |-> e.body, value |-> e.value]
  BY DEF Result
<1>4. Filled(r, i, e) = [e EXCEPT !.value = v]
  BY <1>2 DEF Filled
<1>5. [e EXCEPT !.value = v] = [ok |-> e.ok, body |-> e.body, value |-> v]
  BY <1>3
<1>6. [e EXCEPT !.value = v] \in Result([1 .. n -> V])
  BY <1>1, <1>5, ResultIs
<1>7. QED BY <1>2, <1>4, <1>5, <1>6

\* An element that is filled in fails or succeeds as its pop does.
LEMMA FilledOk ==
    ASSUME NEW V, NEW e \in Result(V), NEW r, NEW i
    PROVE  Filled(r, i, e).ok = e.ok
<1>1. PICK v : v = [r.value EXCEPT ![i] = e.value]
  OBVIOUS
<1>2. Filled(r, i, e) = [e EXCEPT !.value = v]
  BY <1>1, Zenon DEF Filled
<1>3. [e EXCEPT !.value = v] = [ok |-> e.ok, body |-> e.body, value |-> v]
  BY ValueChanged
<1>4. QED BY <1>2, <1>3

\* f are the results of n turns that begin with `first`, each of which pops
\* an element, in the given order, as the function pop does.
Turned(r, j, pop) ==
    IF r.ok THEN Filled(r, j, pop[<<r.body, r.value[j]>>]) ELSE r
Filling(f, n, order, first, pop) ==
    f = [i \in 0 .. n |-> IF i = 0 THEN first ELSE Turned(f[i - 1], order[i], pop)]

\* The results are lists.
LEMMA TurnedType ==
    ASSUME NEW V, NEW n \in Nat, NEW r \in Result([1 .. n -> V]), NEW j \in 1 .. n,
           NEW pop \in [Seq(Byte) \X V -> Result(V)]
    PROVE  /\ Turned(r, j, pop) \in Result([1 .. n -> V])
           /\ <<r.body, r.value[j]>> \in Seq(Byte) \X V
<1>1. <<r.body, r.value[j]>> \in Seq(Byte) \X V
  BY DEF Result
<1>2. pop[<<r.body, r.value[j]>>] \in Result(V)
  BY <1>1
<1>3. QED BY <1>1, <1>2, FilledIs DEF Turned

\* There is such a loop, and its results are lists.
LEMMA PopLoop ==
    ASSUME NEW V, NEW n \in Nat, NEW end \in Ends, NEW first \in Result([1 .. n -> V]),
           NEW pop \in [Seq(Byte) \X V -> Result(V)]
    PROVE  \E f \in [0 .. n -> Result([1 .. n -> V])] :
              Filling(f, n, PopOrder(end, n), first, pop)
<1>1. PICK A : A = Result([1 .. n -> V])
  OBVIOUS
<1>2. PICK step : step = [x \in A \X Nat |->
         IF x[2] \in 1 .. n THEN Turned(x[1], PopOrder(end, n)[x[2]], pop) ELSE x[1]]
  OBVIOUS
<1>3. \A r \in A, i \in 1 .. n : Turned(r, PopOrder(end, n)[i], pop) \in A
  <2> TAKE r \in A, i \in 1 .. n
  <2>1. PICK j \in 1 .. n : j = PopOrder(end, n)[i]
    BY OrderIs
  <2>2. QED BY <1>1, <2>1, TurnedType
<1>4. step \in [A \X Nat -> A]
  BY <1>2, <1>3
<1>5. first \in A
  BY <1>1
<1>6. PICK g : DefinedBy(g, A, first, step)
  BY <1>4, <1>5, Recursion, Zenon
<1>7. g \in [Nat -> A] /\ g[0] = first /\ \A k \in Nat : g[k + 1] = step[<<g[k], k + 1>>]
  BY <1>6 DEF DefinedBy
<1>8. PICK f : f = [i \in 0 .. n |-> g[i]]
  OBVIOUS
<1>9. f \in [0 .. n -> A]
  BY <1>7, <1>8
<1>10. \A i \in 0 .. n : f[i] = IF i = 0 THEN first ELSE Turned(f[i - 1], PopOrder(end, n)[i], pop)
  <2> TAKE i \in 0 .. n
  <2>1. CASE i = 0
    BY <1>7, <1>8, <2>1
  <2>2. CASE i # 0
    <3>1. PICK k \in Nat : k + 1 = i /\ k = i - 1 /\ k \in 0 .. n /\ i \in 1 .. n
      <4>1. i - 1 \in Nat /\ (i - 1) + 1 = i /\ i - 1 \in 0 .. n /\ i \in 1 .. n
        BY <2>2
      <4>2. QED BY <4>1
    <3>2. PICK r \in A : r = g[k]
      BY <1>7
    <3>3. g[i] = step[<<r, i>>]
      BY <1>7, <3>1, <3>2
    <3>4. step[<<r, i>>] = Turned(r, PopOrder(end, n)[i], pop)
      BY <1>2, <3>1
    <3>5. f[i] = g[i] /\ f[k] = r
      BY <1>8, <3>1, <3>2
    <3>6. QED BY <2>2, <3>1, <3>3, <3>4, <3>5
  <2>3. QED BY <2>1, <2>2
<1>11. f = [i \in 0 .. n |-> IF i = 0 THEN first ELSE Turned(f[i - 1], PopOrder(end, n)[i], pop)]
  BY <1>8, <1>10
<1>12. QED BY <1>1, <1>9, <1>11, Zenon DEF Filling

\* Two loops of n turns begin alike and go on alike.
Alike(f, g, n) ==
    /\ f = [i \in 0 .. n |-> f[i]] /\ g = [i \in 0 .. n |-> g[i]]
    /\ f[0] = g[0] /\ \A i \in 1 .. n : f[i - 1] = g[i - 1] => f[i] = g[i]

\* Such loops are the same.
LEMMA SameLoop ==
    ASSUME NEW n \in Nat, NEW f, NEW g, Alike(f, g, n)
    PROVE  f = g
<1>1. PICK S : S = {i \in Nat : i <= n => f[i] = g[i]}
  OBVIOUS
<1>2. 0 \in S
  BY <1>1 DEF Alike
<1>3. ASSUME NEW i \in Nat, i \in S PROVE i + 1 \in S
  <2>1. SUFFICES ASSUME i + 1 <= n PROVE f[i + 1] = g[i + 1]
    BY <1>1
  <2>2. i + 1 \in 1 .. n /\ (i + 1) - 1 = i /\ i <= n
    BY <2>1
  <2>3. f[i] = g[i]
    BY <1>1, <1>3, <2>2
  <2>4. QED BY <2>2, <2>3 DEF Alike
<1>4. \A i \in 0 .. n : f[i] = g[i]
  <2> TAKE i \in 0 .. n
  <2>1. i \in S /\ i <= n
    BY <1>2, <1>3, SetInduction
  <2>2. QED BY <1>1, <2>1
<1>5. QED BY <1>4 DEF Alike

\* r is what the pop of a list gives: its size, n turns f, and the other size.
Begins(first, size, n, V, blank, len, end, body, old) ==
    /\ size \in Result(Seq(Byte)) /\ n \in Nat /\ first \in Result([1 .. n -> V])
    /\ size = PopBytes(end, body, serialize(0, len)) /\ n = deserialize(size.value)
    /\ first = [ok |-> size.ok, body |-> size.body, value |-> Resized(old, n, blank)]
AfterLoop(r, size, n, f, end, body, old) ==
    r = IF ~ size.ok THEN [ok |-> FALSE, body |-> body, value |-> old]
        ELSE IF ~ f[n].ok THEN f[n]
        ELSE [PopBytes(end, f[n].body, size.value) EXCEPT !.value = f[n].value]
PopsList(r, V, pop, blank, len, end, body, old) ==
    \E size, n, first, f :
       /\ Begins(first, size, n, V, blank, len, end, body, old)
       /\ f \in [0 .. n -> Result([1 .. n -> V])]
       /\ Filling(f, n, PopOrder(end, n), first, pop)
       /\ AfterLoop(r, size, n, f, end, body, old)

\* What the loops begin with.
LEMMA LoopBegins ==
    ASSUME NEW end \in Ends, NEW body \in Seq(Byte), NEW len \in Nat, NEW V, NEW old \in Seq(V),
           NEW blank \in V
    PROVE  \E size, n, first : Begins(first, size, n, V, blank, len, end, body, old)
<1>1. PICK z \in Seq(Byte) : z = serialize(0, len)
  BY SizeComesBack
<1>2. PICK size \in Result(Seq(Byte)) : size = PopBytes(end, body, serialize(0, len))
  BY <1>1, BytesPopped
<1>3. PICK n \in Nat : n = deserialize(size.value)
  <2>1. size.value \in Seq(Byte)
    BY DEF Result
  <2>2. QED BY <2>1, DeserializeType
<1>4. PICK list \in [1 .. n -> V] : list = Resized(old, n, blank)
  <2>1. \A i \in 1 .. n : i <= Len(old) => old[i] \in V
    <3> TAKE i \in 1 .. n
    <3> HAVE i <= Len(old)
    <3>1. i \in 1 .. Len(old)
      OBVIOUS
    <3>2. QED BY <3>1, ElementOfSeq
  <2>2. Resized(old, n, blank) \in [1 .. n -> V]
    BY <2>1 DEF Resized
  <2>3. QED BY <2>2
<1>5. PICK first : first = [ok |-> size.ok, body |-> size.body, value |-> list]
  OBVIOUS
<1>6. first \in Result([1 .. n -> V])
  BY <1>5 DEF Result
<1>7. QED BY <1>2, <1>3, <1>4, <1>5, <1>6, Zenon DEF Begins

\* How the elements of a string or a vector are popped.
BytePop(end) == [x \in Seq(Byte) \X Seq(Byte) |-> PopBytes(end, x[1], x[2])]

\* The pop of a string or a vector is a loop that pops its elements so.
LEMMA CharsLoop ==
    ASSUME NEW end \in Ends, NEW body \in Seq(Byte), NEW len \in Nat, NEW old \in Seq(Seq(Byte)),
           << 0 >> \in Seq(Byte)
    PROVE  /\ BytePop(end) \in [Seq(Byte) \X Seq(Byte) -> Result(Seq(Byte))]
           /\ PopsList(PopChars(len, end, body, old), Seq(Byte), BytePop(end), <<0>>,
                       len, end, body, old)
<1>1. PICK V : V = Seq(Byte)
  OBVIOUS
<1>2. PICK pop \in [Seq(Byte) \X V -> Result(V)] : pop = BytePop(end)
  <2>1. \A x \in Seq(Byte) \X V : PopBytes(end, x[1], x[2]) \in Result(V)
    <3> TAKE x \in Seq(Byte) \X V
    <3>1. x[1] \in Seq(Byte) /\ x[2] \in Seq(Byte)
      BY <1>1
    <3>2. QED BY <1>1, <3>1, BytesPopped
  <2>2. QED BY <1>1, <2>1 DEF BytePop
<1> DEFINE Size == PopBytes(end, body, serialize(0, len))
           N == deserialize(Size.value)
           Loop == CHOOSE g : g = [i \in 0 .. N |->
               IF i = 0 THEN [Size EXCEPT !.value = Resized(old, N, <<0>>)]
               ELSE IF g[i - 1].ok
                    THEN Filled(g[i - 1], PopOrder(end, N)[i],
                           PopBytes(end, g[i - 1].body, g[i - 1].value[PopOrder(end, N)[i]]))
                    ELSE g[i - 1]]
<1>3. PopChars(len, end, body, old) =
        IF ~ Size.ok THEN [ok |-> FALSE, body |-> body, value |-> old]
        ELSE IF ~ Loop[N].ok THEN Loop[N]
        ELSE [PopBytes(end, Loop[N].body, Size.value) EXCEPT !.value = Loop[N].value]
  BY Zenon DEF PopChars, PopList
<1>4. PICK filled : filled = Loop
  OBVIOUS
<1>5. AfterLoop(PopChars(len, end, body, old), Size, N, filled, end, body, old)
  <2> HIDE DEF Size, N, Loop
  <2>1. QED BY <1>3, <1>4, Zenon DEF AfterLoop
<1>6. PICK size, n, first : Begins(first, size, n, V, <<0>>, len, end, body, old)
  <2>1. old \in Seq(V) /\ <<0>> \in V
    BY <1>1
  <2>2. QED BY <2>1, LoopBegins
<1>7. /\ size = Size /\ n = N /\ n \in Nat /\ first \in Result([1 .. n -> V])
      /\ first = [size EXCEPT !.value = Resized(old, n, <<0>>)]
  <2>1. size = Size /\ n = N /\ n \in Nat /\ first \in Result([1 .. n -> V])
    BY <1>6 DEF Begins
  <2>2. PICK list : list = Resized(old, n, <<0>>)
    OBVIOUS
  <2>3. size \in Result(Seq(Byte))
    BY <1>6 DEF Begins
  <2>4. [size EXCEPT !.value = list] = [ok |-> size.ok, body |-> size.body, value |-> list]
    BY <2>3, ValueChanged
  <2>5. first = [ok |-> size.ok, body |-> size.body, value |-> list]
    BY <1>6, <2>2 DEF Begins
  <2>6. QED BY <2>1, <2>2, <2>4, <2>5
<1> HIDE DEF Size, N
<1>8. filled = CHOOSE g : g = [i \in 0 .. n |->
               IF i = 0 THEN first
               ELSE IF g[i - 1].ok
                    THEN Filled(g[i - 1], PopOrder(end, n)[i],
                           PopBytes(end, g[i - 1].body, g[i - 1].value[PopOrder(end, n)[i]]))
                    ELSE g[i - 1]]
  BY <1>4, <1>7, Zenon
<1> HIDE DEF Loop
<1>9. PICK f \in [0 .. n -> Result([1 .. n -> V])] : Filling(f, n, PopOrder(end, n), first, pop)
  BY <1>7, PopLoop
<1>10. \A i \in 1 .. n : f[i] = IF f[i - 1].ok
                              THEN Filled(f[i - 1], PopOrder(end, n)[i],
                                     PopBytes(end, f[i - 1].body, f[i - 1].value[PopOrder(end, n)[i]]))
                              ELSE f[i - 1]
  <2> TAKE i \in 1 .. n
  <2>1. i \in 0 .. n /\ i # 0 /\ i - 1 \in 0 .. n
    BY <1>7
  <2>2. PICK j \in 1 .. n : j = PopOrder(end, n)[i]
    BY <1>7, OrderIs
  <2>3. PICK r \in Result([1 .. n -> V]) : r = f[i - 1]
    BY <2>1
  <2>4. f[i] = Turned(r, j, pop)
    BY <1>9, <2>1, <2>2, <2>3 DEF Filling
  <2>5. pop[<<r.body, r.value[j]>>] = PopBytes(end, r.body, r.value[j])
    <3>1. <<r.body, r.value[j]>> \in Seq(Byte) \X Seq(Byte)
      BY <1>1 DEF Result
    <3>2. QED BY <1>2, <3>1 DEF BytePop
  <2>6. QED BY <2>2, <2>3, <2>4, <2>5, Zenon DEF Turned
<1>11. f[0] = first
  <2>1. 0 \in 0 .. n
    BY <1>7
  <2>2. QED BY <1>9, <2>1 DEF Filling
<1>12. f = [i \in 0 .. n |->
               IF i = 0 THEN first
               ELSE IF f[i - 1].ok
                    THEN Filled(f[i - 1], PopOrder(end, n)[i],
                           PopBytes(end, f[i - 1].body, f[i - 1].value[PopOrder(end, n)[i]]))
                    ELSE f[i - 1]]
  <2>1. \A i \in 0 .. n : i = 0 \/ i \in 1 .. n
    BY <1>7
  <2>2. f = [i \in 0 .. n |-> f[i]]
    OBVIOUS
  <2>3. QED BY <1>10, <1>11, <2>1, <2>2
<1>13. filled = [i \in 0 .. n |->
               IF i = 0 THEN first
               ELSE IF filled[i - 1].ok
                    THEN Filled(filled[i - 1], PopOrder(end, n)[i],
                           PopBytes(end, filled[i - 1].body,
                                    filled[i - 1].value[PopOrder(end, n)[i]]))
                    ELSE filled[i - 1]]
  BY <1>8, <1>12, Zenon
<1>14. filled = f
  <2>1. filled[0] = f[0]
    <3>1. 0 \in 0 .. n
      BY <1>7
    <3>2. filled[0] = first
      BY <1>13, <3>1, Zenon
    <3>3. QED BY <1>11, <3>2
  <2>2. \A i \in 1 .. n : filled[i - 1] = f[i - 1] => filled[i] = f[i]
    <3> TAKE i \in 1 .. n
    <3> HAVE filled[i - 1] = f[i - 1]
    <3>1. i \in 0 .. n /\ i # 0
      BY <1>7
    <3>2. filled[i] = IF filled[i - 1].ok
                      THEN Filled(filled[i - 1], PopOrder(end, n)[i],
                             PopBytes(end, filled[i - 1].body,
                                      filled[i - 1].value[PopOrder(end, n)[i]]))
                      ELSE filled[i - 1]
      BY <1>13, <3>1, Zenon
    <3>3. QED BY <1>10, <3>2
  <2>3. filled = [i \in 0 .. n |-> filled[i]] /\ f = [i \in 0 .. n |-> f[i]]
    BY <1>13
  <2>4. Alike(filled, f, n)
    BY <2>1, <2>2, <2>3 DEF Alike
  <2>5. QED BY <1>7, <2>4, SameLoop
<1>15. AfterLoop(PopChars(len, end, body, old), size, n, f, end, body, old)
  BY <1>5, <1>7, <1>14, Zenon
<1>16. PopsList(PopChars(len, end, body, old), V, pop, <<0>>, len, end, body, old)
  BY <1>6, <1>9, <1>15, Zenon DEF PopsList
<1>17. QED BY <1>1, <1>2, <1>16

\* What the pop of a list gives is a list; it fails if not even a size is there.
LEMMA ListPopType ==
    ASSUME NEW V, NEW pop, NEW blank, NEW len \in Nat, NEW end \in Ends,
           NEW body \in Seq(Byte), NEW old \in Seq(V),
           NEW r, PopsList(r, V, pop, blank, len, end, body, old)
    PROVE  r \in Result(Seq(V)) /\ (Len(body) < len => Fails(r, body))
<1>1. PICK size, n, first, f :
         /\ Begins(first, size, n, V, blank, len, end, body, old)
         /\ f \in [0 .. n -> Result([1 .. n -> V])]
         /\ AfterLoop(r, size, n, f, end, body, old)
  BY DEF PopsList
<1>2. PICK z \in Seq(Byte) : z = serialize(0, len) /\ Len(z) = len
  BY SizeComesBack
<1>3. size \in Result(Seq(Byte)) /\ size = PopBytes(end, body, z) /\ n \in Nat
  BY <1>1, <1>2 DEF Begins
<1>4. size.ok <=> Len(body) >= len
  BY <1>2, <1>3, BytesPopped
<1>5. f[n] \in Result([1 .. n -> V])
  <2>1. n \in 0 .. n
    BY <1>3
  <2>2. QED BY <1>1, <2>1
<1>6. f[n].ok \in BOOLEAN /\ f[n].body \in Seq(Byte) /\ f[n].value \in Seq(V)
  <2>1. f[n].value \in [1 .. n -> V] /\ f[n].ok \in BOOLEAN /\ f[n].body \in Seq(Byte)
    BY <1>5 DEF Result
  <2>2. QED BY <1>3, <2>1
<1>7. CASE ~ size.ok
  <2>1. r = [ok |-> FALSE, body |-> body, value |-> old]
    BY <1>1, <1>7 DEF AfterLoop
  <2>2. QED BY <2>1 DEF Result, Fails
<1>8. size.ok => ~ (Len(body) < len)
  <2>1. Len(body) >= len => ~ (Len(body) < len)
    OBVIOUS
  <2>2. QED BY <1>4, <2>1
<1>9. CASE size.ok /\ ~ f[n].ok
  <2>1. r = f[n]
    BY <1>1, <1>9 DEF AfterLoop
  <2>2. f[n] = [ok |-> f[n].ok, body |-> f[n].body, value |-> f[n].value]
    BY <1>5 DEF Result
  <2>3. r \in Result(Seq(V))
    BY <1>6, <2>1, <2>2 DEF Result
  <2>4. QED BY <1>9, <1>8, <2>3
<1>10. CASE size.ok /\ f[n].ok
  <2>1. size.value \in Seq(Byte)
    BY <1>3 DEF Result
  <2>2. PICK other \in Result(Seq(Byte)) : other = PopBytes(end, f[n].body, size.value)
    BY <1>6, <2>1, BytesPopped
  <2>3. r = [other EXCEPT !.value = f[n].value]
    BY <1>1, <1>10, <2>2 DEF AfterLoop
  <2>4. r = [ok |-> other.ok, body |-> other.body, value |-> f[n].value]
    BY <2>2, <2>3, ValueChanged
  <2>5. other.ok \in BOOLEAN /\ other.body \in Seq(Byte)
    BY <2>2 DEF Result
  <2>6. r \in Result(Seq(V))
    BY <1>6, <2>4, <2>5 DEF Result
  <2>7. QED BY <1>10, <1>8, <2>6
<1>11. QED BY <1>7, <1>9, <1>10

-----------------------------------------------------------------------------
(* What is pushed is popped *)

\* The list after i turns: blank where no turn has been.
Partly(end, n, i, list, blank) ==
    [x \in 1 .. n |-> IF (IF end = "back" THEN x <= n - i ELSE i < x) THEN blank ELSE list[x]]

\* Turn by turn the list takes the place of the blanks.
PartlyRight(end, n, list, blank) ==
    /\ Partly(end, n, 0, list, blank) = [i \in 1 .. n |-> blank]
    /\ Partly(end, n, n, list, blank) = list
    /\ \A i \in 0 .. n - 1 :
          /\ Partly(end, n, i, list, blank)[PopOrder(end, n)[i + 1]] = blank
          /\ [Partly(end, n, i, list, blank)
                EXCEPT ![PopOrder(end, n)[i + 1]] = list[PopOrder(end, n)[i + 1]]]
                = Partly(end, n, i + 1, list, blank)

\* A list is filled in one element at a time, from none to all.
LEMMA PartlyMore ==
    ASSUME NEW end \in Ends, NEW V, NEW list \in Seq(V), NEW n, n = Len(list), NEW blank
    PROVE  PartlyRight(end, n, list, blank)
<1>1. n \in Nat /\ list = [x \in 1 .. n |-> list[x]]
  OBVIOUS
<1>2. Partly(end, n, 0, list, blank) = [i \in 1 .. n |-> blank]
  BY <1>1 DEF Partly
<1>3. Partly(end, n, n, list, blank) = list
  BY <1>1 DEF Partly
<1>4. ASSUME NEW i \in 0 .. n - 1
      PROVE  /\ Partly(end, n, i, list, blank)[PopOrder(end, n)[i + 1]] = blank
             /\ [Partly(end, n, i, list, blank)
                   EXCEPT ![PopOrder(end, n)[i + 1]] = list[PopOrder(end, n)[i + 1]]]
                   = Partly(end, n, i + 1, list, blank)
  <2>1. PICK x \in 1 .. n : x = PopOrder(end, n)[i + 1]
    <3>1. i + 1 \in 1 .. n
      BY <1>1
    <3>2. PopOrder(end, n)[i + 1] \in 1 .. n
      BY <1>1, <3>1, OrderIs
    <3>3. QED BY <3>2
  <2>2. x = IF end = "back" THEN n - i ELSE i + 1
    BY <1>1, <2>1 DEF PopOrder, Upwards, Downwards
  <2>3. PICK p, q : p = Partly(end, n, i, list, blank) /\ q = Partly(end, n, i + 1, list, blank)
    OBVIOUS
  <2>4. p[x] = blank
    BY <1>1, <2>2, <2>3 DEF Partly
  <2>5. q[x] = list[x]
    BY <1>1, <2>2, <2>3 DEF Partly
  <2>6. \A y \in 1 .. n : y # x => q[y] = p[y]
    BY <1>1, <2>2, <2>3 DEF Partly
  <2>7. p = [y \in 1 .. n |-> p[y]] /\ q = [y \in 1 .. n |-> q[y]]
    BY <2>3 DEF Partly
  <2>8. [p EXCEPT ![x] = list[x]] = q
    BY <2>5, <2>6, <2>7
  <2>9. QED BY <2>1, <2>3, <2>4, <2>8
<1>5. QED BY <1>2, <1>3, <1>4 DEF PartlyRight

\* Each piece, at that end, gives its element.
Gives(pop, end, enc, list, blank) ==
    \A i \in 1 .. Len(enc), b \in Seq(Byte) :
       pop[<<PushBytes(end, b, enc[i]), blank>>] = Got(b, list[i])

\* f are the turns of a loop that pops such pieces.
Turning(f, first, V, pop, blank, end, enc, list) ==
    /\ list \in Seq(V) /\ Len(list) = Len(enc) /\ Gives(pop, end, enc, list, blank)
    /\ Filling(f, Len(enc), PopOrder(end, Len(enc)), first, pop)

\* After i turns the next piece, x, lies at the end, before `rest`.
AtTurn(f, i, x, rest, end, enc, list, blank) ==
    /\ i \in 0 .. Len(enc) - 1 /\ x \in 1 .. Len(enc) /\ x = PopOrder(end, Len(enc))[i + 1]
    /\ f[i] = Got(PushBytes(end, rest, enc[x]), Partly(end, Len(enc), i, list, blank))

\* A turn takes one piece off the body and puts its element into the list.
LEMMA OneTurn ==
    ASSUME NEW end \in Ends, NEW enc \in Seq(Seq(Byte)), NEW V, NEW pop, NEW blank, NEW list,
           NEW first, NEW f, Turning(f, first, V, pop, blank, end, enc, list),
           NEW rest \in Seq(Byte), NEW i, NEW x, AtTurn(f, i, x, rest, end, enc, list, blank)
    PROVE  f[i + 1] = Got(rest, Partly(end, Len(enc), i + 1, list, blank))
<1> USE DEF Turning, AtTurn
<1>1. PICK n \in Nat : n = Len(enc)
  OBVIOUS
<1>2. PICK p : p = Partly(end, n, i, list, blank)
  OBVIOUS
<1>3. p[x] = blank /\ [p EXCEPT ![x] = list[x]] = Partly(end, n, i + 1, list, blank)
  <2>1. i \in 0 .. n - 1
    BY <1>1
  <2>2. PartlyRight(end, n, list, blank)
    BY <1>1, PartlyMore
  <2>3. QED BY <1>1, <1>2, <2>1, <2>2 DEF PartlyRight
<1>4. f[i + 1] = Turned(f[i], x, pop)
  <2>1. i + 1 \in 0 .. n /\ i + 1 # 0 /\ (i + 1) - 1 = i
    BY <1>1
  <2>2. QED BY <1>1, <2>1 DEF Filling
<1>5. PICK b : b = PushBytes(end, rest, enc[x])
  OBVIOUS
<1>6. PICK e : e = Got(rest, list[x]) /\ pop[<<b, blank>>] = e
  BY <1>5 DEF Gives
<1>7. PICK r : r = f[i] /\ r.ok = TRUE /\ r.body = b /\ r.value = p
  BY <1>1, <1>2, <1>5, GotIs
<1>8. PICK q : q = [p EXCEPT ![x] = list[x]]
  OBVIOUS
<1>9. Filled(r, x, e) = [e EXCEPT !.value = q]
  <2>1. e.value = list[x]
    BY <1>6, GotIs
  <2>2. Filled(r, x, e) = [e EXCEPT !.value = [r.value EXCEPT ![x] = e.value]]
    BY Zenon DEF Filled
  <2>3. [r.value EXCEPT ![x] = e.value] = q
    BY <1>7, <1>8, <2>1
  <2>4. QED BY <2>2, <2>3, Zenon
<1>10. [e EXCEPT !.value = q] = Got(rest, q)
  BY <1>6, SetGot
<1>11. Turned(r, x, pop) = Filled(r, x, e)
  BY <1>3, <1>6, <1>7 DEF Turned
<1>12. QED BY <1>1, <1>3, <1>4, <1>7, <1>8, <1>9, <1>10, <1>11

\* With one turn more one piece less is left.
LeftOver(end, enc, body, i, x, rest) ==
    /\ x = PopOrder(end, Len(enc))[i + 1] /\ enc[x] \in Seq(Byte)
    /\ rest = PushBytes(end, body, FlattenSeq(Pushed(end, enc, Len(enc) - (i + 1))))
    /\ PushBytes(end, rest, enc[x])
          = PushBytes(end, body, FlattenSeq(Pushed(end, enc, Len(enc) - i)))

\* What is left for a turn is the next piece and what is left after it.
LEMMA OneLess ==
    ASSUME NEW end \in Ends, NEW enc \in Seq(Seq(Byte)), NEW i \in 0 .. Len(enc) - 1,
           NEW body \in Seq(Byte)
    PROVE  \E x \in 1 .. Len(enc), rest \in Seq(Byte) : LeftOver(end, enc, body, i, x, rest)
<1>1. PICK n \in Nat : n = Len(enc)
  OBVIOUS
<1>2. PICK k \in Nat : k = n - (i + 1) /\ n - i = k + 1 /\ k < n
  <2>1. n - (i + 1) \in Nat /\ n - i = (n - (i + 1)) + 1 /\ n - (i + 1) < n
    BY <1>1
  <2>2. QED BY <2>1
<1>3. PICK x \in 1 .. n : x = PopOrder(end, n)[i + 1] /\ x = PushOrder(end, n)[k + 1]
  <2>1. i + 1 \in 1 .. n /\ n + 1 - (i + 1) = k + 1
    BY <1>1, <1>2
  <2>2. PopOrder(end, n)[i + 1] \in 1 .. n
        /\ PopOrder(end, n)[i + 1] = PushOrder(end, n)[n + 1 - (i + 1)]
    BY <1>1, <2>1, OrderIs
  <2>3. QED BY <2>1, <2>2
<1>4. k < Len(enc) /\ x \in 1 .. Len(enc) /\ x = PushOrder(end, Len(enc))[k + 1]
  BY <1>1, <1>2, <1>3
<1>5. /\ FlattenSeq(Pushed(end, enc, k)) \in Seq(Byte)
      /\ PushBytes(end, PushBytes(end, body, FlattenSeq(Pushed(end, enc, k))), enc[x])
            = PushBytes(end, body, FlattenSeq(Pushed(end, enc, k + 1)))
  BY <1>4, PushedMore
<1>6. PICK rest \in Seq(Byte) : rest = PushBytes(end, body, FlattenSeq(Pushed(end, enc, k)))
  BY <1>5, BytesAssoc DEF PushBytes
<1>7. enc[x] \in Seq(Byte)
  BY <1>4, ElementOfSeq
<1>8. QED BY <1>1, <1>2, <1>3, <1>5, <1>6, <1>7 DEF LeftOver

\* A list whose elements are popped, and whose number its sizes can hold.
Poppable(V, pop, blank, len, end, enc, list) ==
    /\ pop \in [Seq(Byte) \X V -> Result(V)] /\ blank \in V /\ len \in Nat
    /\ enc \in Seq(Seq(Byte)) /\ list \in Seq(V)
    /\ Len(list) = Len(enc) /\ Len(enc) < Power[len]
    /\ Gives(pop, end, enc, list, blank)

\* Pushed, it is popped.
LEMMA ListPopped ==
    ASSUME NEW V, NEW pop, NEW blank, NEW len, NEW end \in Ends, NEW enc, NEW list,
           Poppable(V, pop, blank, len, end, enc, list), NEW body \in Seq(Byte),
           NEW r, PopsList(r, V, pop, blank, len, end, PushBytes(end, body, Between(len, enc)), << >>)
    PROVE  r = Got(body, list)
<1> USE DEF Poppable
<1> DEFINE b == PushBytes(end, body, Between(len, enc))
<1>1. PICK n \in Nat : n = Len(enc) /\ n = Len(list) /\ n < Power[len]
  OBVIOUS
<1>2. PICK z \in Seq(Byte) : z = serialize(0, len) /\ Len(z) = len
  BY SizeComesBack
<1>3. PICK sz \in Seq(Byte) : sz = serialize(Len(enc), len) /\ Len(sz) = len /\ deserialize(sz) = n
  BY <1>1, SizeComesBack
<1>4. PICK fl \in Seq(Byte) : fl = FlattenSeq(enc)
  BY <1>3, PushedBetween
<1>5. PICK b0 \in Seq(Byte) : b0 = PushBytes(end, body, sz)
  BY BytesAssoc DEF PushBytes
<1>6. PICK b1 \in Seq(Byte) : b1 = PushBytes(end, b0, fl)
  BY BytesAssoc DEF PushBytes
<1>7. b = PushBytes(end, b1, sz)
  BY <1>3, <1>4, <1>5, <1>6, PushedBetween
<1>8. PICK size, first, m, f :
         /\ Begins(first, size, m, V, blank, len, end, b, << >>)
         /\ f \in [0 .. m -> Result([1 .. m -> V])]
         /\ Filling(f, m, PopOrder(end, m), first, pop)
         /\ AfterLoop(r, size, m, f, end, b, << >>)
  BY DEF PopsList
<1>9. size = Got(b1, sz)
  <2>1. size = PopBytes(end, PushBytes(end, b1, sz), z)
    BY <1>2, <1>7, <1>8 DEF Begins
  <2>2. Len(z) = Len(sz)
    BY <1>2, <1>3
  <2>3. QED BY <2>1, <2>2, PushedIsPopped
<1>10. size.ok = TRUE /\ size.body = b1 /\ size.value = sz
  BY <1>9, GotIs
<1>11. m = n
  BY <1>3, <1>8, <1>10 DEF Begins
<1>12. first = Got(b1, [i \in 1 .. n |-> blank])
  <2>1. Resized(<< >>, n, blank) = [i \in 1 .. n |-> blank]
    <3>1. \A i \in 1 .. n : ~ (i <= Len(<< >>))
      OBVIOUS
    <3>2. QED BY <3>1 DEF Resized
  <2>2. first = [ok |-> size.ok, body |-> size.body, value |-> Resized(<< >>, n, blank)]
    BY <1>8, <1>11, Zenon DEF Begins
  <2>3. QED BY <1>10, <2>1, <2>2 DEF Got
<1>13. list \in [1 .. n -> V]
  BY <1>1
<1>14. PartlyRight(end, n, list, blank)
  BY <1>1, PartlyMore
<1>15. PICK S : S = {i \in Nat : i <= n => f[i] =
          Got(PushBytes(end, b0, FlattenSeq(Pushed(end, enc, n - i))), Partly(end, n, i, list, blank))}
  OBVIOUS
<1>16. 0 \in S
  <2>1. Pushed(end, enc, n - 0) = enc
    BY <1>1 DEF Pushed
  <2>2. f[0] = first
    <3>1. 0 \in 0 .. m
      BY <1>11
    <3>2. QED BY <1>8, <3>1 DEF Filling
  <2>3. Partly(end, n, 0, list, blank) = [i \in 1 .. n |-> blank]
    BY <1>14 DEF PartlyRight
  <2>4. QED BY <1>4, <1>6, <1>12, <1>15, <2>1, <2>2, <2>3
<1>17. ASSUME NEW i \in Nat, i \in S PROVE i + 1 \in S
  <2>1. SUFFICES ASSUME i + 1 <= n
                 PROVE  f[i + 1] =
                    Got(PushBytes(end, b0, FlattenSeq(Pushed(end, enc, n - (i + 1)))), Partly(end, n, i + 1, list, blank))
    BY <1>15
  <2>2. i \in 0 .. Len(enc) - 1
    BY <1>1, <2>1
  <2>3. PICK x \in 1 .. Len(enc), rest \in Seq(Byte) : LeftOver(end, enc, b0, i, x, rest)
    BY <2>2, OneLess
  <2>4. f[i] = Got(PushBytes(end, rest, enc[x]), Partly(end, n, i, list, blank))
    <3>1. i <= n
      BY <2>1
    <3>2. QED BY <1>1, <1>15, <1>17, <2>3, <3>1 DEF LeftOver
  <2>5. AtTurn(f, i, x, rest, end, enc, list, blank)
    BY <1>1, <2>2, <2>3, <2>4 DEF AtTurn, LeftOver
  <2>6. Turning(f, first, V, pop, blank, end, enc, list)
    BY <1>1, <1>8, <1>11 DEF Turning
  <2>7. f[i + 1] = Got(rest, Partly(end, Len(enc), i + 1, list, blank))
    BY <2>5, <2>6, OneTurn
  <2>8. QED BY <1>1, <2>3, <2>7 DEF LeftOver
<1>18. f[n] = Got(b0, list)
  <2>1. n \in S
    BY <1>16, <1>17, SetInduction
  <2>2. FlattenSeq(Pushed(end, enc, n - n)) = << >>
    <3>1. Pushed(end, enc, 0) = << >> /\ n - n = 0
      BY DEF Pushed
    <3>2. QED BY <3>1, FlattenEmpty
  <2>3. PushBytes(end, b0, << >>) = b0
    BY DEF PushBytes
  <2>4. Partly(end, n, n, list, blank) = list
    BY <1>14 DEF PartlyRight
  <2>5. QED BY <1>15, <2>1, <2>2, <2>3, <2>4
<1>19. PopBytes(end, b0, sz) = Got(body, sz)
  BY <1>5, PushedIsPopped
<1>20. PICK other : other = PopBytes(end, b0, sz) /\ r = [other EXCEPT !.value = list]
  <2>1. f[n].ok = TRUE /\ f[n].body = b0 /\ f[n].value = list
    BY <1>18, GotIs
  <2>2. QED BY <1>8, <1>10, <1>11, <2>1 DEF AfterLoop
<1>21. QED BY <1>19, <1>20, SetGot

-----------------------------------------------------------------------------
(* What was cut off is missed *)

\* c is the beginning of s, but not all of it.
Cut(c, s) == \E k \in 0 .. Len(s) - 1 : c = SubSeq(s, 1, k)

\* What was cut is shorter than it was.
LEMMA CutIs ==
    ASSUME NEW s \in Seq(Byte), NEW c, Cut(c, s)
    PROVE  c \in Seq(Byte) /\ Len(c) < Len(s)
<1>1. PICK k \in 0 .. Len(s) - 1 : c = SubSeq(s, 1, k)
  BY DEF Cut
<1>2. k \in 0 .. Len(s)
  OBVIOUS
<1>3. SubSeq(s, 1, k) \in Seq(Byte) /\ Len(SubSeq(s, 1, k)) = k
  BY <1>2, TwoParts
<1>4. k < Len(s)
  OBVIOUS
<1>5. QED BY <1>1, <1>3, <1>4

\* A sequence that is cut is cut in its first part, or the second one is.
LEMMA CutConcat ==
    ASSUME NEW s \in Seq(Byte), NEW t \in Seq(Byte), NEW c, Cut(c, s \o t)
    PROVE  Cut(c, s) \/ \E d \in Seq(Byte) : c = s \o d /\ Cut(d, t)
<1>1. PICK m \in Nat, n \in Nat : m = Len(s) /\ n = Len(t)
  OBVIOUS
<1>2. PICK st \in Seq(Byte) : st = s \o t /\ Len(st) = m + n
  BY <1>1, BytesConcat
<1>3. PICK k \in Nat : k < m + n /\ c = SubSeq(st, 1, k)
  <2>1. Cut(c, st)
    BY <1>2
  <2>2. PICK k \in 0 .. Len(st) - 1 : c = SubSeq(st, 1, k)
    BY <2>1 DEF Cut
  <2>3. k \in Nat /\ k < m + n
    BY <1>2
  <2>4. QED BY <2>2, <2>3
<1>4. CASE k < m
  <2>1. SubSeq(st, 1, k) = SubSeq(s, 1, k)
    <3>1. CASE k = 0
      BY <3>1
    <3>2. CASE k # 0
      <4>1. 1 \in 1 .. Len(s) /\ k \in 1 .. Len(s)
        BY <1>1, <1>4, <3>2
      <4>2. QED BY <1>2, <4>1, SubSeqOfConcat1
    <3>3. QED BY <3>1, <3>2
  <2>2. k \in 0 .. Len(s) - 1
    BY <1>1, <1>4
  <2>3. QED BY <1>3, <2>1, <2>2 DEF Cut
<1>5. CASE k >= m
  <2>1. PICK j \in Nat : j < n /\ k = m + j
    <3>1. k - m \in Nat /\ k - m < n /\ k = m + (k - m)
      BY <1>3, <1>5
    <3>2. QED BY <3>1
  <2>2. PICK d \in Seq(Byte) : d = SubSeq(t, 1, j)
    <3>1. j \in 0 .. Len(t)
      BY <1>1, <2>1
    <3>2. SubSeq(t, 1, j) \in Seq(Byte)
      BY <3>1, TwoParts
    <3>3. QED BY <3>2
  <2>3. SubSeq(st, 1, m) \o SubSeq(st, m + 1, k) = SubSeq(st, 1, k)
    <3>1. 1 \in 1 .. Len(st) + 1 /\ m \in 1 - 1 .. Len(st) /\ k \in m .. Len(st)
      BY <1>2, <1>3, <1>5
    <3>2. QED BY <3>1, ConcatAdjacentSubSeq
  <2>4. SubSeq(st, 1, m) = s
    BY <1>1, <1>2, PartsOfConcat
  <2>5. SubSeq(st, m + 1, k) = d
    <3>1. CASE j = 0
      <4>1. SubSeq(st, m + 1, m) = << >> /\ k = m
        BY <2>1, <3>1, SubSeqEmpty
      <4>2. QED BY <2>2, <3>1, <4>1
    <3>2. CASE j # 0
      <4>1. /\ m + 1 \in Len(s) + 1 .. Len(s) + Len(t) /\ k \in Len(s) + 1 .. Len(s) + Len(t)
            /\ (m + 1) - Len(s) = 1 /\ k - Len(s) = j
        BY <1>1, <2>1, <3>2
      <4>2. SubSeq(s \o t, m + 1, k) = SubSeq(t, (m + 1) - Len(s), k - Len(s))
        BY <4>1, SubSeqOfConcat2
      <4>3. QED BY <1>2, <2>2, <4>1, <4>2
    <3>3. QED BY <3>1, <3>2
  <2>6. Cut(d, t)
    <3>1. j \in 0 .. Len(t) - 1
      BY <1>1, <2>1
    <3>2. QED BY <2>2, <3>1 DEF Cut
  <2>7. QED BY <1>3, <2>2, <2>3, <2>4, <2>5, <2>6
<1>6. k < m \/ k >= m
  BY <1>3
<1>7. QED BY <1>4, <1>5, <1>6, Zenon

\* A cut piece gives nothing.
Misses(pop, enc, blank) ==
    \A i \in 1 .. Len(enc), c \in Seq(Byte) : Cut(c, enc[i]) => ~ pop[<<c, blank>>].ok

\* The turns of a loop over a list that was cut: while they succeed, what is
\* left of the pieces is cut.
CutTurn(f, i, enc, list, blank, sz) ==
    \E c \in Seq(Byte) :
       /\ Cut(c, PushBytes("front", sz, FlattenSeq(Pushed("front", enc, Len(enc) - i))))
       /\ f[i] = Got(c, Partly("front", Len(enc), i, list, blank))
Going(f, i, enc, list, blank, sz) == f[i].ok => CutTurn(f, i, enc, list, blank, sz)

\* A turn that succeeds has found its piece whole: a later one was cut.
LEMMA OneCutTurn ==
    ASSUME NEW enc \in Seq(Seq(Byte)), NEW V, NEW pop \in [Seq(Byte) \X V -> Result(V)],
           NEW blank \in V, NEW list, NEW first, NEW n \in Nat, n = Len(enc),
           NEW f \in [0 .. n -> Result([1 .. n -> V])],
           Turning(f, first, V, pop, blank, "front", enc, list), Misses(pop, enc, blank),
           NEW sz \in Seq(Byte), NEW i \in 0 .. n - 1,
           Going(f, i, enc, list, blank, sz)
    PROVE  Going(f, i + 1, enc, list, blank, sz)
<1>1. n = Len(enc) /\ i \in 0 .. Len(enc) - 1 /\ i \in 0 .. n /\ i + 1 \in 0 .. n
      /\ i + 1 # 0 /\ (i + 1) - 1 = i
  OBVIOUS
<1> SUFFICES ASSUME f[i + 1].ok PROVE CutTurn(f, i + 1, enc, list, blank, sz)
  BY DEF Going
<1>2. "front" \in Ends
  BY DEF Ends
<1>3. PICK x \in 1 .. Len(enc), rest \in Seq(Byte) : LeftOver("front", enc, sz, i, x, rest)
  BY <1>1, <1>2, OneLess
<1>4. PICK r : r = f[i] /\ r \in Result([1 .. n -> V])
  <2>1. f[i] \in Result([1 .. n -> V])
    BY <1>1
  <2>2. QED BY <2>1
<1>5. f[i + 1] = Turned(r, x, pop)
  BY <1>1, <1>3, <1>4 DEF Turning, Filling, LeftOver
<1>6. r.ok
  BY <1>4, <1>5 DEF Turned
<1>7. PICK c \in Seq(Byte) :
         /\ Cut(c, PushBytes("front", sz, FlattenSeq(Pushed("front", enc, Len(enc) - i))))
         /\ f[i] = Got(c, Partly("front", Len(enc), i, list, blank))
  BY <1>4, <1>6 DEF CutTurn, Going
<1>8. PICK p \in Seq(Byte) : p = enc[x] /\ Cut(c, p \o rest)
  BY <1>3, <1>7 DEF LeftOver, PushBytes
<1>9. ~ Cut(c, p)
  <2>1. SUFFICES ASSUME Cut(c, p) PROVE FALSE
    OBVIOUS
  <2>2. r.body = c /\ r.value = Partly("front", n, i, list, blank)
    BY <1>1, <1>4, <1>7, GotIs
  <2>3. r.value[x] = blank
    <3>1. PartlyRight("front", n, list, blank)
      BY <1>1, <1>2, PartlyMore DEF Turning
    <3>2. QED BY <1>1, <1>3, <2>2, <3>1 DEF PartlyRight, LeftOver
  <2>4. PICK e \in Result(V) : e = pop[<<c, blank>>]
    <3>1. <<c, blank>> \in Seq(Byte) \X V
      OBVIOUS
    <3>2. QED BY <3>1
  <2>5. ~ e.ok
    BY <1>8, <2>1, <2>4 DEF Misses
  <2>6. f[i + 1] = Filled(r, x, e)
    BY <1>5, <1>6, <2>2, <2>3, <2>4 DEF Turned
  <2>7. Filled(r, x, e).ok = e.ok
    BY <2>4, FilledOk
  <2>8. QED BY <2>5, <2>6, <2>7
<1>10. PICK d \in Seq(Byte) : c = p \o d /\ Cut(d, rest)
  BY <1>8, <1>9, CutConcat
<1>11. AtTurn(f, i, x, d, "front", enc, list, blank)
  <2>1. PushBytes("front", d, enc[x]) = c
    BY <1>8, <1>10 DEF PushBytes
  <2>2. QED BY <1>3, <1>7, <2>1 DEF AtTurn, LeftOver
<1>12. f[i + 1] = Got(d, Partly("front", Len(enc), i + 1, list, blank))
  BY <1>2, <1>11, OneTurn
<1>13. QED BY <1>3, <1>10, <1>12 DEF CutTurn, LeftOver

\* A list that was cut is not popped from the front, if its elements are
\* popped when they are whole, and are not when they were cut.
LEMMA ListMissed ==
    ASSUME NEW V, NEW pop, NEW blank, NEW len, NEW enc, NEW list,
           Poppable(V, pop, blank, len, "front", enc, list), Misses(pop, enc, blank),
           NEW c, Cut(c, Between(len, enc)),
           NEW r, PopsList(r, V, pop, blank, len, "front", c, << >>)
    PROVE  ~ r.ok
<1> USE DEF Poppable
<1>1. PICK n \in Nat : n = Len(enc) /\ n = Len(list) /\ n < Power[len]
  OBVIOUS
<1>2. "front" \in Ends
  BY DEF Ends
<1>3. PICK z \in Seq(Byte) : z = serialize(0, len) /\ Len(z) = len
  BY SizeComesBack
<1>4. PICK sz \in Seq(Byte) : sz = serialize(Len(enc), len) /\ Len(sz) = len /\ deserialize(sz) = n
  BY <1>1, SizeComesBack
<1>5. PICK fl \in Seq(Byte) : fl = FlattenSeq(enc) /\ Between(len, enc) = sz \o (fl \o sz)
  <2>1. FlattenSeq(enc) \in Seq(Byte) /\ Between(len, enc) = sz \o (FlattenSeq(enc) \o sz)
    BY <1>2, <1>4, PushedBetween
  <2>2. QED BY <2>1
<1>6. PICK t \in Seq(Byte) : t = fl \o sz
  BY BytesAssoc
<1>7. c \in Seq(Byte)
  <2>1. sz \o t \in Seq(Byte)
    BY BytesAssoc
  <2>2. QED BY <1>5, <1>6, <2>1, CutIs
<1>8. CASE Cut(c, sz)
  <2>1. Len(c) < len
    BY <1>4, <1>8, CutIs
  <2>2. << >> \in Seq(V)
    OBVIOUS
  <2>3. Fails(r, c)
    BY <1>2, <1>7, <2>1, <2>2, ListPopType, Zenon
  <2>4. QED BY <2>3 DEF Fails
<1>9. ASSUME NEW d \in Seq(Byte), c = sz \o d, Cut(d, t) PROVE ~ r.ok
  <2>1. PICK size, first, m, f :
           /\ Begins(first, size, m, V, blank, len, "front", c, << >>)
           /\ f \in [0 .. m -> Result([1 .. m -> V])]
           /\ Filling(f, m, PopOrder("front", m), first, pop)
           /\ AfterLoop(r, size, m, f, "front", c, << >>)
    BY DEF PopsList
  <2>2. size = Got(d, sz)
    <3>1. size = PopBytes("front", PushBytes("front", d, sz), z)
      BY <1>3, <1>9, <2>1 DEF Begins, PushBytes
    <3>2. Len(z) = Len(sz)
      BY <1>3, <1>4
    <3>3. QED BY <1>2, <3>1, <3>2, PushedIsPopped
  <2>3. size.ok = TRUE /\ size.body = d /\ size.value = sz
    BY <2>2, GotIs
  <2>4. m = n
    BY <1>4, <2>1, <2>3 DEF Begins
  <2>5. first = Got(d, [i \in 1 .. n |-> blank])
    <3>1. Resized(<< >>, n, blank) = [i \in 1 .. n |-> blank]
      <4>1. \A i \in 1 .. n : ~ (i <= Len(<< >>))
        OBVIOUS
      <4>2. QED BY <4>1 DEF Resized
    <3>2. first = [ok |-> size.ok, body |-> size.body, value |-> Resized(<< >>, n, blank)]
      BY <2>1, <2>4, Zenon DEF Begins
    <3>3. QED BY <2>3, <3>1, <3>2 DEF Got
  <2>6. Turning(f, first, V, pop, blank, "front", enc, list)
    BY <1>1, <2>1, <2>4 DEF Turning
  <2>7. PICK S : S = {i \in Nat : i <= n => Going(f, i, enc, list, blank, sz)}
    OBVIOUS
  <2>8. 0 \in S
    <3>1. Pushed("front", enc, n - 0) = enc
      BY <1>1 DEF Pushed
    <3>2. PushBytes("front", sz, fl) = t
      BY <1>6 DEF PushBytes
    <3>3. f[0] = first
      <4>1. 0 \in 0 .. m
        BY <2>4
      <4>2. QED BY <2>1, <4>1 DEF Filling
    <3>4. Partly("front", n, 0, list, blank) = [i \in 1 .. n |-> blank]
      <4>1. PartlyRight("front", n, list, blank)
        BY <1>1, <1>2, PartlyMore
      <4>2. QED BY <4>1 DEF PartlyRight
    <3>5. CutTurn(f, 0, enc, list, blank, sz)
      BY <1>1, <1>5, <1>9, <2>5, <3>1, <3>2, <3>3, <3>4 DEF CutTurn
    <3>6. QED BY <2>7, <3>5 DEF Going
  <2>9. ASSUME NEW i \in Nat, i \in S PROVE i + 1 \in S
    <3>1. SUFFICES ASSUME i + 1 <= n PROVE Going(f, i + 1, enc, list, blank, sz)
      BY <2>7
    <3>2. i \in 0 .. Len(enc) - 1 /\ i <= n
      BY <1>1, <3>1
    <3>3. Going(f, i, enc, list, blank, sz)
      BY <2>7, <2>9, <3>2
    <3>4. f \in [0 .. n -> Result([1 .. n -> V])] /\ i \in 0 .. n - 1
      BY <1>1, <2>1, <2>4, <3>2
    <3>5. QED BY <1>1, <2>6, <3>1, <3>2, <3>3, <3>4, OneCutTurn, Zenon
  <2>10. SUFFICES ASSUME f[n].ok PROVE ~ r.ok
    BY <2>1, <2>3, <2>4 DEF AfterLoop
  <2>11. CutTurn(f, n, enc, list, blank, sz)
    <3>1. n \in S
      BY <2>8, <2>9, SetInduction
    <3>2. QED BY <2>7, <2>10, <3>1 DEF Going
  <2>12. PushBytes("front", sz, FlattenSeq(Pushed("front", enc, Len(enc) - n))) = sz
    <3>1. Pushed("front", enc, 0) = << >> /\ Len(enc) - n = 0
      BY <1>1 DEF Pushed
    <3>2. PushBytes("front", sz, << >>) = sz
      BY DEF PushBytes
    <3>3. QED BY <3>1, <3>2, FlattenEmpty
  <2>13. PICK e, v : e \in Seq(Byte) /\ Cut(e, sz) /\ f[n] = Got(e, v)
    BY <2>11, <2>12 DEF CutTurn
  <2>14. PICK other \in Result(Seq(Byte)) : other = PopBytes("front", e, sz) /\ ~ other.ok
    <3>1. Len(e) < Len(sz)
      BY <2>13, CutIs
    <3>2. ~ (Len(e) >= Len(sz))
      BY <3>1
    <3>3. QED BY <1>2, <2>13, <3>2, BytesPopped
  <2>15. r = [other EXCEPT !.value = f[n].value]
    <3>1. f[n].body = e
      BY <2>13, GotIs
    <3>2. QED BY <2>1, <2>3, <2>4, <2>10, <2>14, <3>1 DEF AfterLoop
  <2>16. r = [ok |-> other.ok, body |-> other.body, value |-> f[n].value]
    BY <2>15, ValueChanged
  <2>17. QED BY <2>14, <2>16
<1>10. Cut(c, sz) \/ \E d \in Seq(Byte) : c = sz \o d /\ Cut(d, t)
  <2>1. Cut(c, sz \o t)
    BY <1>5, <1>6
  <2>2. QED BY <2>1, CutConcat
<1>11. QED BY <1>8, <1>9, <1>10

-----------------------------------------------------------------------------
(* Strings and vectors *)

\* The widths of the sizes, and a byte that is blank.
LEMMA WidthIs ==
    /\ SizeLen \in Nat \ {0} /\ WideLen \in Nat \ {0} /\ SizeLen \in Nat /\ WideLen \in Nat
    /\ <<0>> \in Seq(Byte) /\ Len(<<0>>) = 1
BY WidthAssumption, WideAssumption DEF Byte

\* A pop of a list of bytes gives such a list, and fails without a size.
LEMMA CharsType ==
    ASSUME NEW end \in Ends, NEW body \in Seq(Byte), NEW len \in Nat, NEW old \in Seq(Seq(Byte))
    PROVE  /\ PopChars(len, end, body, old) \in Result(Seq(Seq(Byte)))
           /\ Len(body) < len => Fails(PopChars(len, end, body, old), body)
<1>1. PICK V : V = Seq(Byte)
  OBVIOUS
<1>2. PICK r : r = PopChars(len, end, body, old)
  OBVIOUS
<1>3. PopsList(r, V, BytePop(end), <<0>>, len, end, body, old) /\ old \in Seq(V)
  BY <1>1, <1>2, WidthIs, CharsLoop
<1>4. QED BY <1>1, <1>2, <1>3, ListPopType, Zenon

\* Their elements are single bytes.
LEMMA CharIs ==
    ASSUME NEW list \in Seq(Chars)
    PROVE  /\ list \in Seq(Seq(Byte))
           /\ \A i \in 1 .. Len(list) : list[i] \in Seq(Byte) /\ Len(list[i]) = 1
<1>1. \A x \in Chars : x \in Seq(Byte) /\ Len(x) = 1
  <2> TAKE x \in Chars
  <2>1. PICK n \in Nat : n = 1
    OBVIOUS
  <2>2. x \in [1 .. n -> Byte]
    BY <2>1 DEF Chars
  <2>3. x \in Seq(Byte) /\ Len(x) = n
    BY <2>2
  <2>4. QED BY <2>1, <2>3
<1>2. \A i \in 1 .. Len(list) : list[i] \in Chars
  BY ElementOfSeq
<1>3. list \in Seq(Seq(Byte))
  BY <1>1
<1>4. QED BY <1>1, <1>2, <1>3

\* A string or a vector is such a list.
LEMMA CharsPoppable ==
    ASSUME NEW end \in Ends, NEW len \in Nat, NEW list \in Seq(Chars), Len(list) < Power[len]
    PROVE  /\ Poppable(Seq(Byte), BytePop(end), <<0>>, len, end, list, list)
           /\ Misses(BytePop(end), list, <<0>>)
<1>1. PICK blank \in Seq(Byte) : blank = <<0>> /\ Len(blank) = 1
  BY WidthIs
<1>2. PICK pop : pop = BytePop(end)
  OBVIOUS
<1>3. \A x \in Seq(Byte) : <<x, blank>> \in Seq(Byte) \X Seq(Byte)
  OBVIOUS
<1>4. \A x \in Seq(Byte) : pop[<<x, blank>>] = PopBytes(end, x, blank)
  BY <1>3, <1>2 DEF BytePop
<1>5. Gives(pop, end, list, list, blank)
  <2>1. SUFFICES ASSUME NEW i \in 1 .. Len(list), NEW d \in Seq(Byte)
                 PROVE  pop[<<PushBytes(end, d, list[i]), blank>>] = Got(d, list[i])
    BY DEF Gives
  <2>2. PICK e \in Seq(Byte) : e = list[i] /\ Len(e) = 1
    BY CharIs
  <2>3. PICK de \in Seq(Byte) : de = PushBytes(end, d, e)
    BY BytesAssoc DEF PushBytes
  <2>4. Len(blank) = Len(e)
    BY <1>1, <2>2
  <2>5. PopBytes(end, de, blank) = Got(d, e)
    BY <2>3, <2>4, PushedIsPopped
  <2>6. QED BY <1>4, <2>2, <2>3, <2>5
<1>6. Misses(pop, list, blank)
  <2>1. SUFFICES ASSUME NEW i \in 1 .. Len(list), NEW d \in Seq(Byte), Cut(d, list[i])
                 PROVE  ~ pop[<<d, blank>>].ok
    BY DEF Misses
  <2>2. Len(d) < 1
    BY <2>1, CharIs, CutIs
  <2>3. ~ (Len(d) >= Len(blank))
    BY <1>1, <2>2
  <2>4. ~ PopBytes(end, d, blank).ok
    BY <2>3, BytesPopped
  <2>5. QED BY <1>4, <2>4
<1>7. pop \in [Seq(Byte) \X Seq(Byte) -> Result(Seq(Byte))]
  <2>1. << >> \in Seq(Byte) /\ << >> \in Seq(Seq(Byte))
    OBVIOUS
  <2>2. QED BY <1>2, <2>1, WidthIs, CharsLoop
<1>8. list \in Seq(Seq(Byte))
  BY CharIs
<1>9. Poppable(Seq(Byte), pop, blank, len, end, list, list)
  BY <1>1, <1>5, <1>7, <1>8 DEF Poppable
<1>10. QED BY <1>1, <1>6, <1>9, <1>2

\* One that has been pushed is popped.
LEMMA CharsPopped ==
    ASSUME NEW end \in Ends, NEW body \in Seq(Byte), NEW len \in Nat, NEW list \in Seq(Chars),
           Len(list) < Power[len]
    PROVE  PopChars(len, end, PushBytes(end, body, Between(len, list)), << >>) = Got(body, list)
<1>1. Between(len, list) \in Seq(Byte)
  BY CharIs, BetweenType
<1>2. PICK b \in Seq(Byte) : b = PushBytes(end, body, Between(len, list))
  <2>1. PushBytes(end, body, Between(len, list)) \in Seq(Byte)
    BY <1>1, BytesAssoc DEF PushBytes
  <2>2. QED BY <2>1
<1>3. PopsList(PopChars(len, end, b, << >>), Seq(Byte), BytePop(end), <<0>>, len, end, b, << >>)
  <2>1. << >> \in Seq(Seq(Byte))
    OBVIOUS
  <2>2. QED BY <2>1, WidthIs, CharsLoop
<1>4. QED BY <1>2, <1>3, CharsPoppable, ListPopped, Zenon

\* One that was cut is not.
LEMMA CharsMissed ==
    ASSUME NEW len \in Nat, NEW list \in Seq(Chars), Len(list) < Power[len],
           NEW c, Cut(c, Between(len, list))
    PROVE  ~ PopChars(len, "front", c, << >>).ok
<1>1. "front" \in Ends
  BY DEF Ends
<1>2. c \in Seq(Byte)
  BY CharIs, BetweenType, CutIs
<1>3. PopsList(PopChars(len, "front", c, << >>), Seq(Byte), BytePop("front"), <<0>>,
               len, "front", c, << >>)
  <2>1. << >> \in Seq(Seq(Byte))
    OBVIOUS
  <2>2. QED BY <1>1, <1>2, <2>1, WidthIs, CharsLoop
<1>4. QED BY <1>1, <1>3, CharsPoppable, ListMissed, Zenon

-----------------------------------------------------------------------------
(* Vectors of vectors *)

\* How the elements of a vector of vectors are popped.
VectorPop(end) == [x \in Seq(Byte) \X Seq(Seq(Byte)) |-> PopVector(end, x[1], x[2])]

\* The pop of a vector of vectors is a loop that pops its elements so.
LEMMA VectorsLoop ==
    ASSUME NEW end \in Ends, NEW body \in Seq(Byte), NEW old \in Seq(Seq(Seq(Byte)))
    PROVE  /\ VectorPop(end) \in [Seq(Byte) \X Seq(Seq(Byte)) -> Result(Seq(Seq(Byte)))]
           /\ PopsList(PopVectors(end, body, old), Seq(Seq(Byte)), VectorPop(end), << >>,
                       SizeLen, end, body, old)
<1>1. PICK V : V = Seq(Seq(Byte))
  OBVIOUS
<1>2. PICK pop \in [Seq(Byte) \X V -> Result(V)] : pop = VectorPop(end)
  <2>1. \A x \in Seq(Byte) \X V : PopVector(end, x[1], x[2]) \in Result(V)
    <3> TAKE x \in Seq(Byte) \X V
    <3>1. x[1] \in Seq(Byte) /\ x[2] \in Seq(Seq(Byte))
      BY <1>1
    <3>2. QED BY <1>1, <3>1, WidthIs, CharsType DEF PopVector
  <2>2. QED BY <1>1, <2>1 DEF VectorPop
<1> DEFINE Size == PopBytes(end, body, serialize(0, SizeLen))
           N == deserialize(Size.value)
           Loop == CHOOSE g : g = [i \in 0 .. N |->
               IF i = 0 THEN [Size EXCEPT !.value = Resized(old, N, << >>)]
               ELSE IF g[i - 1].ok
                    THEN Filled(g[i - 1], PopOrder(end, N)[i],
                           PopVector(end, g[i - 1].body, g[i - 1].value[PopOrder(end, N)[i]]))
                    ELSE g[i - 1]]
<1>3. PopVectors(end, body, old) =
        IF ~ Size.ok THEN [ok |-> FALSE, body |-> body, value |-> old]
        ELSE IF ~ Loop[N].ok THEN Loop[N]
        ELSE [PopBytes(end, Loop[N].body, Size.value) EXCEPT !.value = Loop[N].value]
  BY Zenon DEF PopVectors, PopList
<1>4. PICK filled : filled = Loop
  OBVIOUS
<1>5. AfterLoop(PopVectors(end, body, old), Size, N, filled, end, body, old)
  <2> HIDE DEF Size, N, Loop
  <2>1. QED BY <1>3, <1>4, Zenon DEF AfterLoop
<1>6. PICK size, n, first : Begins(first, size, n, V, << >>, SizeLen, end, body, old)
  <2>1. old \in Seq(V) /\ << >> \in V
    BY <1>1
  <2>2. QED BY <2>1, WidthIs, LoopBegins
<1>7. /\ size = Size /\ n = N /\ n \in Nat /\ first \in Result([1 .. n -> V])
      /\ first = [size EXCEPT !.value = Resized(old, n, << >>)]
  <2>1. size = Size /\ n = N /\ n \in Nat /\ first \in Result([1 .. n -> V])
    BY <1>6 DEF Begins
  <2>2. PICK list : list = Resized(old, n, << >>)
    OBVIOUS
  <2>3. size \in Result(Seq(Byte))
    BY <1>6 DEF Begins
  <2>4. [size EXCEPT !.value = list] = [ok |-> size.ok, body |-> size.body, value |-> list]
    BY <2>3, ValueChanged
  <2>5. first = [ok |-> size.ok, body |-> size.body, value |-> list]
    BY <1>6, <2>2 DEF Begins
  <2>6. QED BY <2>1, <2>2, <2>4, <2>5
<1> HIDE DEF Size, N
<1>8. filled = CHOOSE g : g = [i \in 0 .. n |->
               IF i = 0 THEN first
               ELSE IF g[i - 1].ok
                    THEN Filled(g[i - 1], PopOrder(end, n)[i],
                           PopVector(end, g[i - 1].body, g[i - 1].value[PopOrder(end, n)[i]]))
                    ELSE g[i - 1]]
  BY <1>4, <1>7, Zenon
<1> HIDE DEF Loop
<1>9. PICK f \in [0 .. n -> Result([1 .. n -> V])] : Filling(f, n, PopOrder(end, n), first, pop)
  BY <1>7, PopLoop
<1>10. \A i \in 1 .. n : f[i] = IF f[i - 1].ok
                              THEN Filled(f[i - 1], PopOrder(end, n)[i],
                                     PopVector(end, f[i - 1].body, f[i - 1].value[PopOrder(end, n)[i]]))
                              ELSE f[i - 1]
  <2> TAKE i \in 1 .. n
  <2>1. i \in 0 .. n /\ i # 0 /\ i - 1 \in 0 .. n
    BY <1>7
  <2>2. PICK j \in 1 .. n : j = PopOrder(end, n)[i]
    BY <1>7, OrderIs
  <2>3. PICK r \in Result([1 .. n -> V]) : r = f[i - 1]
    BY <2>1
  <2>4. f[i] = Turned(r, j, pop)
    BY <1>9, <2>1, <2>2, <2>3 DEF Filling
  <2>5. pop[<<r.body, r.value[j]>>] = PopVector(end, r.body, r.value[j])
    <3>1. <<r.body, r.value[j]>> \in Seq(Byte) \X Seq(Seq(Byte))
      BY <1>1 DEF Result
    <3>2. QED BY <1>2, <3>1 DEF VectorPop
  <2>6. QED BY <2>2, <2>3, <2>4, <2>5, Zenon DEF Turned
<1>11. f[0] = first
  <2>1. 0 \in 0 .. n
    BY <1>7
  <2>2. QED BY <1>9, <2>1 DEF Filling
<1>12. f = [i \in 0 .. n |->
               IF i = 0 THEN first
               ELSE IF f[i - 1].ok
                    THEN Filled(f[i - 1], PopOrder(end, n)[i],
                           PopVector(end, f[i - 1].body, f[i - 1].value[PopOrder(end, n)[i]]))
                    ELSE f[i - 1]]
  <2>1. \A i \in 0 .. n : i = 0 \/ i \in 1 .. n
    BY <1>7
  <2>2. f = [i \in 0 .. n |-> f[i]]
    OBVIOUS
  <2>3. QED BY <1>10, <1>11, <2>1, <2>2
<1>13. filled = [i \in 0 .. n |->
               IF i = 0 THEN first
               ELSE IF filled[i - 1].ok
                    THEN Filled(filled[i - 1], PopOrder(end, n)[i],
                           PopVector(end, filled[i - 1].body,
                                    filled[i - 1].value[PopOrder(end, n)[i]]))
                    ELSE filled[i - 1]]
  BY <1>8, <1>12, Zenon
<1>14. filled = f
  <2>1. filled[0] = f[0]
    <3>1. 0 \in 0 .. n
      BY <1>7
    <3>2. filled[0] = first
      BY <1>13, <3>1, Zenon
    <3>3. QED BY <1>11, <3>2
  <2>2. \A i \in 1 .. n : filled[i - 1] = f[i - 1] => filled[i] = f[i]
    <3> TAKE i \in 1 .. n
    <3> HAVE filled[i - 1] = f[i - 1]
    <3>1. i \in 0 .. n /\ i # 0
      BY <1>7
    <3>2. filled[i] = IF filled[i - 1].ok
                      THEN Filled(filled[i - 1], PopOrder(end, n)[i],
                             PopVector(end, filled[i - 1].body,
                                      filled[i - 1].value[PopOrder(end, n)[i]]))
                      ELSE filled[i - 1]
      BY <1>13, <3>1, Zenon
    <3>3. QED BY <1>10, <3>2
  <2>3. filled = [i \in 0 .. n |-> filled[i]] /\ f = [i \in 0 .. n |-> f[i]]
    BY <1>13
  <2>4. Alike(filled, f, n)
    BY <2>1, <2>2, <2>3 DEF Alike
  <2>5. QED BY <1>7, <2>4, SameLoop
<1>15. AfterLoop(PopVectors(end, body, old), size, n, f, end, body, old)
  BY <1>5, <1>7, <1>14, Zenon
<1>16. PopsList(PopVectors(end, body, old), V, pop, << >>, SizeLen, end, body, old)
  BY <1>6, <1>9, <1>15, Zenon DEF PopsList
<1>17. QED BY <1>1, <1>2, <1>16

\* What a vector of vectors is written down as.
VectorsEncoded(v) == [i \in DOMAIN v |-> Between(SizeLen, v[i])]

\* Vectors are written down in bytes, one after the other.
LEMMA VectorsEncodedType ==
    ASSUME NEW v \in Seq(Seq(Seq(Byte)))
    PROVE  /\ VectorsEncoded(v) \in Seq(Seq(Byte)) /\ Len(VectorsEncoded(v)) = Len(v)
           /\ \A i \in 1 .. Len(v) : /\ v[i] \in Seq(Seq(Byte))
                                    /\ VectorsEncoded(v)[i] = Between(SizeLen, v[i])
<1>1. PICK n \in Nat : n = Len(v) /\ DOMAIN v = 1 .. n
  OBVIOUS
<1>2. \A i \in 1 .. n : v[i] \in Seq(Seq(Byte))
  BY <1>1, ElementOfSeq
<1>3. \A i \in 1 .. n : Between(SizeLen, v[i]) \in Seq(Byte)
  BY <1>2, WidthIs, BetweenType
<1>4. VectorsEncoded(v) = [i \in 1 .. n |-> Between(SizeLen, v[i])]
  BY <1>1 DEF VectorsEncoded
<1>5. QED BY <1>1, <1>2, <1>3, <1>4

\* It is pushed as that, between its two sizes.
LEMMA VectorsPushed ==
    ASSUME NEW end \in Ends, NEW v \in Seq(Seq(Seq(Byte))), NEW body \in Seq(Byte)
    PROVE  PushVectors(end, body, v) = PushBytes(end, body, Between(SizeLen, VectorsEncoded(v)))
<1>1. PICK n \in Nat : n = Len(v)
  OBVIOUS
<1>2. PICK enc \in Seq(Seq(Byte)) : enc = VectorsEncoded(v) /\ Len(enc) = n
  BY <1>1, VectorsEncodedType
<1>3. PICK size \in Seq(Byte) : size = serialize(Len(v), SizeLen)
  BY WidthIs, SizeComesBack
<1>4. PICK start \in Seq(Byte) : start = PushBytes(end, body, size)
  BY BytesAssoc DEF PushBytes
<1>5. PICK filled : filled = CHOOSE g : g = [i \in 0 .. Len(v) |->
               IF i = 0 THEN PushBytes(end, body, serialize(Len(v), SizeLen))
               ELSE PushVector(end, g[i - 1], v[PushOrder(end, Len(v))[i]])]
  OBVIOUS
<1>6. PushVectors(end, body, v) = PushBytes(end, filled[n], size)
  BY <1>1, <1>3, <1>5, Zenon DEF PushVectors, PushList
<1>7. PICK g \in [0 .. n -> Seq(Byte)] : Pushing(g, end, enc, start, n)
  BY <1>2, PushLoop
<1>8. g[0] = start
      /\ \A i \in 1 .. n : g[i] = PushBytes(end, g[i - 1], enc[PushOrder(end, n)[i]])
  <2>1. 0 \in 0 .. n /\ \A i \in 1 .. n : i \in 0 .. n /\ i # 0
    OBVIOUS
  <2>2. QED BY <1>7, <2>1, Zenon DEF Pushing
<1>9. ASSUME NEW i \in 1 .. n, NEW b \in Seq(Byte)
      PROVE  PushVector(end, b, v[PushOrder(end, n)[i]])
                = PushBytes(end, b, enc[PushOrder(end, n)[i]])
  <2>1. PICK x \in 1 .. n : x = PushOrder(end, n)[i]
    <3>1. PushOrder(end, n)[i] \in 1 .. n
      BY OrderIs
    <3>2. QED BY <3>1
  <2>2. v[x] \in Seq(Seq(Byte)) /\ enc[x] = Between(SizeLen, v[x])
    BY <1>1, <1>2, VectorsEncodedType
  <2>3. PushVector(end, b, v[x]) = PushBytes(end, b, Between(SizeLen, v[x]))
    BY <2>2, WidthIs, CharsPushed DEF PushVector
  <2>4. QED BY <2>1, <2>2, <2>3
<1>10. \A i \in 1 .. n : g[i] = PushVector(end, g[i - 1], v[PushOrder(end, n)[i]])
  <2> TAKE i \in 1 .. n
  <2>1. i - 1 \in 0 .. n
    OBVIOUS
  <2>2. g[i - 1] \in Seq(Byte)
    BY <2>1
  <2>3. QED BY <1>8, <1>9, <2>2
<1>11. g = [i \in 0 .. n |->
               IF i = 0 THEN start ELSE PushVector(end, g[i - 1], v[PushOrder(end, n)[i]])]
  <2>1. \A i \in 0 .. n : i = 0 \/ i \in 1 .. n
    OBVIOUS
  <2>2. g = [i \in 0 .. n |-> g[i]]
    OBVIOUS
  <2>3. QED BY <1>8, <1>10, <2>1, <2>2
<1>12. filled = [i \in 0 .. n |->
               IF i = 0 THEN start ELSE PushVector(end, filled[i - 1], v[PushOrder(end, n)[i]])]
  BY <1>1, <1>3, <1>4, <1>5, <1>11, Zenon
<1>13. filled = g
  <2>1. filled[0] = g[0]
    <3>1. 0 \in 0 .. n
      OBVIOUS
    <3>2. filled[0] = start
      BY <1>12, <3>1, Zenon
    <3>3. QED BY <1>8, <3>2
  <2>2. \A i \in 1 .. n : filled[i - 1] = g[i - 1] => filled[i] = g[i]
    <3> TAKE i \in 1 .. n
    <3> HAVE filled[i - 1] = g[i - 1]
    <3>1. i \in 0 .. n /\ i # 0
      OBVIOUS
    <3>2. filled[i] = PushVector(end, filled[i - 1], v[PushOrder(end, n)[i]])
      BY <1>12, <3>1, Zenon
    <3>3. QED BY <1>10, <3>2
  <2>3. filled = [i \in 0 .. n |-> filled[i]] /\ g = [i \in 0 .. n |-> g[i]]
    BY <1>12
  <2>4. Alike(filled, g, n)
    BY <2>1, <2>2, <2>3 DEF Alike
  <2>5. QED BY <2>4, SameLoop
<1>14. g[n] = PushBytes(end, start, FlattenSeq(enc))
  BY <1>2, <1>8, PushedAll, Zenon
<1>15. size = serialize(Len(enc), SizeLen) /\ SizeLen \in Nat
  BY <1>1, <1>2, <1>3, WidthIs
<1>16. PushBytes(end, PushBytes(end, start, FlattenSeq(enc)), size)
          = PushBytes(end, body, Between(SizeLen, enc))
  BY <1>4, <1>15, PushedBetween
<1>17. QED BY <1>2, <1>6, <1>13, <1>14, <1>16

\* What its pop gives is a vector of vectors; it fails if not even a size is there.
LEMMA VectorsType ==
    ASSUME NEW end \in Ends, NEW body \in Seq(Byte), NEW old \in Seq(Seq(Seq(Byte)))
    PROVE  /\ PopVectors(end, body, old) \in Result(Seq(Seq(Seq(Byte))))
           /\ Len(body) < SizeLen => Fails(PopVectors(end, body, old), body)
<1>1. PICK V : V = Seq(Seq(Byte))
  OBVIOUS
<1>2. PICK r : r = PopVectors(end, body, old)
  OBVIOUS
<1>3. PopsList(r, V, VectorPop(end), << >>, SizeLen, end, body, old) /\ old \in Seq(V)
  BY <1>1, <1>2, VectorsLoop
<1>4. QED BY <1>1, <1>2, <1>3, WidthIs, ListPopType, Zenon

\* A vector of vectors that the sizes can count, and the like of its elements.
AreVectors(v) ==
    v \in Seq(Seq(Seq(Byte))) /\ Len(v) < Power[SizeLen]
    /\ \A i \in 1 .. Len(v) : v[i] \in Seq(Chars) /\ Len(v[i]) < Power[SizeLen]

\* Each vector of a list is popped where it was pushed.
LEMMA VectorsPoppable ==
    ASSUME NEW end \in Ends, NEW v, AreVectors(v)
    PROVE  /\ Poppable(Seq(Seq(Byte)), VectorPop(end), << >>, SizeLen, end, VectorsEncoded(v), v)
           /\ end = "front" => Misses(VectorPop(end), VectorsEncoded(v), << >>)
<1> USE DEF AreVectors
<1>1. PICK enc \in Seq(Seq(Byte)) : enc = VectorsEncoded(v) /\ Len(enc) = Len(v)
  BY VectorsEncodedType
<1>2. PICK pop : pop = VectorPop(end)
  OBVIOUS
<1>3. PICK blank \in Seq(Seq(Byte)) : blank = << >>
  <2>1. << >> \in Seq(Seq(Byte))
    OBVIOUS
  <2>2. QED BY <2>1
<1>4. \A x \in Seq(Byte) : pop[<<x, blank>>] = PopVector(end, x, blank)
  <2>1. \A x \in Seq(Byte) : <<x, blank>> \in Seq(Byte) \X Seq(Seq(Byte))
    OBVIOUS
  <2>2. QED BY <1>2, <2>1 DEF VectorPop
<1>5. Gives(pop, end, enc, v, blank)
  <2>1. SUFFICES ASSUME NEW i \in 1 .. Len(enc), NEW d \in Seq(Byte)
                 PROVE  pop[<<PushBytes(end, d, enc[i]), blank>>] = Got(d, v[i])
    BY DEF Gives
  <2>2. PICK e \in Seq(Chars) : e = v[i] /\ Len(e) < Power[SizeLen]
    BY <1>1
  <2>3. enc[i] = Between(SizeLen, e) /\ enc[i] \in Seq(Byte)
    BY <1>1, <2>2, VectorsEncodedType
  <2>4. PICK de \in Seq(Byte) : de = PushBytes(end, d, enc[i])
    BY <2>3, BytesAssoc DEF PushBytes
  <2>5. PopChars(SizeLen, end, de, << >>) = Got(d, e)
    BY <2>2, <2>3, <2>4, WidthIs, CharsPopped
  <2>6. QED BY <1>3, <1>4, <2>2, <2>4, <2>5 DEF PopVector
<1>6. ASSUME end = "front" PROVE Misses(pop, enc, blank)
  <2>1. SUFFICES ASSUME NEW i \in 1 .. Len(enc), NEW d \in Seq(Byte), Cut(d, enc[i])
                 PROVE  ~ pop[<<d, blank>>].ok
    BY DEF Misses
  <2>2. PICK e \in Seq(Chars) : e = v[i] /\ Len(e) < Power[SizeLen]
    BY <1>1
  <2>3. enc[i] = Between(SizeLen, e)
    BY <1>1, <2>2, VectorsEncodedType
  <2>4. ~ PopChars(SizeLen, "front", d, << >>).ok
    BY <2>1, <2>2, <2>3, WidthIs, CharsMissed
  <2>5. QED BY <1>3, <1>4, <1>6, <2>4 DEF PopVector
<1>7. pop \in [Seq(Byte) \X Seq(Seq(Byte)) -> Result(Seq(Seq(Byte)))]
  <2>1. << >> \in Seq(Byte) /\ << >> \in Seq(Seq(Seq(Byte)))
    OBVIOUS
  <2>2. QED BY <1>2, <2>1, VectorsLoop
<1>8. Poppable(Seq(Seq(Byte)), pop, blank, SizeLen, end, enc, v)
  BY <1>1, <1>5, <1>7, WidthIs DEF Poppable
<1>9. QED BY <1>1, <1>2, <1>3, <1>6, <1>8

\* One that has been pushed is popped.
LEMMA VectorsPopped ==
    ASSUME NEW end \in Ends, NEW body \in Seq(Byte), NEW v, AreVectors(v)
    PROVE  PopVectors(end, PushBytes(end, body, Between(SizeLen, VectorsEncoded(v))), << >>)
              = Got(body, v)
<1>1. PICK enc \in Seq(Seq(Byte)) : enc = VectorsEncoded(v)
  BY VectorsEncodedType DEF AreVectors
<1>2. Between(SizeLen, enc) \in Seq(Byte)
  BY WidthIs, BetweenType
<1>3. PICK b \in Seq(Byte) : b = PushBytes(end, body, Between(SizeLen, enc))
  <2>1. PushBytes(end, body, Between(SizeLen, enc)) \in Seq(Byte)
    BY <1>2, BytesAssoc DEF PushBytes
  <2>2. QED BY <2>1
<1>4. PopsList(PopVectors(end, b, << >>), Seq(Seq(Byte)), VectorPop(end), << >>, SizeLen, end, b, << >>)
  <2>1. << >> \in Seq(Seq(Seq(Byte)))
    OBVIOUS
  <2>2. QED BY <2>1, VectorsLoop
<1>5. Poppable(Seq(Seq(Byte)), VectorPop(end), << >>, SizeLen, end, enc, v)
  BY <1>1, VectorsPoppable
<1>6. QED BY <1>1, <1>3, <1>4, <1>5, ListPopped, Zenon

\* One that was cut is not.
LEMMA VectorsMissed ==
    ASSUME NEW v, AreVectors(v), NEW c, Cut(c, Between(SizeLen, VectorsEncoded(v)))
    PROVE  ~ PopVectors("front", c, << >>).ok
<1>1. "front" \in Ends
  BY DEF Ends
<1>2. PICK enc \in Seq(Seq(Byte)) : enc = VectorsEncoded(v)
  BY VectorsEncodedType DEF AreVectors
<1>3. c \in Seq(Byte)
  BY <1>2, WidthIs, BetweenType, CutIs
<1>4. PopsList(PopVectors("front", c, << >>), Seq(Seq(Byte)), VectorPop("front"), << >>,
               SizeLen, "front", c, << >>)
  <2>1. << >> \in Seq(Seq(Seq(Byte)))
    OBVIOUS
  <2>2. QED BY <1>1, <1>3, <2>1, VectorsLoop
<1>5. /\ Poppable(Seq(Seq(Byte)), VectorPop("front"), << >>, SizeLen, "front", enc, v)
      /\ Misses(VectorPop("front"), enc, << >>)
  BY <1>1, <1>2, VectorsPoppable
<1>6. QED BY <1>2, <1>4, <1>5, ListMissed, Zenon

-----------------------------------------------------------------------------
(* Tuples *)

\* A byte and a string.
IsPair(a, b) == a \in Seq(Byte) /\ Len(a) = 1 /\ b \in Seq(Chars) /\ Len(b) < Power[WideLen]

\* The parts of a tuple are bytes.
LEMMA PairIs ==
    ASSUME NEW a, NEW b, IsPair(a, b)
    PROVE  Between(WideLen, b) \in Seq(Byte) /\ b \in Seq(Seq(Byte)) /\ a \in Seq(Byte)
BY CharIs, WidthIs, BetweenType DEF IsPair

\* A tuple that is pushed to the back is written down in its order.
LEMMA TuplePushed ==
    ASSUME NEW a, NEW b, IsPair(a, b), NEW body \in Seq(Byte)
    PROVE  PushTuple("back", body, <<a, b>>)
              = PushBytes("back", body, a \o Between(WideLen, b))
<1>1. PICK e \in Seq(Byte) : e = Between(WideLen, b) /\ a \in Seq(Byte) /\ b \in Seq(Seq(Byte))
  BY PairIs
<1>2. PICK ba \in Seq(Byte) : ba = body \o a
  BY <1>1, BytesAssoc
<1>3. PushString("back", ba, b) = ba \o e
  <2>1. "back" \in Ends
    BY DEF Ends
  <2>2. PushChars(WideLen, "back", ba, b) = PushBytes("back", ba, e)
    BY <1>1, <2>1, WidthIs, CharsPushed
  <2>3. QED BY <2>2 DEF PushString, PushBytes
<1>4. PushTuple("back", body, <<a, b>>) = PushString("back", ba, b)
  BY <1>2 DEF PushTuple, PushBytes
<1>5. (body \o a) \o e = body \o (a \o e)
  BY <1>1, BytesAssoc
<1>6. QED BY <1>1, <1>2, <1>3, <1>4, <1>5 DEF PushBytes

\* The blank tuple.
BlankTuple == <<<<0>>, << >>>>

\* The two pops of a tuple.
LEMMA TupleIs ==
    ASSUME NEW body, NEW one, NEW two
    PROVE  /\ one = PopString("back", body, << >>) /\ two = PopBytes("back", one.body, <<0>>) =>
                 PopTuple("back", body, BlankTuple)
                    = IF one.ok THEN [two EXCEPT !.value = <<two.value, one.value>>]
                                ELSE [one EXCEPT !.value = <<<<0>>, one.value>>]
           /\ one = PopBytes("front", body, <<0>>) /\ two = PopString("front", one.body, << >>) =>
                 PopTuple("front", body, BlankTuple)
                    = IF one.ok THEN [two EXCEPT !.value = <<one.value, two.value>>]
                                ELSE [one EXCEPT !.value = <<one.value, << >>>>]
<1>1. PICK old : old = BlankTuple /\ old[1] = <<0>> /\ old[2] = << >>
  <2>1. PICK zero, nil : zero = <<0>> /\ nil = << >>
    OBVIOUS
  <2>2. BlankTuple = <<zero, nil>>
    BY <2>1 DEF BlankTuple
  <2>3. QED BY <2>1, <2>2
<1>2. "front" # "back"
  OBVIOUS
<1>3. PopTuple("back", body, old) =
        IF PopString("back", body, old[2]).ok
        THEN [PopBytes("back", PopString("back", body, old[2]).body, old[1]) EXCEPT !.value =
                <<PopBytes("back", PopString("back", body, old[2]).body, old[1]).value,
                  PopString("back", body, old[2]).value>>]
        ELSE [PopString("back", body, old[2]) EXCEPT !.value =
                <<old[1], PopString("back", body, old[2]).value>>]
  BY DEF PopTuple
<1>4. PopTuple("front", body, old) =
        IF PopBytes("front", body, old[1]).ok
        THEN [PopString("front", PopBytes("front", body, old[1]).body, old[2]) EXCEPT !.value =
                <<PopBytes("front", body, old[1]).value,
                  PopString("front", PopBytes("front", body, old[1]).body, old[2]).value>>]
        ELSE [PopBytes("front", body, old[1]) EXCEPT !.value =
                <<PopBytes("front", body, old[1]).value, old[2]>>]
  BY <1>2 DEF PopTuple
<1>5. QED BY <1>1, <1>3, <1>4

\* A pop of nothing takes nothing.
LEMMA NothingPopped ==
    ASSUME NEW end \in Ends, NEW body \in Seq(Byte)
    PROVE  /\ PopBytes(end, body, <<0>>) \in Result(Seq(Byte))
           /\ PopString(end, body, << >>) \in Result(Seq(Seq(Byte)))
           /\ body = << >> => /\ Fails(PopBytes(end, body, <<0>>), body)
                             /\ Fails(PopString(end, body, << >>), body)
<1>1. PICK blank \in Seq(Byte) : blank = <<0>> /\ Len(blank) = 1
  BY WidthIs
<1>2. PICK x : x = PopBytes(end, body, blank)
  OBVIOUS
<1>3. x \in Result(Seq(Byte))
  BY <1>2, BytesPopped
<1>4. ASSUME body = << >> PROVE Fails(x, body)
  <2>1. ~ (Len(body) >= Len(blank))
    BY <1>1, <1>4
  <2>2. ~ x.ok /\ x.body = body
    BY <1>2, <2>1, BytesPopped
  <2>3. QED BY <2>2 DEF Fails
<1>5. << >> \in Seq(Seq(Byte))
  OBVIOUS
<1>6. PICK y : y = PopString(end, body, << >>)
  OBVIOUS
<1>7. y \in Result(Seq(Seq(Byte))) /\ (Len(body) < WideLen => Fails(y, body))
  BY <1>5, <1>6, WidthIs, CharsType DEF PopString
<1>8. body = << >> => Len(body) < WideLen
  BY WidthIs
<1>9. QED BY <1>1, <1>2, <1>3, <1>4, <1>6, <1>7, <1>8

\* What the pop of a tuple gives.
LEMMA TupleType ==
    ASSUME NEW end \in Ends, NEW body \in Seq(Byte), NEW r, r = PopTuple(end, body, BlankTuple)
    PROVE  /\ r.ok \in BOOLEAN /\ r.body \in Seq(Byte)
           /\ body = << >> => Fails(r, body)
<1>1. PICK V : V = Seq(Byte) \cup Seq(Seq(Byte))
  OBVIOUS
<1>2. \A b \in Seq(Byte) :
         /\ PopBytes(end, b, <<0>>) \in Result(V) /\ PopString(end, b, << >>) \in Result(V)
         /\ b = << >> => Fails(PopBytes(end, b, <<0>>), b) /\ Fails(PopString(end, b, << >>), b)
  <2> TAKE b \in Seq(Byte)
  <2>1. PICK x, y : x = PopBytes(end, b, <<0>>) /\ y = PopString(end, b, << >>)
    OBVIOUS
  <2>2. /\ x \in Result(Seq(Byte)) /\ y \in Result(Seq(Seq(Byte)))
        /\ b = << >> => Fails(x, b) /\ Fails(y, b)
    BY <2>1, NothingPopped
  <2>3. x \in Result(V) /\ y \in Result(V)
    BY <1>1, <2>2 DEF Result
  <2>4. QED BY <2>1, <2>2, <2>3
<1>3. PICK one : one = IF end = "back" THEN PopString(end, body, << >>) ELSE PopBytes(end, body, <<0>>)
  OBVIOUS
<1>4. one \in Result(V) /\ (body = << >> => Fails(one, body))
  BY <1>2, <1>3
<1>5. PICK two : two = IF end = "back" THEN PopBytes(end, one.body, <<0>>)
                                       ELSE PopString(end, one.body, << >>)
  OBVIOUS
<1>6. two \in Result(V)
  <2>1. one.body \in Seq(Byte)
    BY <1>4 DEF Result
  <2>2. QED BY <1>2, <1>5, <2>1
<1>7. PICK v, w : r = IF one.ok THEN [two EXCEPT !.value = v] ELSE [one EXCEPT !.value = w]
  <2>1. end = "back" \/ end = "front"
    BY DEF Ends
  <2>2. CASE end = "back"
    BY <1>3, <1>5, <2>2, TupleIs
  <2>3. CASE end = "front"
    BY <1>3, <1>5, <2>3, TupleIs
  <2>4. QED BY <2>1, <2>2, <2>3
<1>8. CASE one.ok
  <2>1. r = [ok |-> two.ok, body |-> two.body, value |-> v]
    BY <1>6, <1>7, <1>8, ValueChanged
  <2>2. r.ok \in BOOLEAN /\ r.body \in Seq(Byte)
    BY <1>6, <2>1 DEF Result
  <2>3. QED BY <1>4, <1>8, <2>2 DEF Fails
<1>9. CASE ~ one.ok
  <2>1. r = [ok |-> one.ok, body |-> one.body, value |-> w]
    BY <1>4, <1>7, <1>9, ValueChanged
  <2>2. r.ok \in BOOLEAN /\ r.body \in Seq(Byte)
    BY <1>4, <2>1 DEF Result
  <2>3. Fails(one, body) => Fails(r, body)
    BY <2>1 DEF Fails
  <2>4. QED BY <1>4, <2>2, <2>3
<1>10. QED BY <1>8, <1>9

\* It is popped from either end.
LEMMA TuplePopped ==
    ASSUME NEW end \in Ends, NEW a, NEW b, IsPair(a, b), NEW body \in Seq(Byte)
    PROVE  PopTuple(end, PushBytes(end, body, a \o Between(WideLen, b)), BlankTuple)
              = Got(body, <<a, b>>)
<1>1. PICK e \in Seq(Byte) : e = Between(WideLen, b) /\ a \in Seq(Byte) /\ b \in Seq(Chars)
  BY PairIs DEF IsPair
<1>2. PICK blank \in Seq(Byte) : blank = <<0>> /\ Len(blank) = Len(a)
  BY WidthIs DEF IsPair
<1>3. \A c \in Seq(Byte) : /\ PopString(end, PushBytes(end, c, e), << >>) = Got(c, b)
                          /\ PopBytes(end, PushBytes(end, c, a), <<0>>) = Got(c, a)
  <2> TAKE c \in Seq(Byte)
  <2>1. PopChars(WideLen, end, PushBytes(end, c, e), << >>) = Got(c, b)
    BY <1>1, WidthIs, CharsPopped DEF IsPair
  <2>2. PopBytes(end, PushBytes(end, c, a), blank) = Got(c, a)
    BY <1>1, <1>2, PushedIsPopped
  <2>3. QED BY <1>2, <2>1, <2>2 DEF PopString
<1>4. CASE end = "back"
  <2>1. PICK ba \in Seq(Byte) : ba = PushBytes(end, body, a)
    BY <1>1, BytesAssoc DEF PushBytes
  <2>2. PushBytes(end, body, a \o e) = PushBytes(end, ba, e)
    BY <1>1, <1>4, <2>1, BytesAssoc DEF PushBytes
  <2>3. PICK s : s = PushBytes(end, body, a \o e) /\ PopString(end, s, << >>) = Got(ba, b)
    BY <1>3, <2>2
  <2>4. PICK one, two : /\ one = Got(ba, b) /\ one.ok = TRUE /\ one.body = ba /\ one.value = b
                        /\ two = Got(body, a) /\ two.value = a
    BY GotIs
  <2>5. one = PopString("back", s, << >>) /\ two = PopBytes("back", one.body, <<0>>)
    BY <1>3, <1>4, <2>1, <2>3, <2>4
  <2>6. PopTuple(end, s, BlankTuple) = [two EXCEPT !.value = <<a, b>>]
    BY <1>4, <2>4, <2>5, TupleIs
  <2>7. [two EXCEPT !.value = <<a, b>>] = Got(body, <<a, b>>)
    <3>1. PICK t : t = <<a, b>>
      OBVIOUS
    <3>2. [two EXCEPT !.value = t] = Got(body, t)
      BY <2>4, SetGot
    <3>3. QED BY <3>1, <3>2
  <2>8. QED BY <1>1, <2>3, <2>6, <2>7
<1>5. CASE end # "back"
  <2>1. PICK be \in Seq(Byte) : be = PushBytes(end, body, e)
    BY <1>1, BytesAssoc DEF PushBytes
  <2>2. PushBytes(end, body, a \o e) = PushBytes(end, be, a)
    BY <1>1, <1>5, <2>1, BytesAssoc DEF PushBytes
  <2>3. PICK s : s = PushBytes(end, body, a \o e) /\ PopBytes(end, s, <<0>>) = Got(be, a)
    BY <1>3, <2>2
  <2>4. PICK one, two : /\ one = Got(be, a) /\ one.ok = TRUE /\ one.body = be /\ one.value = a
                        /\ two = Got(body, b) /\ two.value = b
    BY GotIs
  <2>5. end = "front"
    BY <1>5 DEF Ends
  <2>6. one = PopBytes("front", s, <<0>>) /\ two = PopString("front", one.body, << >>)
    BY <1>3, <2>1, <2>3, <2>4, <2>5
  <2>7. PopTuple(end, s, BlankTuple) = [two EXCEPT !.value = <<a, b>>]
    BY <2>4, <2>5, <2>6, TupleIs
  <2>8. [two EXCEPT !.value = <<a, b>>] = Got(body, <<a, b>>)
    <3>1. PICK t : t = <<a, b>>
      OBVIOUS
    <3>2. [two EXCEPT !.value = t] = Got(body, t)
      BY <2>4, SetGot
    <3>3. QED BY <3>1, <3>2
  <2>9. QED BY <1>1, <2>3, <2>7, <2>8
<1>6. QED BY <1>4, <1>5

\* One that was cut, in either part, is not.
LEMMA TupleMissed ==
    ASSUME NEW a, NEW b, IsPair(a, b), NEW c, Cut(c, a \o Between(WideLen, b))
    PROVE  ~ PopTuple("front", c, BlankTuple).ok
<1>1. PICK e \in Seq(Byte) : e = Between(WideLen, b) /\ a \in Seq(Byte) /\ b \in Seq(Chars)
  BY PairIs DEF IsPair
<1>2. PICK blank \in Seq(Byte) : blank = <<0>> /\ Len(blank) = Len(a)
  BY WidthIs DEF IsPair
<1>3. "front" \in Ends
  BY DEF Ends
<1>4. c \in Seq(Byte)
  BY <1>1, BytesAssoc, CutIs
<1>5. PICK one \in Result(Seq(Byte)) :
         one = PopBytes("front", c, <<0>>) /\ (c = << >> => Fails(one, c))
  BY <1>3, <1>4, NothingPopped
<1>6. PICK two : two = PopString("front", one.body, << >>)
  OBVIOUS
<1>7. PICK v, w : PopTuple("front", c, BlankTuple)
                     = IF one.ok THEN [two EXCEPT !.value = v] ELSE [one EXCEPT !.value = w]
  <2>1. PICK v, w : v = <<one.value, two.value>> /\ w = <<one.value, << >>>>
    OBVIOUS
  <2>2. PopTuple("front", c, BlankTuple)
           = IF one.ok THEN [two EXCEPT !.value = v] ELSE [one EXCEPT !.value = w]
    BY <1>5, <1>6, <2>1, TupleIs
  <2>3. QED BY <2>2
<1>8. CASE Cut(c, a)
  <2>1. ~ one.ok
    <3>1. Len(c) < 1
      BY <1>1, <1>8, CutIs DEF IsPair
    <3>2. c = << >>
      BY <1>4, <3>1
    <3>3. QED BY <1>5, <3>2 DEF Fails
  <2>2. [one EXCEPT !.value = w] = [ok |-> one.ok, body |-> one.body, value |-> w]
    BY ValueChanged
  <2>3. QED BY <1>5, <1>7, <2>1, <2>2
<1>9. ASSUME NEW d \in Seq(Byte), c = a \o d, Cut(d, e) PROVE ~ PopTuple("front", c, BlankTuple).ok
  <2>1. one = Got(d, a)
    <3>1. PopBytes("front", PushBytes("front", d, a), blank) = Got(d, a)
      BY <1>1, <1>2, <1>3, PushedIsPopped
    <3>2. PushBytes("front", d, a) = c
      BY <1>9 DEF PushBytes
    <3>3. QED BY <1>2, <1>5, <3>1, <3>2
  <2>2. one.ok = TRUE /\ one.body = d
    BY <2>1, GotIs
  <2>3. two \in Result(Seq(Seq(Byte))) /\ ~ two.ok
    <3>1. << >> \in Seq(Seq(Byte))
      OBVIOUS
    <3>2. two = PopChars(WideLen, "front", d, << >>)
      BY <1>6, <2>2 DEF PopString
    <3>3. two \in Result(Seq(Seq(Byte)))
      BY <1>3, <3>1, <3>2, WidthIs, CharsType
    <3>4. ~ two.ok
      BY <1>1, <1>9, <3>2, WidthIs, CharsMissed DEF IsPair
    <3>5. QED BY <3>3, <3>4
  <2>4. [two EXCEPT !.value = v] = [ok |-> two.ok, body |-> two.body, value |-> v]
    BY <2>3, ValueChanged
  <2>5. QED BY <1>7, <2>2, <2>3, <2>4
<1>10. Cut(c, a) \/ \E d \in Seq(Byte) : c = a \o d /\ Cut(d, e)
  <2>1. Cut(c, a \o e)
    BY <1>1
  <2>2. QED BY <1>1, <2>1, CutConcat
<1>11. QED BY <1>8, <1>9, <1>10

-----------------------------------------------------------------------------
(* Objects of all types *)

\* What the objects of a type are, as far as the pushes and the pops go.
IsObject(kind, v) ==
    \/ kind = "byte" /\ v \in Seq(Byte) /\ Len(v) = 1
    \/ kind = "string" /\ v \in Seq(Chars) /\ Len(v) < Power[WideLen]
    \/ kind = "vector" /\ v \in Seq(Chars) /\ Len(v) < Power[SizeLen]
    \/ kind = "vectors" /\ AreVectors(v)
    \/ kind = "tuple" /\ \E a, b : v = <<a, b>> /\ IsPair(a, b)

\* An object is one of its type.
LEMMA ItemIs ==
    ASSUME NEW item \in Item
    PROVE  /\ item.kind \in Kind /\ IsObject(item.kind, item.value)
           /\ item = [kind |-> item.kind, value |-> item.value]
<1>1. PICK k, v : k \in Kind /\ v \in Values[k] /\ item = [kind |-> k, value |-> v]
  BY DEF Item
<1>2. \A x \in Chars : x \in Seq(Byte) /\ Len(x) = 1
  <2> TAKE x \in Chars
  <2>1. PICK l \in Seq(Chars) : l = <<x>> /\ Len(l) = 1 /\ l[1] = x
    <3>1. <<x>> \in Seq(Chars) /\ Len(<<x>>) = 1 /\ <<x>>[1] = x
      OBVIOUS
    <3>2. QED BY <3>1
  <2>2. 1 \in 1 .. Len(l)
    BY <2>1
  <2>3. l[1] \in Seq(Byte) /\ Len(l[1]) = 1
    BY <2>2, CharIs
  <2>4. QED BY <2>1, <2>3
<1>3. SUFFICES IsObject(k, v)
  BY <1>1
<1>4. CASE k = "byte"
  BY <1>1, <1>2, <1>4, ValuesAssumption DEF IsObject
<1>5. CASE k = "string"
  BY <1>1, <1>5, ValuesAssumption DEF IsObject, IsList
<1>6. CASE k = "vector"
  BY <1>1, <1>6, ValuesAssumption DEF IsObject, IsVector, IsList
<1>7. CASE k = "vectors"
  <2>1. v \in Seq(Seq(Chars)) /\ Len(v) < Power[SizeLen]
        /\ \A i \in DOMAIN v : v[i] \in Seq(Chars) /\ Len(v[i]) < Power[SizeLen]
    BY <1>1, <1>7, ValuesAssumption DEF IsVector, IsList
  <2>2. DOMAIN v = 1 .. Len(v)
    BY <2>1
  <2>3. \A x \in Seq(Chars) : x \in Seq(Seq(Byte))
    BY CharIs
  <2>4. v \in Seq(Seq(Seq(Byte)))
    BY <2>1, <2>3
  <2>5. AreVectors(v)
    BY <2>1, <2>2, <2>4 DEF AreVectors
  <2>6. QED BY <1>7, <2>5 DEF IsObject
<1>8. CASE k = "tuple"
  <2>1. v \in Chars \X Seq(Chars) /\ Len(v[2]) < Power[WideLen]
    BY <1>1, <1>8, ValuesAssumption DEF IsList
  <2>2. PICK a, b : a = v[1] /\ b = v[2] /\ v = <<a, b>>
    BY <2>1
  <2>3. a \in Chars /\ b \in Seq(Chars)
    BY <2>1, <2>2
  <2>4. IsPair(a, b)
    BY <1>2, <2>1, <2>2, <2>3 DEF IsPair
  <2>5. QED BY <1>8, <2>2, <2>4, Zenon DEF IsObject
<1>9. QED BY <1>1, <1>4, <1>5, <1>6, <1>7, <1>8 DEF Kind

\* How an object is written down, by its type.
LEMMA EncodedIs ==
    ASSUME NEW item
    PROVE  /\ item.kind = "byte" => Encoded(item) = item.value
           /\ item.kind = "string" => Encoded(item) = Between(WideLen, item.value)
           /\ item.kind = "vector" => Encoded(item) = Between(SizeLen, item.value)
           /\ item.kind = "vectors" => Encoded(item) = Between(SizeLen, VectorsEncoded(item.value))
           /\ item.kind = "tuple" =>
                 Encoded(item) = item.value[1] \o Between(WideLen, item.value[2])
BY DEF Encoded, VectorsEncoded

\* Each type's pushes and pops.
LEMMA PushIs ==
    ASSUME NEW end, NEW body, NEW v
    PROVE  /\ Push("byte", end, body, v) = PushBytes(end, body, v)
           /\ Push("string", end, body, v) = PushChars(WideLen, end, body, v)
           /\ Push("vector", end, body, v) = PushChars(SizeLen, end, body, v)
           /\ Push("vectors", end, body, v) = PushVectors(end, body, v)
           /\ Push("tuple", end, body, v) = PushTuple(end, body, v)
BY DEF Push, PushString, PushVector

\* Which pop is taken for which type.
LEMMA PopIs ==
    ASSUME NEW end, NEW body
    PROVE  /\ Pop("byte", end, body) = PopBytes(end, body, <<0>>)
           /\ Pop("string", end, body) = PopChars(WideLen, end, body, << >>)
           /\ Pop("vector", end, body) = PopChars(SizeLen, end, body, << >>)
           /\ Pop("vectors", end, body) = PopVectors(end, body, << >>)
           /\ Pop("tuple", end, body) = PopTuple(end, body, BlankTuple)
BY DEF Pop, PopString, PopVector, BlankTuple

\* e is how v is written down, a string and a vector alike but for their sizes.
CharsObject(k, v, e, len) ==
    /\ v \in Seq(Chars) /\ Len(v) < Power[len] /\ e = Between(len, v)
    /\ \A end, body : /\ Push(k, end, body, v) = PushChars(len, end, body, v)
                      /\ Pop(k, end, body) = PopChars(len, end, body, << >>)
PairObject(v, e, a, b) == v = <<a, b>> /\ IsPair(a, b) /\ e = a \o Between(WideLen, b)
WrittenAs(k, v, e) ==
    \/ k = "byte" /\ v \in Seq(Byte) /\ Len(v) = 1 /\ e = v
    \/ \E len \in Nat : CharsObject(k, v, e, len)
    \/ k = "vectors" /\ AreVectors(v) /\ e = Between(SizeLen, VectorsEncoded(v))
    \/ k = "tuple" /\ \E a, b : PairObject(v, e, a, b)

\* Every object that may be pushed is written down in one of these ways.
LEMMA ObjectIs ==
    ASSUME NEW item \in Item, NEW k, NEW v, NEW e,
           k = item.kind, v = item.value, e = Encoded(item)
    PROVE  WrittenAs(k, v, e)
<1>1. IsObject(k, v)
  BY ItemIs
<1>2. CASE k = "byte"
  BY <1>1, <1>2, EncodedIs DEF IsObject, WrittenAs
<1>3. CASE k = "string"
  <2>1. v \in Seq(Chars) /\ Len(v) < Power[WideLen]
    BY <1>1, <1>3 DEF IsObject
  <2>2. e = Between(WideLen, v)
    BY <1>3, EncodedIs
  <2>3. \A end, body : /\ Push(k, end, body, v) = PushChars(WideLen, end, body, v)
                      /\ Pop(k, end, body) = PopChars(WideLen, end, body, << >>)
    BY <1>3, PushIs, PopIs
  <2>4. CharsObject(k, v, e, WideLen)
    BY <2>1, <2>2, <2>3, Zenon DEF CharsObject
  <2>5. QED BY <2>4, WidthIs DEF WrittenAs
<1>4. CASE k = "vector"
  <2>1. v \in Seq(Chars) /\ Len(v) < Power[SizeLen]
    BY <1>1, <1>4 DEF IsObject
  <2>2. e = Between(SizeLen, v)
    BY <1>4, EncodedIs
  <2>3. \A end, body : /\ Push(k, end, body, v) = PushChars(SizeLen, end, body, v)
                      /\ Pop(k, end, body) = PopChars(SizeLen, end, body, << >>)
    BY <1>4, PushIs, PopIs
  <2>4. CharsObject(k, v, e, SizeLen)
    BY <2>1, <2>2, <2>3, Zenon DEF CharsObject
  <2>5. QED BY <2>4, WidthIs DEF WrittenAs
<1>5. CASE k = "vectors"
  BY <1>1, <1>5, EncodedIs DEF IsObject, WrittenAs
<1>6. CASE k = "tuple"
  <2>1. PICK a, b : v = <<a, b>> /\ IsPair(a, b)
    BY <1>1, <1>6 DEF IsObject
  <2>2. v[1] = a /\ v[2] = b
    BY <2>1
  <2>3. e = v[1] \o Between(WideLen, v[2])
    BY <1>6, EncodedIs
  <2>4. PairObject(v, e, a, b)
    BY <2>1, <2>2, <2>3 DEF PairObject
  <2>5. QED BY <1>6, <2>4, Zenon DEF WrittenAs
<1>7. QED BY <1>1, <1>2, <1>3, <1>4, <1>5, <1>6 DEF IsObject

\* An object is written down in bytes.
LEMMA EncodedType ==
    ASSUME NEW k, NEW v, NEW e, WrittenAs(k, v, e)
    PROVE  e \in Seq(Byte)
<1>1. CASE k = "byte" /\ v \in Seq(Byte) /\ e = v
  BY <1>1
<1>2. ASSUME NEW len \in Nat, CharsObject(k, v, e, len) PROVE e \in Seq(Byte)
  <2>1. v \in Seq(Seq(Byte)) /\ e = Between(len, v)
    BY <1>2, CharIs DEF CharsObject
  <2>2. QED BY <2>1, BetweenType
<1>3. CASE AreVectors(v) /\ e = Between(SizeLen, VectorsEncoded(v))
  <2>1. VectorsEncoded(v) \in Seq(Seq(Byte))
    BY <1>3, VectorsEncodedType DEF AreVectors
  <2>2. QED BY <1>3, <2>1, WidthIs, BetweenType
<1>4. ASSUME NEW a, NEW b, PairObject(v, e, a, b) PROVE e \in Seq(Byte)
  <2>1. IsPair(a, b) /\ e = a \o Between(WideLen, b)
    BY <1>4 DEF PairObject
  <2>2. a \in Seq(Byte) /\ Between(WideLen, b) \in Seq(Byte)
    BY <2>1, PairIs
  <2>3. QED BY <2>1, <2>2, BytesAssoc
<1>5. QED BY <1>1, <1>2, <1>3, <1>4 DEF WrittenAs

\* What a push puts at an end is the object as it is written down; a tuple at
\* the back only.
LEMMA ObjectPushed ==
    ASSUME NEW k, NEW v, NEW e, WrittenAs(k, v, e), NEW end \in Ends, NEW body \in Seq(Byte),
           end = "back" \/ k # "tuple"
    PROVE  Push(k, end, body, v) = PushBytes(end, body, e)
<1>1. CASE k = "byte" /\ e = v
  BY <1>1, PushIs
<1>2. ASSUME NEW len \in Nat, CharsObject(k, v, e, len)
      PROVE  Push(k, end, body, v) = PushBytes(end, body, e)
  <2>1. v \in Seq(Seq(Byte)) /\ e = Between(len, v)
    BY <1>2, CharIs DEF CharsObject
  <2>2. PushChars(len, end, body, v) = PushBytes(end, body, Between(len, v))
    BY <2>1, CharsPushed
  <2>3. QED BY <1>2, <2>1, <2>2 DEF CharsObject
<1>3. CASE k = "vectors" /\ AreVectors(v) /\ e = Between(SizeLen, VectorsEncoded(v))
  <2>1. v \in Seq(Seq(Seq(Byte)))
    BY <1>3 DEF AreVectors
  <2>2. PushVectors(end, body, v) = PushBytes(end, body, e)
    BY <1>3, <2>1, VectorsPushed
  <2>3. QED BY <1>3, <2>2, PushIs
<1>4. ASSUME NEW a, NEW b, k = "tuple", PairObject(v, e, a, b)
      PROVE  Push(k, end, body, v) = PushBytes(end, body, e)
  <2>1. PushTuple("back", body, <<a, b>>) = PushBytes("back", body, e)
    BY <1>4, TuplePushed DEF PairObject
  <2>2. QED BY <1>4, <2>1, PushIs DEF PairObject
<1>5. QED BY <1>1, <1>2, <1>3, <1>4, Zenon DEF WrittenAs

\* The pop of an object that lies at an end gives it, and takes it away.
LEMMA ObjectPopped ==
    ASSUME NEW k, NEW v, NEW e, WrittenAs(k, v, e), NEW end \in Ends, NEW body \in Seq(Byte)
    PROVE  Pop(k, end, PushBytes(end, body, e)) = Got(body, v)
<1>1. CASE k = "byte" /\ v \in Seq(Byte) /\ Len(v) = 1 /\ e = v
  <2>1. PICK blank \in Seq(Byte) : blank = <<0>> /\ Len(blank) = Len(v)
    BY <1>1, WidthIs
  <2>2. PopBytes(end, PushBytes(end, body, v), blank) = Got(body, v)
    BY <1>1, <2>1, PushedIsPopped
  <2>3. QED BY <1>1, <2>1, <2>2, PopIs
<1>2. ASSUME NEW len \in Nat, CharsObject(k, v, e, len)
      PROVE  Pop(k, end, PushBytes(end, body, e)) = Got(body, v)
  <2>1. PopChars(len, end, PushBytes(end, body, Between(len, v)), << >>) = Got(body, v)
    BY <1>2, CharsPopped DEF CharsObject
  <2>2. QED BY <1>2, <2>1 DEF CharsObject
<1>3. CASE k = "vectors" /\ AreVectors(v) /\ e = Between(SizeLen, VectorsEncoded(v))
  <2>1. PopVectors(end, PushBytes(end, body, e), << >>) = Got(body, v)
    BY <1>3, VectorsPopped
  <2>2. QED BY <1>3, <2>1, PopIs
<1>4. ASSUME NEW a, NEW b, k = "tuple", PairObject(v, e, a, b)
      PROVE  Pop(k, end, PushBytes(end, body, e)) = Got(body, v)
  <2>1. PopTuple(end, PushBytes(end, body, a \o Between(WideLen, b)), BlankTuple)
           = Got(body, <<a, b>>)
    BY <1>4, TuplePopped DEF PairObject
  <2>2. QED BY <1>4, <2>1, PopIs DEF PairObject
<1>5. QED BY <1>1, <1>2, <1>3, <1>4, Zenon DEF WrittenAs

\* The pop of an object that was cut fails.
LEMMA ObjectMissed ==
    ASSUME NEW k, NEW v, NEW e, WrittenAs(k, v, e), NEW c, Cut(c, e)
    PROVE  ~ Pop(k, "front", c).ok
<1>1. CASE k = "byte" /\ v \in Seq(Byte) /\ Len(v) = 1 /\ e = v
  <2>1. c \in Seq(Byte) /\ Len(c) < 1
    BY <1>1, CutIs
  <2>2. c = << >>
    BY <2>1
  <2>3. Fails(PopBytes("front", c, <<0>>), c)
    BY <2>1, <2>2, NothingPopped DEF Ends
  <2>4. QED BY <1>1, <2>3, PopIs DEF Fails
<1>2. ASSUME NEW len \in Nat, CharsObject(k, v, e, len) PROVE ~ Pop(k, "front", c).ok
  <2>1. ~ PopChars(len, "front", c, << >>).ok
    BY <1>2, CharsMissed DEF CharsObject
  <2>2. QED BY <1>2, <2>1 DEF CharsObject
<1>3. CASE k = "vectors" /\ AreVectors(v) /\ e = Between(SizeLen, VectorsEncoded(v))
  <2>1. ~ PopVectors("front", c, << >>).ok
    BY <1>3, VectorsMissed
  <2>2. QED BY <1>3, <2>1, PopIs
<1>4. ASSUME NEW a, NEW b, k = "tuple", PairObject(v, e, a, b) PROVE ~ Pop(k, "front", c).ok
  <2>1. ~ PopTuple("front", c, BlankTuple).ok
    BY <1>4, TupleMissed DEF PairObject
  <2>2. QED BY <1>4, <2>1, PopIs
<1>5. QED BY <1>1, <1>2, <1>3, <1>4, Zenon DEF WrittenAs

\* Any pop leaves bytes, and one of nothing fails.
LEMMA PopType ==
    ASSUME NEW kind \in Kind, NEW end \in Ends, NEW body \in Seq(Byte)
    PROVE  /\ Pop(kind, end, body).body \in Seq(Byte)
           /\ body = << >> => Fails(Pop(kind, end, body), body)
<1>1. PICK r : r = Pop(kind, end, body)
  OBVIOUS
<1>2. \A len \in Nat \ {0} : body = << >> => Len(body) < len
  OBVIOUS
<1>3. << >> \in Seq(Seq(Byte)) /\ << >> \in Seq(Seq(Seq(Byte)))
  OBVIOUS
<1>4. CASE kind = "byte"
  <2>1. r = PopBytes(end, body, <<0>>)
    BY <1>1, <1>4, PopIs
  <2>2. r \in Result(Seq(Byte)) /\ (body = << >> => Fails(r, body))
    BY <2>1, NothingPopped
  <2>3. QED BY <1>1, <2>2 DEF Result
<1>5. CASE kind = "string"
  <2>1. r = PopChars(WideLen, end, body, << >>)
    BY <1>1, <1>5, PopIs
  <2>2. r \in Result(Seq(Seq(Byte))) /\ (body = << >> => Fails(r, body))
    BY <1>2, <1>3, <2>1, WidthIs, CharsType
  <2>3. QED BY <1>1, <2>2 DEF Result
<1>6. CASE kind = "vector"
  <2>1. r = PopChars(SizeLen, end, body, << >>)
    BY <1>1, <1>6, PopIs
  <2>2. r \in Result(Seq(Seq(Byte))) /\ (body = << >> => Fails(r, body))
    BY <1>2, <1>3, <2>1, WidthIs, CharsType
  <2>3. QED BY <1>1, <2>2 DEF Result
<1>7. CASE kind = "vectors"
  <2>1. r = PopVectors(end, body, << >>)
    BY <1>1, <1>7, PopIs
  <2>2. r \in Result(Seq(Seq(Seq(Byte)))) /\ (body = << >> => Fails(r, body))
    BY <1>2, <1>3, <2>1, WidthIs, VectorsType
  <2>3. QED BY <1>1, <2>2 DEF Result
<1>8. CASE kind = "tuple"
  BY <1>1, <1>8, PopIs, TupleType
<1>9. QED BY <1>4, <1>5, <1>6, <1>7, <1>8 DEF Kind

-----------------------------------------------------------------------------
(* The objects in a row *)

\* A function applied to the elements of a sequence.
Maps(f, A, B) == f \in [A -> B]
Mapped(f, s) == [i \in DOMAIN s |-> f[s[i]]]
InARow(f, s, t) == Mapped(f, s \o t) = Mapped(f, s) \o Mapped(f, t)

\* Two sequences in a row are mapped to theirs in a row.
LEMMA MappedConcat ==
    ASSUME NEW A, NEW B, NEW f, Maps(f, A, B), NEW s \in Seq(A), NEW t \in Seq(A)
    PROVE  Mapped(f, s) \in Seq(B) /\ InARow(f, s, t)
<1> USE DEF Maps
<1>1. PICK k \in Nat, l \in Nat : k = Len(s) /\ l = Len(t)
  OBVIOUS
<1>2. PICK st \in Seq(A) : st = s \o t /\ Len(st) = k + l
  <2>1. s \o t \in Seq(A) /\ Len(s \o t) = Len(s) + Len(t)
    BY ConcatIs
  <2>2. QED BY <1>1, <2>1
<1>3. DOMAIN s = 1 .. k /\ DOMAIN t = 1 .. l /\ DOMAIN st = 1 .. k + l
  BY <1>1, <1>2
<1>4. PICK a, b, c : /\ a = [i \in 1 .. k |-> f[s[i]]] /\ b = [i \in 1 .. l |-> f[t[i]]]
                     /\ c = [i \in 1 .. k + l |-> f[st[i]]]
  OBVIOUS
<1>5. a \in Seq(B) /\ Len(a) = k /\ b \in Seq(B) /\ Len(b) = l /\ c \in Seq(B) /\ Len(c) = k + l
  <2>1. ASSUME NEW n \in Nat, NEW r \in Seq(A), Len(r) = n, NEW d, d = [i \in 1 .. n |-> f[r[i]]]
        PROVE  d \in Seq(B) /\ Len(d) = n
    <3>1. \A i \in 1 .. n : f[r[i]] \in B
      <4> TAKE i \in 1 .. n
      <4>1. r[i] \in A
        BY <2>1, ElementOfSeq
      <4>2. QED BY <4>1
    <3>2. QED BY <2>1, <3>1
  <2>2. k + l \in Nat
    OBVIOUS
  <2>3. QED BY <1>1, <1>2, <1>4, <2>1, <2>2
<1>6. ASSUME NEW i \in 1 .. k + l PROVE c[i] = (a \o b)[i]
  <2>1. CASE i <= k
    <3>1. i \in 1 .. k /\ i \in 1 .. Len(s)
      BY <1>1, <2>1
    <3>2. st[i] = s[i]
      BY <1>2, <3>1, ConcatIs
    <3>3. (a \o b)[i] = a[i]
      BY <1>5, <3>1, ConcatIs
    <3>4. QED BY <1>4, <3>1, <3>2, <3>3
  <2>2. CASE i > k
    <3>1. i \in Len(s) + 1 .. Len(s) + Len(t) /\ i - k \in 1 .. l
      BY <1>1, <2>2
    <3>2. st[i] = t[i - k]
      BY <1>1, <1>2, <3>1, ConcatIs
    <3>3. i \in Len(a) + 1 .. Len(a) + Len(b)
      BY <1>1, <1>5, <3>1
    <3>4. (a \o b)[i] = b[i - k]
      BY <1>5, <3>3, ConcatIs
    <3>5. QED BY <1>4, <3>1, <3>2, <3>4
  <2>3. i <= k \/ i > k
    OBVIOUS
  <2>4. QED BY <2>1, <2>2, <2>3, Zenon
<1>7. c = a \o b
  <2>1. a \o b \in Seq(B) /\ Len(a \o b) = k + l
    BY <1>5, ConcatIs
  <2>2. QED BY <1>5, <1>6, <2>1, SeqEqual
<1>8. QED BY <1>2, <1>3, <1>4, <1>5, <1>7 DEF Mapped, InARow

\* Objects in a row are written down in a row, and one by itself as it is.
LEMMA AllEncodedConcat ==
    ASSUME NEW s \in Seq(Item), NEW t \in Seq(Item)
    PROVE  /\ AllEncoded(s) \in Seq(Byte)
           /\ AllEncoded(s \o t) = AllEncoded(s) \o AllEncoded(t)
<1>1. \A item \in Item : Encoded(item) \in Seq(Byte)
  BY ObjectIs, EncodedType
<1>2. PICK f : f = [item \in Item |-> Encoded(item)] /\ Maps(f, Item, Seq(Byte))
  <2>1. [item \in Item |-> Encoded(item)] \in [Item -> Seq(Byte)]
    BY <1>1
  <2>2. QED BY <2>1, Zenon DEF Maps
<1>3. ASSUME NEW r \in Seq(Item)
      PROVE  AllEncoded(r) = FlattenSeq(Mapped(f, r))
  <2>1. \A i \in DOMAIN r : r[i] \in Item
    OBVIOUS
  <2>2. [i \in DOMAIN r |-> Encoded(r[i])] = [i \in DOMAIN r |-> f[r[i]]]
    BY <1>2, <2>1
  <2>3. QED BY <2>2, Zenon DEF AllEncoded, Mapped
<1>4. PICK a \in Seq(Seq(Byte)) : a = Mapped(f, s)
  BY <1>2, MappedConcat
<1>5. PICK b \in Seq(Seq(Byte)) : b = Mapped(f, t)
  BY <1>2, MappedConcat
<1>6. Mapped(f, s \o t) = a \o b
  <2>1. Mapped(f, s \o t) = Mapped(f, s) \o Mapped(f, t)
    <3>1. InARow(f, s, t)
      BY <1>2, MappedConcat, Zenon
    <3>2. QED BY <3>1 DEF InARow
  <2>2. QED BY <1>4, <1>5, <2>1, Zenon
<1>7. s \o t \in Seq(Item)
  OBVIOUS
<1>8. /\ AllEncoded(s) = FlattenSeq(a) /\ AllEncoded(t) = FlattenSeq(b)
      /\ AllEncoded(s \o t) = FlattenSeq(a \o b)
  BY <1>3, <1>4, <1>5, <1>6, <1>7
<1>9. FlattenSeq(a \o b) = FlattenSeq(a) \o FlattenSeq(b)
  BY FlattenConcat
<1>10. FlattenSeq(a) \in Seq(Byte)
  <2>1. << >> \in Seq(Byte)
    OBVIOUS
  <2>2. QED BY <2>1, FlattenProperties
<1>11. QED BY <1>8, <1>9, <1>10

\* No objects are written down as nothing, and one as it is by itself.
LEMMA AllEncodedFew ==
    /\ AllEncoded(<< >>) = << >>
    /\ \A item \in Item : AllEncoded(<<item>>) = Encoded(item) /\ Encoded(item) \in Seq(Byte)
<1>1. AllEncoded(<< >>) = << >>
  <2>1. [i \in DOMAIN << >> |-> Encoded(<< >>[i])] = << >>
    OBVIOUS
  <2>2. QED BY <2>1, FlattenEmpty DEF AllEncoded
<1>2. ASSUME NEW item \in Item
      PROVE  AllEncoded(<<item>>) = Encoded(item) /\ Encoded(item) \in Seq(Byte)
  <2>1. PICK e \in Seq(Byte) : e = Encoded(item)
    BY ObjectIs, EncodedType
  <2>2. PICK l : l = <<item>> /\ DOMAIN l = 1 .. 1 /\ l[1] = item
    <3>1. <<item>> \in Seq(Item) /\ Len(<<item>>) = 1 /\ <<item>>[1] = item
      OBVIOUS
    <3>2. DOMAIN <<item>> = 1 .. 1
      BY <3>1
    <3>3. QED BY <3>1, <3>2
  <2>3. [i \in DOMAIN l |-> Encoded(l[i])] = <<e>>
    <3>1. \A i \in 1 .. 1 : Encoded(l[i]) = e
      BY <2>1, <2>2
    <3>2. [i \in DOMAIN l |-> Encoded(l[i])] = [i \in 1 .. 1 |-> e]
      BY <2>2, <3>1
    <3>3. [i \in 1 .. 1 |-> e] = <<e>>
      OBVIOUS
    <3>4. QED BY <3>2, <3>3
  <2>4. FlattenSeq(<<e>>) = e
    <3>1. << >> \in Seq(Seq(Byte)) /\ Append(<< >>, e) = <<e>> /\ << >> \o e = e
      OBVIOUS
    <3>2. FlattenSeq(Append(<< >>, e)) = FlattenSeq(<< >>) \o e
      BY <3>1, FlattenProperties
    <3>3. QED BY <3>1, <3>2, FlattenEmpty
  <2>5. QED BY <2>1, <2>2, <2>3, <2>4, Zenon DEF AllEncoded
<1>3. QED BY <1>1, <1>2

-----------------------------------------------------------------------------
(* What arrives of a buffer that was cut *)

\* The bytes of the first objects.
FirstBytes(k) == AllEncoded(SubSeq(items, 1, k))

\* The more objects, the more bytes; with all of them, all bytes.
LEMMA FirstBytesAre ==
    ASSUME items \in Seq(Item), NEW m, m = Len(items)
    PROVE  /\ FirstBytes(0) = << >> /\ FirstBytes(m) = AllEncoded(items)
           /\ \A k \in 0 .. m : FirstBytes(k) \in Seq(Byte) /\ Len(FirstBytes(k)) \in Nat
           /\ \A i, j \in 0 .. m : i <= j => Len(FirstBytes(i)) <= Len(FirstBytes(j))
<1>1. m \in Nat /\ SubSeq(items, 1, 0) = << >> /\ SubSeq(items, 1, m) = items
  OBVIOUS
<1>2. ASSUME NEW k \in 0 .. m PROVE FirstBytes(k) \in Seq(Byte) /\ Len(FirstBytes(k)) \in Nat
  <2>1. PICK p \in Seq(Item) : p = SubSeq(items, 1, k)
    BY TwoParts
  <2>2. AllEncoded(p) \in Seq(Byte)
    BY AllEncodedConcat
  <2>3. QED BY <2>1, <2>2 DEF FirstBytes
<1>3. ASSUME NEW i \in 0 .. m, NEW j \in 0 .. m, i <= j
      PROVE  Len(FirstBytes(i)) <= Len(FirstBytes(j))
  <2>1. PICK p \in Seq(Item), q \in Seq(Item) : p = SubSeq(items, 1, i) /\ q = SubSeq(items, i + 1, j)
    <3>1. SubSeq(items, 1, i) \in Seq(Item)
      BY TwoParts
    <3>2. SubSeq(items, i + 1, j) \in Seq(Item)
      OBVIOUS
    <3>3. QED BY <3>1, <3>2
  <2>2. p \o q = SubSeq(items, 1, j)
    <3>1. 1 \in 1 .. Len(items) + 1 /\ i \in 1 - 1 .. Len(items) /\ j \in i .. Len(items)
      BY <1>1, <1>3
    <3>2. QED BY <2>1, <3>1, ConcatAdjacentSubSeq
  <2>3. PICK a \in Seq(Byte), b \in Seq(Byte) : a = AllEncoded(p) /\ b = AllEncoded(q)
                                                /\ AllEncoded(p \o q) = a \o b
    BY AllEncodedConcat
  <2>4. Len(a) <= Len(a \o b)
    BY BytesConcat
  <2>5. QED BY <2>1, <2>2, <2>3, <2>4 DEF FirstBytes
<1>4. FirstBytes(0) = << >> /\ FirstBytes(m) = AllEncoded(items)
  BY <1>1, AllEncodedFew DEF FirstBytes
<1>5. QED BY <1>2, <1>3, <1>4

\* The objects that lie whole in the first n bytes are all before the one
\* that the cut goes through.
LEMMA WholeInIs ==
    ASSUME items \in Seq(Item), NEW n \in Nat, n < Len(AllEncoded(items))
    PROVE  \E k \in 0 .. Len(items) - 1 :
              /\ WholeIn(n) = SubSeq(items, 1, k)
              /\ Len(FirstBytes(k)) <= n /\ n < Len(FirstBytes(k + 1))
<1>1. PICK m \in Nat : m = Len(items)
  OBVIOUS
<1>2. PICK size : size = [k \in 0 .. m |-> Len(FirstBytes(k))]
  OBVIOUS
<1>3. /\ \A k \in 0 .. m : size[k] \in Nat /\ size[k] = Len(FirstBytes(k))
      /\ \A i, j \in 0 .. m : i <= j => size[i] <= size[j]
      /\ size[0] = 0 /\ n < size[m]
  <2>1. \A k \in 0 .. m : size[k] \in Nat /\ size[k] = Len(FirstBytes(k))
    BY <1>1, <1>2, FirstBytesAre
  <2>2. \A i, j \in 0 .. m : i <= j => size[i] <= size[j]
    BY <1>1, <2>1, FirstBytesAre
  <2>3. size[0] = 0 /\ n < size[m]
    <3>1. 0 \in 0 .. m /\ m \in 0 .. m /\ Len(<< >>) = 0
      OBVIOUS
    <3>2. FirstBytes(0) = << >> /\ FirstBytes(m) = AllEncoded(items)
      BY <1>1, FirstBytesAre
    <3>3. QED BY <2>1, <3>1, <3>2
  <2>4. QED BY <2>1, <2>2, <2>3
<1>4. PICK k \in 0 .. m - 1 : size[k] <= n /\ n < size[k + 1]
  <2>1. SUFFICES ASSUME \A k \in 0 .. m - 1 : ~ (size[k] <= n /\ n < size[k + 1]) PROVE FALSE
    OBVIOUS
  <2>2. PICK S : S = {k \in Nat : k <= m => size[k] <= n}
    OBVIOUS
  <2>3. 0 \in S
    BY <1>3, <2>2
  <2>4. ASSUME NEW k \in Nat, k \in S PROVE k + 1 \in S
    <3>1. SUFFICES ASSUME k + 1 <= m PROVE size[k + 1] <= n
      BY <2>2
    <3>2. k \in 0 .. m - 1 /\ k + 1 \in 0 .. m /\ k <= m
      BY <3>1
    <3>3. size[k] <= n /\ size[k + 1] \in Nat
      BY <1>3, <2>2, <2>4, <3>2
    <3>4. QED BY <2>1, <3>2, <3>3
  <2>5. m \in S
    BY <2>3, <2>4, SetInduction
  <2>6. m \in 0 .. m
    OBVIOUS
  <2>7. size[m] <= n /\ n < size[m] /\ size[m] \in Nat
    BY <1>3, <2>2, <2>5, <2>6
  <2>8. QED BY <2>7
<1>5. \A j \in 0 .. m : size[j] <= n => j <= k
  <2> TAKE j \in 0 .. m
  <2>1. SUFFICES ASSUME size[j] <= n, ~ (j <= k) PROVE FALSE
    OBVIOUS
  <2>2. k + 1 <= j /\ k + 1 \in 0 .. m
    BY <2>1
  <2>3. size[k + 1] <= size[j] /\ size[k + 1] \in Nat /\ size[j] \in Nat
    BY <1>3, <2>2
  <2>4. QED BY <1>4, <2>1, <2>3
<1>6. \A j \in 0 .. m : Len(SubSeq(items, 1, j)) = j
  BY <1>1, TwoParts
<1>7. Prefixes(items) = {SubSeq(items, 1, j) : j \in 0 .. m}
  BY <1>1 DEF Prefixes
<1>8. PICK Fits : Fits = {p \in Prefixes(items) : Len(AllEncoded(p)) <= n}
  OBVIOUS
<1>9. \A p : p \in Fits <=> \E j \in 0 .. m : p = SubSeq(items, 1, j) /\ size[j] <= n
  BY <1>3, <1>7, <1>8 DEF FirstBytes
<1>10. k \in 0 .. m
  OBVIOUS
<1>11. PICK p : p = SubSeq(items, 1, k) /\ p \in Fits /\ Len(p) = k
  BY <1>4, <1>6, <1>9, <1>10
<1>12. \A q \in Fits : Len(q) <= Len(p)
  BY <1>5, <1>6, <1>9, <1>11
<1>13. WholeIn(n) = CHOOSE w \in Prefixes(items) :
                      /\ Len(AllEncoded(w)) <= n
                      /\ \A q \in Prefixes(items) : Len(AllEncoded(q)) <= n => Len(q) <= Len(w)
  BY DEF WholeIn
<1>14. WholeIn(n) \in Fits /\ Len(p) <= Len(WholeIn(n))
  <2>1. \E w \in Prefixes(items) :
           /\ Len(AllEncoded(w)) <= n
           /\ \A q \in Prefixes(items) : Len(AllEncoded(q)) <= n => Len(q) <= Len(w)
    BY <1>8, <1>11, <1>12
  <2>2. /\ WholeIn(n) \in Prefixes(items) /\ Len(AllEncoded(WholeIn(n))) <= n
        /\ \A q \in Prefixes(items) : Len(AllEncoded(q)) <= n => Len(q) <= Len(WholeIn(n))
    BY <1>13, <2>1, Zenon
  <2>3. QED BY <1>8, <1>11, <2>2
<1>15. PICK j \in 0 .. m : WholeIn(n) = SubSeq(items, 1, j) /\ size[j] <= n
  BY <1>9, <1>14
<1>16. j = k
  BY <1>5, <1>6, <1>11, <1>14, <1>15
<1>17. k \in 0 .. Len(items) - 1 /\ k + 1 \in 0 .. m
  BY <1>1
<1>18. QED BY <1>3, <1>4, <1>10, <1>15, <1>16, <1>17

\* The cut leaves those, and a part of that one.
LEMMA CutThrough ==
    ASSUME NEW a \in Seq(Byte), NEW e \in Seq(Byte), NEW r \in Seq(Byte), NEW n \in Nat,
           Len(a) <= n, n < Len(a \o e)
    PROVE  \E d \in Seq(Byte) : Cut(d, e) /\ SubSeq((a \o e) \o r, 1, n) = a \o d
<1>1. /\ \A x \in Seq(Byte) : (a \o e) \o x = a \o (e \o x)
      /\ e \o r \in Seq(Byte) /\ a \o e \in Seq(Byte)
  BY BytesAssoc
<1>2. PICK er \in Seq(Byte) : er = e \o r
  BY <1>1, Zenon
<1>3. PICK ae \in Seq(Byte) : ae = a \o e
  BY <1>1, Zenon
<1>4. PICK s \in Seq(Byte) : s = ae \o r /\ s = a \o er /\ Len(s) = Len(ae) + Len(r)
  <2>1. ae \o r \in Seq(Byte) /\ Len(ae \o r) = Len(ae) + Len(r)
    BY BytesConcat, Zenon
  <2>2. ae \o r = a \o er
    BY <1>1, <1>2, <1>3, Zenon
  <2>3. QED BY <2>1, <2>2, Zenon
<1>5. n < Len(ae) /\ n \in 0 .. Len(s) - 1 /\ n \in 0 .. Len(s)
  <2>1. Len(ae) \in Nat /\ Len(r) \in Nat
    OBVIOUS
  <2>2. n < Len(ae)
    BY <1>3
  <2>3. QED BY <1>4, <2>1, <2>2
<1>6. PICK c \in Seq(Byte) : c = SubSeq(s, 1, n) /\ Len(c) = n /\ Cut(c, s)
  <2>1. SubSeq(s, 1, n) \in Seq(Byte) /\ Len(SubSeq(s, 1, n)) = n
    BY <1>5, TwoParts
  <2>2. Cut(SubSeq(s, 1, n), s)
    BY <1>5 DEF Cut
  <2>3. QED BY <2>1, <2>2
<1>7. ~ Cut(c, a)
  <2>1. SUFFICES ASSUME Cut(c, a) PROVE FALSE
    OBVIOUS
  <2>2. Len(c) < Len(a)
    BY <2>1, CutIs
  <2>3. QED BY <1>6, <2>2
<1>8. PICK d \in Seq(Byte) : c = a \o d /\ Cut(d, er)
  <2>1. Cut(c, a \o er)
    BY <1>4, <1>6, Zenon
  <2>2. QED BY <1>7, <2>1, CutConcat
<1>9. ASSUME NEW x \in Seq(Byte), d = e \o x PROVE FALSE
  <2>1. (a \o e) \o x = a \o (e \o x)
    BY <1>1, Zenon
  <2>2. c = ae \o x
    BY <1>3, <1>8, <1>9, <2>1, Zenon
  <2>3. Len(ae \o x) = Len(ae) + Len(x) /\ Len(x) \in Nat /\ Len(ae) \in Nat
    BY BytesConcat, Zenon
  <2>4. Len(c) = Len(ae) + Len(x)
    BY <2>2, <2>3, Zenon
  <2>5. QED BY <1>5, <1>6, <2>3, <2>4
<1>10. Cut(d, e)
  <2>1. Cut(d, e \o r)
    BY <1>2, <1>8, Zenon
  <2>2. Cut(d, e) \/ \E x \in Seq(Byte) : d = e \o x /\ Cut(x, r)
    BY <2>1, CutConcat
  <2>3. QED BY <1>9, <2>2, Zenon
<1>11. SubSeq((a \o e) \o r, 1, n) = a \o d
  BY <1>3, <1>4, <1>6, <1>8, Zenon
<1>12. QED BY <1>10, <1>11, Zenon

-----------------------------------------------------------------------------
(* The steps of a buffer, when no tuple is pushed at the front *)

\* Of a buffer that was cut, the object that the cut went through remains in
\* part, after those that lie whole: this is what makes the next pop fail.
Remains ==
    missing \in Kind =>
       \E item \in Item, c \in Seq(Byte) :
          item.kind = missing /\ Cut(c, Encoded(item)) /\ m_body = AllEncoded(items) \o c
BufferInv == BodyHoldsItems /\ Remains

\* An object of a buffer, and how it is written down.
LEMMA ItemWritten ==
    ASSUME NEW item \in Item
    PROVE  /\ WrittenAs(item.kind, item.value, Encoded(item))
           /\ Encoded(item) \in Seq(Byte)
           /\ item.kind \in Kind /\ item = [kind |-> item.kind, value |-> item.value]
<1>1. WrittenAs(item.kind, item.value, Encoded(item))
  BY ObjectIs
<1>2. Encoded(item) \in Seq(Byte)
  BY <1>1, EncodedType
<1>3. item.kind \in Kind /\ item = [kind |-> item.kind, value |-> item.value]
  BY DEF Item
<1>4. QED BY <1>1, <1>2, <1>3

\* The words that say that nothing is missing are no types.
LEMMA NoTypes == Nothing \notin Kind /\ GivenUp \notin Kind /\ Nothing # GivenUp
BY DEF Kind, Nothing, GivenUp

\* A pop takes the object at that end.
LEMMA Taken ==
    ASSUME NEW item \in Item, NEW end \in Ends, NEW body \in Seq(Byte),
           m_body = PushBytes(end, body, Encoded(item)), Take(item.kind, end)
    PROVE  m_body' = body /\ popped' = item
<1>1. Pop(item.kind, end, m_body) = Got(body, item.value)
  BY ItemWritten, ObjectPopped
<1>2. QED BY <1>1, GotIs, ItemWritten DEF Take

\* A pop that fails gives nothing, and of an empty body leaves it.
LEMMA NoneTaken ==
    ASSUME NEW kind \in Kind, NEW end \in Ends, m_body \in Seq(Byte), Take(kind, end),
           m_body = << >> \/ ~ Pop(kind, end, m_body).ok
    PROVE  /\ m_body' \in Seq(Byte) /\ popped' = NoItem
           /\ m_body = << >> => m_body' = << >>
<1>1. PICK r : r = Pop(kind, end, m_body) /\ r.body \in Seq(Byte)
               /\ (m_body = << >> => Fails(r, m_body))
  BY PopType
<1>2. ~ r.ok /\ (m_body = << >> => r.body = << >>)
  BY <1>1 DEF Fails
<1>3. QED BY <1>1, <1>2 DEF Take

\* The objects but the one at an end.
LEMMA Ended ==
    ASSUME NEW s \in Seq(Item), s # << >>
    PROVE  /\ Front(s) \in Seq(Item) /\ Last(s) \in Item /\ s = Front(s) \o <<Last(s)>>
           /\ Tail(s) \in Seq(Item) /\ Head(s) \in Item /\ s = <<Head(s)>> \o Tail(s)
           /\ Len(Front(s)) <= Len(s) /\ Len(Tail(s)) <= Len(s)
BY DEF Front, Last

\* A sequence of objects with one more, at either end.
LEMMA OneMore ==
    ASSUME NEW s \in Seq(Item), NEW item \in Item
    PROVE  /\ Append(s, item) = s \o <<item>>
           /\ Append(s, item) \in Seq(Item) /\ Len(Append(s, item)) = Len(s) + 1
           /\ <<item>> \o s \in Seq(Item) /\ Len(<<item>> \o s) = Len(s) + 1
           /\ <<item>> \in Seq(Item)
OBVIOUS

\* The bytes of the objects with one more, at either end.
LEMMA EncodedEnds ==
    ASSUME NEW s \in Seq(Item), NEW item \in Item
    PROVE  /\ AllEncoded(s) \in Seq(Byte) /\ Encoded(item) \in Seq(Byte)
           /\ AllEncoded(s \o <<item>>) = AllEncoded(s) \o Encoded(item)
           /\ AllEncoded(<<item>> \o s) = Encoded(item) \o AllEncoded(s)
<1>1. PICK one \in Seq(Item) : one = <<item>>
  BY OneMore
<1>2. AllEncoded(one) = Encoded(item) /\ Encoded(item) \in Seq(Byte)
  BY <1>1, AllEncodedFew
<1>3. /\ AllEncoded(s \o one) = AllEncoded(s) \o AllEncoded(one)
      /\ AllEncoded(one \o s) = AllEncoded(one) \o AllEncoded(s)
      /\ AllEncoded(s) \in Seq(Byte)
  BY AllEncodedConcat
<1>4. QED BY <1>1, <1>2, <1>3, Zenon

\* The deque and the buffer mean the same by the ends of a sequence.
LEMMA SameOperators ==
    /\ \A s : Deque!Front(s) = Front(s) /\ Deque!Last(s) = Last(s)
    /\ \A s : Deque!Prefixes(s) = Prefixes(s)
BY DEF Front, Last, Prefixes, Deque!Front, Deque!Last, Deque!Prefixes

\* push_back() writes the object down behind the others.
LEMMA PushBackStep ==
    ASSUME BufferInv, NEW item \in Item, PushBack(item)
    PROVE  BufferInv' /\ Deque!PushBack(item)
<1>1. /\ m_body = AllEncoded(items) /\ missing = Nothing /\ missing' = Nothing
      /\ items \in Seq(Item) /\ m_body \in Seq(Byte)
  BY DEF BufferInv, BodyHoldsItems, BufferTypeOK, PushBack
<1>2. PICK e \in Seq(Byte) : e = Encoded(item) /\ WrittenAs(item.kind, item.value, e)
  BY ItemWritten
<1>3. m_body' = m_body \o e
  <2>1. "back" \in Ends
    BY DEF Ends
  <2>2. Push(item.kind, "back", m_body, item.value) = PushBytes("back", m_body, e)
    BY <1>1, <1>2, <2>1, ObjectPushed
  <2>3. QED BY <2>2 DEF PushBack, PushBytes
<1>4. items' = items \o <<item>> /\ items' \in Seq(Item) /\ Len(items') = Len(items) + 1
  BY <1>1, OneMore DEF PushBack
<1>5. m_body' = AllEncoded(items') /\ m_body' \in Seq(Byte)
  <2>1. AllEncoded(items \o <<item>>) = AllEncoded(items) \o Encoded(item)
    BY <1>1, EncodedEnds
  <2>2. m_body' = AllEncoded(items')
    BY <1>1, <1>2, <1>3, <1>4, <2>1, Zenon
  <2>3. m_body' \in Seq(Byte)
    BY <1>1, <1>3, BytesAssoc
  <2>4. QED BY <2>2, <2>3
<1>6. Len(items') <= MaxItems
  BY <1>1, <1>4, BufferAssumption DEF PushBack
<1>7. BufferTypeOK'
  BY <1>1, <1>4, <1>5, <1>6 DEF BufferTypeOK, BufferInv, BodyHoldsItems, PushBack
<1>8. BodyHoldsItems' /\ Remains'
  <2>1. (missing = Nothing => m_body = AllEncoded(items))'
    BY <1>5 DEF AllEncoded
  <2>2. missing' \notin Kind
    BY <1>1, NoTypes
  <2>3. QED BY <1>7, <2>1, <2>2 DEF BodyHoldsItems, Remains
<1>9. QED BY <1>8 DEF BufferInv, PushBack, Deque!PushBack

\* push_front() writes it down before the others.
LEMMA PushFrontStep ==
    ASSUME BufferInv, NEW item \in Item, PushFront(item), "tuple" \notin FrontKinds
    PROVE  /\ BufferInv' /\ Deque!PushFront(item)
           /\ m_body' = PushBytes("front", m_body, Encoded(item))
<1>1. /\ m_body = AllEncoded(items) /\ missing = Nothing /\ missing' = Nothing
      /\ items \in Seq(Item) /\ m_body \in Seq(Byte)
  BY DEF BufferInv, BodyHoldsItems, BufferTypeOK, PushFront
<1>2. PICK e \in Seq(Byte) : e = Encoded(item) /\ WrittenAs(item.kind, item.value, e)
  BY ItemWritten
<1>3. m_body' = PushBytes("front", m_body, e) /\ m_body' = e \o m_body
  <2>1. "front" \in Ends /\ item.kind # "tuple"
    BY DEF Ends, PushFront
  <2>2. Push(item.kind, "front", m_body, item.value) = PushBytes("front", m_body, e)
    BY <1>1, <1>2, <2>1, ObjectPushed
  <2>3. QED BY <2>2 DEF PushFront, PushBytes
<1>4. items' = <<item>> \o items /\ items' \in Seq(Item) /\ Len(items') = Len(items) + 1
  BY <1>1, OneMore DEF PushFront
<1>5. m_body' = AllEncoded(items') /\ m_body' \in Seq(Byte)
  <2>1. AllEncoded(<<item>> \o items) = Encoded(item) \o AllEncoded(items)
    BY <1>1, EncodedEnds
  <2>2. m_body' = AllEncoded(items')
    BY <1>1, <1>2, <1>3, <1>4, <2>1, Zenon
  <2>3. m_body' \in Seq(Byte)
    BY <1>1, <1>3, BytesAssoc
  <2>4. QED BY <2>2, <2>3
<1>6. Len(items') <= MaxItems
  BY <1>1, <1>4, BufferAssumption DEF PushFront
<1>7. BufferTypeOK'
  BY <1>1, <1>4, <1>5, <1>6 DEF BufferTypeOK, BufferInv, BodyHoldsItems, PushFront
<1>8. BodyHoldsItems' /\ Remains'
  <2>1. (missing = Nothing => m_body = AllEncoded(items))'
    BY <1>5 DEF AllEncoded
  <2>2. missing' \notin Kind
    BY <1>1, NoTypes
  <2>3. QED BY <1>7, <2>1, <2>2 DEF BodyHoldsItems, Remains
<1>9. QED BY <1>2, <1>3, <1>8 DEF BufferInv, PushFront, Deque!PushFront

\* pop_back() takes the last object, or fails when there is none.
LEMMA PopBackStep ==
    ASSUME BufferInv, NEW kind \in Kind, PopBack(kind)
    PROVE  BufferInv' /\ Deque!PopBack
<1>1. /\ m_body = AllEncoded(items) /\ missing = Nothing /\ missing' = Nothing
      /\ items \in Seq(Item) /\ m_body \in Seq(Byte) /\ Take(kind, "back") /\ "back" \in Ends
  BY DEF BufferInv, BodyHoldsItems, BufferTypeOK, PopBack, Ends
<1>2. SUFFICES /\ m_body' = AllEncoded(items') /\ m_body' \in Seq(Byte)
               /\ items' \in Seq(Item) /\ Len(items') <= Len(items)
               /\ popped' \in Item \cup {NoItem} /\ Deque!PopBack
  <2>1. Len(items') <= MaxItems
    BY <1>1, <1>2, BufferAssumption DEF BufferInv, BodyHoldsItems, BufferTypeOK
  <2>2. BufferTypeOK'
    BY <1>1, <1>2, <2>1 DEF BufferTypeOK
  <2>3. (missing = Nothing => m_body = AllEncoded(items))'
    BY <1>2 DEF AllEncoded
  <2>4. missing' \notin Kind
    BY <1>1, NoTypes
  <2>5. QED BY <1>2, <2>2, <2>3, <2>4 DEF BufferInv, BodyHoldsItems, Remains
<1>3. CASE items = << >>
  <2>1. m_body = << >>
    BY <1>1, <1>3, AllEncodedFew
  <2>2. m_body' = << >> /\ popped' = NoItem
    BY <1>1, <2>1, NoneTaken
  <2>3. items' = items
    BY <1>3 DEF PopBack
  <2>4. QED BY <1>1, <1>3, <2>1, <2>2, <2>3 DEF Deque!PopBack
<1>4. CASE items # << >>
  <2>1. PICK s \in Seq(Item), item \in Item :
           s = Front(items) /\ item = Last(items) /\ items = s \o <<item>> /\ Len(s) <= Len(items)
    BY <1>1, <1>4, Ended
  <2>2. AllEncoded(s) \in Seq(Byte) /\ m_body = AllEncoded(s) \o Encoded(item)
    <3>1. /\ AllEncoded(s) \in Seq(Byte)
          /\ AllEncoded(s \o <<item>>) = AllEncoded(s) \o Encoded(item)
      BY EncodedEnds
    <3>2. QED BY <1>1, <2>1, <3>1, Zenon
  <2>3. m_body = PushBytes("back", AllEncoded(s), Encoded(item))
    BY <2>2 DEF PushBytes
  <2>4. kind = item.kind
    BY <1>4, <2>1 DEF PopBack
  <2>5. m_body' = AllEncoded(s) /\ popped' = item
    BY <1>1, <2>2, <2>3, <2>4, Taken
  <2>6. items' = s
    BY <1>4, <2>1 DEF PopBack
  <2>7. QED BY <1>4, <2>1, <2>2, <2>5, <2>6, SameOperators DEF Deque!PopBack
<1>5. QED BY <1>3, <1>4

\* What is left of a buffer that was cut, behind the objects: nothing, as long
\* as it is whole.
LiesBehind(c) ==
    /\ c \in Seq(Byte) /\ m_body = AllEncoded(items) \o c
    /\ missing = Nothing => c = << >>
    /\ missing \in Kind => \E item \in Item : item.kind = missing /\ Cut(c, Encoded(item))

\* While pops may succeed, the body is the objects and what is behind them.
LEMMA SomethingBehind ==
    ASSUME BufferInv, missing # GivenUp
    PROVE  \E c : LiesBehind(c)
<1>1. AllEncoded(items) \in Seq(Byte) /\ missing \in Kind \cup {Nothing}
  BY AllEncodedConcat DEF BufferInv, BodyHoldsItems, BufferTypeOK
<1>2. CASE missing = Nothing
  <2>1. m_body = AllEncoded(items)
    BY <1>2 DEF BufferInv, BodyHoldsItems
  <2>2. AllEncoded(items) \o << >> = AllEncoded(items) /\ << >> \in Seq(Byte)
    BY <1>1
  <2>3. LiesBehind(<< >>)
    BY <1>2, <2>1, <2>2, NoTypes DEF LiesBehind
  <2>4. QED BY <2>3
<1>3. CASE missing \in Kind
  <2>1. PICK item \in Item, c \in Seq(Byte) :
           item.kind = missing /\ Cut(c, Encoded(item)) /\ m_body = AllEncoded(items) \o c
    BY <1>3 DEF BufferInv, Remains
  <2>2. LiesBehind(c)
    BY <1>3, <2>1, NoTypes DEF LiesBehind
  <2>3. QED BY <2>2
<1>4. QED BY <1>1, <1>2, <1>3

\* With the same behind it as before, the buffer is what it was.
LEMMA StillBehind ==
    ASSUME BufferInv, NEW c, LiesBehind(c), m_body' = AllEncoded(items') \o c,
           items' \in Seq(Item), Len(items') <= Len(items), missing' = missing,
           popped' \in Item \cup {NoItem}
    PROVE  BufferInv'
<1>1. c \in Seq(Byte) /\ items \in Seq(Item)
  BY DEF LiesBehind, BufferInv, BodyHoldsItems, BufferTypeOK
<1>2. AllEncoded(items') \in Seq(Byte) /\ m_body' \in Seq(Byte)
  <2>1. AllEncoded(items') \in Seq(Byte)
    BY AllEncodedConcat
  <2>2. QED BY <1>1, <2>1, BytesAssoc
<1>3. BufferTypeOK'
  <2>1. Len(items') <= MaxItems
    BY <1>1, BufferAssumption DEF BufferInv, BodyHoldsItems, BufferTypeOK
  <2>2. QED BY <1>2, <2>1 DEF BufferInv, BodyHoldsItems, BufferTypeOK
<1>4. (missing = Nothing => m_body = AllEncoded(items))'
  <2>1. SUFFICES ASSUME missing = Nothing PROVE m_body' = AllEncoded(items')
    BY DEF AllEncoded
  <2>2. c = << >>
    BY <2>1 DEF LiesBehind
  <2>3. AllEncoded(items') \o << >> = AllEncoded(items')
    BY <1>2
  <2>4. QED BY <2>2, <2>3
<1>5. Remains'
  <2>1. SUFFICES ASSUME missing \in Kind
                 PROVE  \E item \in Item, d \in Seq(Byte) :
                           /\ item.kind = missing' /\ Cut(d, Encoded(item))
                           /\ m_body' = AllEncoded(items') \o d
    BY DEF Remains, AllEncoded
  <2>2. PICK item \in Item : item.kind = missing /\ Cut(c, Encoded(item))
    BY <2>1 DEF LiesBehind
  <2>3. QED BY <1>1, <2>2
<1>6. QED BY <1>3, <1>4, <1>5 DEF BufferInv, BodyHoldsItems

\* pop_front() takes the first object; it fails when there is none, or only a
\* part of it.
LEMMA PopFrontStep ==
    ASSUME BufferInv, NEW kind \in Kind, PopFront(kind)
    PROVE  BufferInv' /\ Deque!PopFront
<1>1. /\ missing # GivenUp /\ Take(kind, "front") /\ "front" \in Ends
      /\ items \in Seq(Item) /\ m_body \in Seq(Byte)
  BY DEF BufferInv, BodyHoldsItems, BufferTypeOK, PopFront, Ends
<1>2. PICK c \in Seq(Byte) : LiesBehind(c) /\ m_body = AllEncoded(items) \o c
  <2>1. \E c : LiesBehind(c)
    BY <1>1, SomethingBehind
  <2>2. QED BY <2>1 DEF LiesBehind
<1>3. CASE items # << >>
  <2>1. PICK s \in Seq(Item), item \in Item :
           s = Tail(items) /\ item = Head(items) /\ items = <<item>> \o s /\ Len(s) <= Len(items)
    BY <1>1, <1>3, Ended
  <2>2. PICK a \in Seq(Byte), e \in Seq(Byte) :
           a = AllEncoded(s) /\ e = Encoded(item) /\ AllEncoded(items) = e \o a
    <3>1. /\ AllEncoded(s) \in Seq(Byte) /\ Encoded(item) \in Seq(Byte)
          /\ AllEncoded(<<item>> \o s) = Encoded(item) \o AllEncoded(s)
      BY EncodedEnds
    <3>2. QED BY <2>1, <3>1, Zenon
  <2>3. PICK ac \in Seq(Byte) : ac = a \o c /\ m_body = e \o ac
    <3>1. (e \o a) \o c = e \o (a \o c) /\ a \o c \in Seq(Byte)
      BY BytesAssoc
    <3>2. QED BY <1>2, <2>2, <3>1, Zenon
  <2>4. m_body = PushBytes("front", ac, Encoded(item))
    BY <2>2, <2>3 DEF PushBytes
  <2>5. kind = item.kind
    BY <1>3, <2>1 DEF PopFront
  <2>6. m_body' = ac /\ popped' = item
    BY <1>1, <2>4, <2>5, Taken
  <2>7. items' = s /\ missing' = missing
    BY <1>3, <2>1 DEF PopFront
  <2>8. BufferInv'
    <3>1. m_body' = AllEncoded(items') \o c
      BY <2>2, <2>3, <2>6, <2>7, Zenon
    <3>2. QED BY <1>2, <2>1, <2>6, <2>7, <3>1, StillBehind
  <2>9. QED BY <1>3, <2>1, <2>6, <2>7, <2>8 DEF Deque!PopFront
<1>4. CASE items = << >>
  <2>1. m_body = c
    BY <1>2, <1>4, AllEncodedFew
  <2>2. missing \in {Nothing, kind} /\ items' = items
    BY <1>4 DEF PopFront
  <2>3. CASE missing = Nothing
    <3>1. m_body = << >>
      BY <1>2, <2>1, <2>3 DEF LiesBehind
    <3>2. m_body' = << >> /\ popped' = NoItem
      BY <1>1, <3>1, NoneTaken
    <3>3. missing' = missing
      BY <2>3, NoTypes DEF PopFront
    <3>4. BufferInv'
      <4>1. m_body' = AllEncoded(items') \o c
        BY <1>2, <2>1, <2>2, <3>1, <3>2, Zenon
      <4>2. Len(items') <= Len(items)
        BY <1>1, <2>2
      <4>3. QED BY <1>1, <1>2, <2>2, <3>2, <3>3, <4>1, <4>2, StillBehind
    <3>5. QED BY <1>4, <2>2, <3>2, <3>4 DEF Deque!PopFront
  <2>4. CASE missing = kind
    <3>1. PICK item \in Item : item.kind = kind /\ Cut(c, Encoded(item))
      BY <1>2, <2>4 DEF LiesBehind
    <3>2. ~ Pop(kind, "front", m_body).ok
      BY <2>1, <3>1, ItemWritten, ObjectMissed
    <3>3. m_body' \in Seq(Byte) /\ popped' = NoItem
      BY <1>1, <3>2, NoneTaken
    <3>4. missing' = GivenUp
      BY <1>4, <2>4 DEF PopFront
    <3>5. BufferTypeOK'
      BY <2>2, <3>3, <3>4 DEF BufferInv, BodyHoldsItems, BufferTypeOK
    <3>6. BufferInv'
      BY <3>4, <3>5, NoTypes DEF BufferInv, BodyHoldsItems, Remains
    <3>7. QED BY <1>4, <2>2, <3>3, <3>6 DEF Deque!PopFront
  <2>5. QED BY <2>2, <2>3, <2>4
<1>5. QED BY <1>3, <1>4

\* What arrives holds the objects that lie whole in it, and a part of the next.
LEMMA ReceiveStep ==
    ASSUME BufferInv, NEW n \in 0 .. Len(m_body) - 1, Receive(n)
    PROVE  BufferInv' /\ Deque!Lose
<1>1. /\ m_body = AllEncoded(items) /\ items \in Seq(Item) /\ m_body \in Seq(Byte)
      /\ m_body' = SubSeq(m_body, 1, n) /\ items' = WholeIn(n) /\ popped' = popped
      /\ missing' = items[Len(WholeIn(n)) + 1].kind
  BY DEF BufferInv, BodyHoldsItems, BufferTypeOK, Receive
<1>2. PICK m \in Nat : m = Len(items)
  BY <1>1
<1>3. n \in Nat /\ n < Len(AllEncoded(items))
  BY <1>1
<1>4. PICK k \in 0 .. m - 1 : /\ WholeIn(n) = SubSeq(items, 1, k)
                              /\ Len(FirstBytes(k)) <= n /\ n < Len(FirstBytes(k + 1))
  BY <1>1, <1>2, <1>3, WholeInIs
<1>5. k \in 0 .. m /\ k + 1 \in 1 .. m
  OBVIOUS
<1>6. PICK p \in Seq(Item) : p = SubSeq(items, 1, k) /\ Len(p) = k
  <2>1. k \in 0 .. Len(items)
    BY <1>2, <1>5
  <2>2. SubSeq(items, 1, k) \in Seq(Item) /\ Len(SubSeq(items, 1, k)) = k
    BY <1>1, <2>1, TwoParts
  <2>3. QED BY <2>2
<1>7. PICK item \in Item : item = items[k + 1]
  BY <1>1, <1>2, <1>5
<1>8. PICK q \in Seq(Item) : items = (p \o <<item>>) \o q /\ p \o <<item>> = SubSeq(items, 1, k + 1)
  <2>1. k + 1 \in 0 .. Len(items)
    BY <1>2, <1>5
  <2>2. /\ items = SubSeq(items, 1, k + 1) \o SubSeq(items, (k + 1) + 1, Len(items))
        /\ SubSeq(items, (k + 1) + 1, Len(items)) \in Seq(Item)
    BY <1>1, <2>1, TwoParts
  <2>3. SubSeq(items, 1, k + 1) = p \o <<item>>
    BY <1>1, <1>2, <1>5, <1>6, <1>7
  <2>4. QED BY <2>2, <2>3
<1>9. PICK a \in Seq(Byte), e \in Seq(Byte), r \in Seq(Byte) :
         /\ a = FirstBytes(k) /\ e = Encoded(item) /\ a \o e = FirstBytes(k + 1)
         /\ m_body = (a \o e) \o r
  <2>1. /\ AllEncoded(p) \in Seq(Byte) /\ Encoded(item) \in Seq(Byte)
        /\ AllEncoded(p \o <<item>>) = AllEncoded(p) \o Encoded(item)
    BY EncodedEnds
  <2>2. PICK pi \in Seq(Item) : pi = p \o <<item>>
    BY OneMore
  <2>3. AllEncoded(q) \in Seq(Byte) /\ AllEncoded(pi \o q) = AllEncoded(pi) \o AllEncoded(q)
    BY AllEncodedConcat
  <2>4. m_body = (AllEncoded(p) \o Encoded(item)) \o AllEncoded(q)
    BY <1>1, <1>8, <2>1, <2>2, <2>3, Zenon
  <2>5. FirstBytes(k) = AllEncoded(p) /\ FirstBytes(k + 1) = AllEncoded(p) \o Encoded(item)
    BY <1>6, <1>8, <2>1, Zenon DEF FirstBytes
  <2>6. QED BY <2>1, <2>3, <2>4, <2>5, Zenon
<1>10. PICK d \in Seq(Byte) : Cut(d, e) /\ m_body' = a \o d
  <2>1. Len(a) <= n /\ n < Len(a \o e)
    BY <1>4, <1>9
  <2>2. PICK d \in Seq(Byte) : Cut(d, e) /\ SubSeq((a \o e) \o r, 1, n) = a \o d
    BY <1>3, <2>1, CutThrough
  <2>3. QED BY <1>1, <1>9, <2>2, Zenon
<1>11. items' = p /\ missing' = item.kind /\ item.kind \in Kind /\ Len(p) <= Len(items)
  <2>1. Len(p) <= Len(items)
    BY <1>2, <1>5, <1>6
  <2>2. QED BY <1>1, <1>4, <1>6, <1>7, <2>1, ItemWritten
<1>12. m_body' = AllEncoded(items') \o d /\ m_body' \in Seq(Byte)
  <2>1. a \o d \in Seq(Byte)
    BY BytesAssoc
  <2>2. a = AllEncoded(items')
    BY <1>6, <1>9, <1>11, Zenon DEF FirstBytes
  <2>3. QED BY <1>10, <2>1, <2>2, Zenon
<1>13. BufferTypeOK'
  <2>1. Len(items') <= MaxItems
    BY <1>1, <1>6, <1>11, BufferAssumption DEF BufferInv, BodyHoldsItems, BufferTypeOK
  <2>2. QED BY <1>1, <1>11, <1>12, <2>1 DEF BufferInv, BodyHoldsItems, BufferTypeOK
<1>14. Remains'
  <2>1. \E x \in Item, c \in Seq(Byte) :
           x.kind = missing' /\ Cut(c, Encoded(x)) /\ m_body' = AllEncoded(items') \o c
    BY <1>9, <1>10, <1>11, <1>12
  <2>2. QED BY <2>1 DEF Remains, AllEncoded
<1>15. BodyHoldsItems'
  BY <1>11, <1>13, NoTypes DEF BodyHoldsItems
<1>16. items' \in Prefixes(items)
  BY <1>2, <1>5, <1>6, <1>11 DEF Prefixes
<1>17. QED BY <1>1, <1>14, <1>15, <1>16, SameOperators DEF BufferInv, Deque!Lose

-----------------------------------------------------------------------------
(* The theorems *)

\* A buffer begins empty, with nothing behind its objects.
LEMMA BufferBegins == BufferInit => BufferInv /\ Deque!Init
<1> SUFFICES ASSUME BufferInit PROVE BufferInv /\ Deque!Init
  OBVIOUS
<1>1. m_body = << >> /\ items = << >> /\ popped = NoItem /\ missing = Nothing
  BY DEF BufferInit
<1>2. AllEncoded(items) = << >>
  BY <1>1, AllEncodedFew
<1>3. BodyHoldsItems
  <2>1. << >> \in Seq(Byte) /\ << >> \in Seq(Item) /\ Len(<< >>) = 0
    OBVIOUS
  <2>2. QED BY <1>1, <1>2, <2>1, BufferAssumption DEF BodyHoldsItems, BufferTypeOK
<1>4. Remains
  BY <1>1, NoTypes DEF Remains
<1>5. QED BY <1>1, <1>3, <1>4 DEF BufferInv, Deque!Init

\* Every step keeps the invariant, and is a step of the deque.
LEMMA BufferSteps ==
    ASSUME "tuple" \notin FrontKinds, BufferInv, [BufferNext]_bufferVars
    PROVE  BufferInv' /\ [Deque!Next]_(Deque!vars)
<1>1. ASSUME NEW item \in Item, PushBack(item) PROVE BufferInv' /\ Deque!Next
  BY <1>1, PushBackStep DEF Deque!Next
<1>2. ASSUME NEW item \in Item, PushFront(item) PROVE BufferInv' /\ Deque!Next
  BY <1>2, PushFrontStep DEF Deque!Next
<1>3. ASSUME NEW kind \in Kind, PopBack(kind) PROVE BufferInv' /\ Deque!Next
  BY <1>3, PopBackStep DEF Deque!Next
<1>4. ASSUME NEW kind \in Kind, PopFront(kind) PROVE BufferInv' /\ Deque!Next
  BY <1>4, PopFrontStep DEF Deque!Next
<1>5. ASSUME NEW n \in 0 .. Len(m_body) - 1, Receive(n) PROVE BufferInv' /\ Deque!Next
  BY <1>5, ReceiveStep DEF Deque!Next
<1>6. CASE Discard
  <2>1. m_body' = << >> /\ items' = << >> /\ missing' = Nothing /\ popped' = popped
    BY <1>6 DEF Discard
  <2>2. AllEncoded(items') = << >>
    BY <2>1, AllEncodedFew
  <2>3. items \in Seq(Item)
    BY DEF BufferInv, BodyHoldsItems, BufferTypeOK
  <2>4. BodyHoldsItems'
    <3>1. << >> \in Seq(Byte) /\ << >> \in Seq(Item) /\ Len(<< >>) = 0
      OBVIOUS
    <3>2. BufferTypeOK'
      BY <2>1, <3>1, BufferAssumption DEF BufferTypeOK, BufferInv, BodyHoldsItems
    <3>3. (missing = Nothing => m_body = AllEncoded(items))'
      BY <2>1, <2>2 DEF AllEncoded
    <3>4. QED BY <3>2, <3>3 DEF BodyHoldsItems
  <2>5. Remains'
    BY <2>1, NoTypes DEF Remains
  <2>6. items' \in Prefixes(items)
    <3>1. SubSeq(items, 1, 0) = << >> /\ 0 \in 0 .. Len(items)
      BY <2>3
    <3>2. QED BY <2>1, <3>1 DEF Prefixes
  <2>7. QED BY <2>1, <2>4, <2>5, <2>6, SameOperators DEF BufferInv, Deque!Lose, Deque!Next
<1>7. CASE UNCHANGED bufferVars
  <2>1. m_body' = m_body /\ items' = items /\ popped' = popped /\ missing' = missing
    BY <1>7 DEF bufferVars
  <2>2. BufferInv'
    BY <2>1 DEF BufferInv, BodyHoldsItems, BufferTypeOK, Remains, AllEncoded
  <2>3. QED BY <2>1, <2>2 DEF Deque!vars
<1>8. QED BY <1>1, <1>2, <1>3, <1>4, <1>5, <1>6, <1>7 DEF BufferNext

\* Whatever is pushed and popped at either end of a byte_buffer, of objects of
\* any size, and wherever it is cut in between: the body is the objects written
\* down in a row, and of a buffer that was cut the beginning of that.
THEOREM BufferInvariant ==
    ASSUME "tuple" \notin FrontKinds
    PROVE  BufferSpec => []BufferInv
<1>1. BufferInit => BufferInv
  BY BufferBegins
<1>2. BufferInv /\ [BufferNext]_bufferVars => BufferInv'
  BY BufferSteps
<1>3. QED BY <1>1, <1>2, PTL DEF BufferSpec

\* Each object's bytes lie where it was pushed, whole (byte_buffer.h), unless a
\* tuple is pushed at the front.
THEOREM BodyHoldsItemsHolds ==
    ASSUME "tuple" \notin FrontKinds
    PROVE  BufferSpec => []BodyHoldsItems
<1>1. BufferInv => BodyHoldsItems
  BY DEF BufferInv
<1>2. QED BY <1>1, BufferInvariant, PTL

\* A byte_buffer is a deque of whole objects, so that a pop of the type that
\* lies at an end gives the object that was pushed, and of one that was cut
\* none (the pops of byte_buffer.h), unless a tuple is pushed at the front.
THEOREM ImplementsTypedDequeHolds ==
    ASSUME "tuple" \notin FrontKinds
    PROVE  BufferSpec => ImplementsTypedDeque
<1>1. BufferInit => Deque!Init
  BY BufferBegins
<1>2. BufferInv /\ [BufferNext]_bufferVars => [Deque!Next]_(Deque!vars)
  BY BufferSteps
<1>3. QED BY <1>1, <1>2, BufferInvariant, PTL DEF BufferSpec, ImplementsTypedDeque, Deque!Spec

\* Of all types but the tuple, which byte_buffer_tuple finds to fail, what
\* push_front() has just pushed is what pop_front() gives (byte_buffer.h).
THEOREM FrontGivesWhatItWasGivenHolds ==
    ASSUME "tuple" \notin FrontKinds
    PROVE  BufferSpec => FrontGivesWhatItWasGiven
<1>1. ASSUME BufferInv, NEW item \in Item, PushFront(item)
      PROVE  LET r == Pop(item.kind, "front", m_body') IN r.ok /\ r.value = item.value
  <2>1. m_body' = PushBytes("front", m_body, Encoded(item)) /\ m_body \in Seq(Byte)
    BY <1>1, PushFrontStep DEF BufferInv, BodyHoldsItems, BufferTypeOK
  <2>2. "front" \in Ends
    BY DEF Ends
  <2>3. Pop(item.kind, "front", m_body') = Got(m_body, item.value)
    BY <2>1, <2>2, ItemWritten, ObjectPopped
  <2>4. QED BY <2>3, GotIs
<1>2. BufferInv => [\A item \in Item : PushFront(item) =>
                       LET r == Pop(item.kind, "front", m_body')
                       IN  r.ok /\ r.value = item.value]_bufferVars
  BY <1>1
<1>3. QED BY <1>2, BufferInvariant, PTL DEF FrontGivesWhatItWasGiven

=============================================================================
