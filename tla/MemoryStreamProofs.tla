------------------------- MODULE MemoryStreamProofs -------------------------
(***************************************************************************)
(* What the operators of MemoryStream return: the bytes of numbers, for    *)
(* any base and width, and the vector and the indexes of a stream.         *)
(***************************************************************************)
EXTENDS MemoryStream, SequenceTheorems, WellFoundedInduction, TLAPS

\* Numbers have a least one.
LEMMA Least ==
  ASSUME NEW S \in SUBSET Nat, S # {}
  PROVE  \E n \in S : \A m \in S : n =< m
<1> DEFINE R == OpToRel(<, Nat)
<1>1. IsWellFoundedOn(R, Nat)
  BY NatLessThanWellFounded
<1>2. \A x, y \in Nat : <<x, y>> \in R <=> x < y
  BY DEF OpToRel
<1> HIDE DEF R
<1>3. PICK n \in S : \A m \in S : <<m, n>> \notin R
  BY <1>1, WFMin
<1>4. ASSUME NEW m \in S PROVE n =< m
  <2>1. m \in Nat /\ n \in Nat
    OBVIOUS
  <2>2. ~(m < n)
    BY <1>2, <1>3, <2>1, Zenon
  <2> QED BY <2>1, <2>2
<1> QED BY <1>4

-----------------------------------------------------------------------------
(* Powers *)

PowerOf(p, base, e) == p = [k \in 0..e |-> IF k = 0 THEN 1 ELSE base * p[k - 1]]

\* The function in Power's definition exists ...
LEMMA PowerExists ==
  ASSUME NEW base \in Nat, NEW e \in Nat
  PROVE  \E p : PowerOf(p, base, e)
<1> DEFINE Without == {m \in Nat : ~\E p : PowerOf(p, base, m)}
<1>1. SUFFICES ASSUME Without # {} PROVE FALSE
  OBVIOUS
<1>2. PICK m \in Without : \A k \in Without : m =< k
  <2>1. Without \in SUBSET Nat
    OBVIOUS
  <2> HIDE DEF Without
  <2> QED BY <1>1, <2>1, Least
<1>3. m \in Nat /\ ~\E p : PowerOf(p, base, m)
  OBVIOUS
<1>4. m # 0
  <2>1. SUFFICES ASSUME m = 0 PROVE FALSE
    OBVIOUS
  <2>2. PICK p : p = [k \in 0..0 |-> 1]
    OBVIOUS
  <2>3. p = [k \in 0..0 |-> IF k = 0 THEN 1 ELSE base * p[k - 1]]
    BY <2>2
  <2> QED BY <1>3, <2>1, <2>3 DEF PowerOf
<1>5. m - 1 \in Nat /\ ~(m =< m - 1)
  BY <1>3, <1>4
<1>6. PICK p : PowerOf(p, base, m - 1)
  <2>1. m - 1 \notin Without
    BY <1>2, <1>5
  <2> QED BY <1>5, <2>1
<1>7. PICK q : q = [k \in 0..m |-> IF k = m THEN base * p[m - 1] ELSE p[k]]
  OBVIOUS
<1>8. ASSUME NEW k \in 0..m PROVE q[k] = IF k = 0 THEN 1 ELSE base * q[k - 1]
  <2>1. CASE k = m
    BY <1>3, <1>4, <1>7, <2>1
  <2>2. CASE k # m
    <3>1. k \in 0..(m - 1) /\ (k # 0 => k - 1 \in 0..m /\ k - 1 # m)
      BY <1>3, <2>2
    <3>2. p[k] = IF k = 0 THEN 1 ELSE base * p[k - 1]
      BY <1>6, <3>1 DEF PowerOf
    <3> QED BY <1>7, <2>2, <3>1, <3>2
  <2> QED BY <2>1, <2>2
<1>9. PowerOf(q, base, m)
  BY <1>7, <1>8 DEF PowerOf
<1> QED BY <1>3, <1>9

\* ... and is the same however far it goes.
LEMMA PowerSame ==
  ASSUME NEW base \in Nat, NEW e \in Nat, NEW p, PowerOf(p, base, e), NEW q, PowerOf(q, base, e + 1)
  PROVE  \A k \in 0..e : p[k] = q[k]
<1> DEFINE Bad == {k \in 0..e : p[k] # q[k]}
<1>1. SUFFICES ASSUME Bad # {} PROVE FALSE
  OBVIOUS
<1>2. PICK k \in Bad : \A j \in Bad : k =< j
  <2>1. Bad \in SUBSET Nat
    OBVIOUS
  <2> HIDE DEF Bad
  <2> QED BY <1>1, <2>1, Least
<1>3. k \in 0..e /\ k \in 0..(e + 1) /\ p[k] # q[k]
  OBVIOUS
<1>4. /\ p[k] = IF k = 0 THEN 1 ELSE base * p[k - 1]
      /\ q[k] = IF k = 0 THEN 1 ELSE base * q[k - 1]
  BY <1>3 DEF PowerOf
<1>5. k - 1 \in 0..e /\ ~(k =< k - 1)
  BY <1>3, <1>4
<1>6. p[k - 1] = q[k - 1]
  BY <1>2, <1>5
<1> HIDE DEF Bad
<1> QED BY <1>3, <1>4, <1>6

\* Power is the power.
LEMMA PowerIs ==
  ASSUME NEW base \in Nat, NEW e \in Nat
  PROVE  Power(base, 0) = 1 /\ Power(base, e + 1) = base * Power(base, e)
<1>1. \A n \in Nat : \E p : PowerOf(p, base, n) /\ Power(base, n) = p[n]
  <2>1. SUFFICES ASSUME NEW n \in Nat PROVE \E p : PowerOf(p, base, n) /\ Power(base, n) = p[n]
    OBVIOUS
  <2>2. Power(base, n) = (CHOOSE p : PowerOf(p, base, n))[n]
    BY DEF Power, PowerOf
  <2>3. PowerOf(CHOOSE p : PowerOf(p, base, n), base, n)
    BY PowerExists
  <2> QED BY <2>2, <2>3
<1>2. PICK p : PowerOf(p, base, e) /\ Power(base, e) = p[e]
  BY <1>1
<1>3. PICK q : PowerOf(q, base, e + 1) /\ Power(base, e + 1) = q[e + 1]
  BY <1>1
<1>4. p[e] = q[e]
  BY <1>2, <1>3, PowerSame
<1>5. q[e + 1] = base * q[e]
  <2>1. PICK n \in 0..(e + 1) : n = e + 1 /\ n # 0 /\ n - 1 = e
    OBVIOUS
  <2>2. q[n] = base * q[n - 1]
    BY <1>3, <2>1 DEF PowerOf
  <2> QED BY <2>1, <2>2
<1>6. Power(base, 0) = 1
  <2>1. PICK r : PowerOf(r, base, 0) /\ Power(base, 0) = r[0]
    BY <1>1
  <2> QED BY <2>1 DEF PowerOf
<1> QED BY <1>2, <1>3, <1>4, <1>5, <1>6

\* Powers are numbers, and not 0.
LEMMA PowerTyped ==
  ASSUME NEW base \in Nat \ {0}, NEW e \in Nat
  PROVE  Power(base, e) \in Nat \ {0}
<1> DEFINE Bad == {m \in Nat : Power(base, m) \notin Nat \ {0}}
<1>1. SUFFICES ASSUME Bad # {} PROVE FALSE
  OBVIOUS
<1>2. PICK m \in Bad : \A k \in Bad : m =< k
  <2>1. Bad \in SUBSET Nat
    OBVIOUS
  <2> HIDE DEF Bad
  <2> QED BY <1>1, <2>1, Least
<1>3. m \in Nat /\ Power(base, m) \notin Nat \ {0}
  OBVIOUS
<1>4. m # 0
  BY <1>3, PowerIs
<1>5. PICK k \in Nat : k + 1 = m /\ ~(m =< k)
  <2>1. m - 1 \in Nat /\ (m - 1) + 1 = m /\ ~(m =< m - 1)
    BY <1>3, <1>4
  <2> QED BY <2>1
<1>6. Power(base, k) \in Nat \ {0}
  BY <1>2, <1>5
<1> HIDE DEF Bad
<1>7. PICK x \in Nat \ {0} : x = Power(base, k)
  BY <1>6
<1>8. Power(base, m) = base * x
  BY <1>5, <1>7, PowerIs
<1>9. base * x \in Nat \ {0}
  OBVIOUS
<1> QED BY <1>3, <1>8, <1>9

-----------------------------------------------------------------------------
(* The bytes of a number *)

\* Division tells quotient and remainder.
LEMMA QuotientIs ==
  ASSUME NEW p \in Nat \ {0}, NEW q \in Nat, NEW r \in 0..p - 1
  PROVE  (p * q + r) \div p = q
<1>1. PICK m \in Nat : m = p * q
  OBVIOUS
<1>2. PICK n \in Nat : n = m + r
  OBVIOUS
<1>3. PICK d \in Nat, s \in 0..p - 1 : n = p * d + s /\ d = n \div p
  OBVIOUS
<1>4. d = q
  <2>1. CASE d < q
    <3>1. p * d =< p * (q - 1)
      BY <2>1
    <3>2. p * (q - 1) = m - p
      BY <1>1
    <3>3. PICK x \in Nat : x = p * d
      OBVIOUS
    <3> QED BY <1>2, <1>3, <3>1, <3>2, <3>3
  <2>2. CASE d > q
    <3>1. p * (q + 1) =< p * d
      BY <2>2
    <3>2. p * (q + 1) = m + p
      BY <1>1
    <3>3. PICK x \in Nat : x = p * d
      OBVIOUS
    <3> QED BY <1>2, <1>3, <3>1, <3>2, <3>3
  <2> QED BY <2>1, <2>2
<1> QED BY <1>1, <1>2, <1>3, <1>4

\* Dividing twice divides by the product.
LEMMA DivideTwice ==
  ASSUME NEW n \in Nat, NEW p \in Nat \ {0}, NEW b \in Nat \ {0}
  PROVE  n \div (b * p) = (n \div p) \div b
<1>1. PICK q \in Nat, r \in 0..p - 1 : q = n \div p /\ n = p * q + r
  OBVIOUS
<1>2. PICK d \in Nat, s \in 0..b - 1 : d = q \div b /\ q = b * d + s
  OBVIOUS
<1>3. PICK m \in Nat \ {0} : m = b * p
  OBVIOUS
<1>4. PICK t \in Nat : t = p * s + r
  <2>1. p * s \in Nat
    OBVIOUS
  <2> QED BY <2>1
<1>5. n = m * d + t
  <2>1. p * q = p * (b * d) + p * s
    BY <1>2
  <2>2. p * (b * d) = m * d
    BY <1>3
  <2>3. PICK x, y \in Nat : x = m * d /\ y = p * s
    OBVIOUS
  <2> QED BY <1>1, <1>4, <2>1, <2>2, <2>3
<1>6. t \in 0..m - 1
  <2>1. p * s =< p * (b - 1)
    OBVIOUS
  <2>2. p * (b - 1) = m - p
    BY <1>3
  <2>3. PICK y \in Nat : y = p * s
    OBVIOUS
  <2> QED BY <1>4, <2>1, <2>2, <2>3
<1>7. (m * d + t) \div m = d
  BY <1>6, QuotientIs
<1> QED BY <1>1, <1>2, <1>3, <1>5, <1>7

\* Big endian bytes are bytes.
LEMMA BigEndianIs ==
  ASSUME NEW base \in Nat \ {0}, NEW n \in Nat, NEW w \in Nat
  PROVE  /\ BigEndian(n, w, base) \in Seq(0..base - 1) /\ Len(BigEndian(n, w, base)) = w
         /\ \A i \in 1..w : BigEndian(n, w, base)[i] = (n \div Power(base, w - i)) % base
<1>1. PICK f : f = BigEndian(n, w, base)
  OBVIOUS
<1>2. f = [i \in 1..w |-> (n \div Power(base, w - i)) % base]
  BY <1>1 DEF BigEndian
<1>3. ASSUME NEW i \in 1..w PROVE (n \div Power(base, w - i)) % base \in 0..base - 1
  <2>1. w - i \in Nat
    OBVIOUS
  <2>2. PICK p \in Nat \ {0} : p = Power(base, w - i)
    BY <2>1, PowerTyped
  <2>3. n \div p \in Nat
    OBVIOUS
  <2> QED BY <2>2, <2>3
<1>4. f \in [1..w -> 0..base - 1]
  BY <1>2, <1>3
<1> QED BY <1>1, <1>2, <1>4

FromOf(v, bytes, base, e) == v = [k \in 0..e |-> IF k = 0 THEN 0 ELSE base * v[k - 1] + bytes[k]]

\* The function in FromBigEndian's definition exists.
LEMMA FromExists ==
  ASSUME NEW base, NEW bytes, NEW e \in Nat
  PROVE  \E v : FromOf(v, bytes, base, e)
<1> DEFINE Without == {m \in Nat : ~\E v : FromOf(v, bytes, base, m)}
<1>1. SUFFICES ASSUME Without # {} PROVE FALSE
  OBVIOUS
<1>2. PICK m \in Without : \A k \in Without : m =< k
  <2>1. Without \in SUBSET Nat
    OBVIOUS
  <2> HIDE DEF Without
  <2> QED BY <1>1, <2>1, Least
<1>3. m \in Nat /\ ~\E v : FromOf(v, bytes, base, m)
  OBVIOUS
<1>4. m # 0
  <2>1. SUFFICES ASSUME m = 0 PROVE FALSE
    OBVIOUS
  <2>2. PICK v : v = [k \in 0..0 |-> 0]
    OBVIOUS
  <2>3. v = [k \in 0..0 |-> IF k = 0 THEN 0 ELSE base * v[k - 1] + bytes[k]]
    BY <2>2
  <2> QED BY <1>3, <2>1, <2>3 DEF FromOf
<1>5. m - 1 \in Nat /\ ~(m =< m - 1)
  BY <1>3, <1>4
<1>6. PICK v : FromOf(v, bytes, base, m - 1)
  <2>1. m - 1 \notin Without
    BY <1>2, <1>5
  <2> QED BY <1>5, <2>1
<1>7. PICK q : q = [k \in 0..m |-> IF k = m THEN base * v[m - 1] + bytes[m] ELSE v[k]]
  OBVIOUS
<1>8. ASSUME NEW k \in 0..m PROVE q[k] = IF k = 0 THEN 0 ELSE base * q[k - 1] + bytes[k]
  <2>1. CASE k = m
    BY <1>3, <1>4, <1>7, <2>1
  <2>2. CASE k # m
    <3>1. k \in 0..(m - 1) /\ (k # 0 => k - 1 \in 0..m /\ k - 1 # m)
      BY <1>3, <2>2
    <3>2. v[k] = IF k = 0 THEN 0 ELSE base * v[k - 1] + bytes[k]
      BY <1>6, <3>1 DEF FromOf
    <3> QED BY <1>7, <2>2, <3>1, <3>2
  <2> QED BY <2>1, <2>2
<1>9. FromOf(q, bytes, base, m)
  BY <1>7, <1>8 DEF FromOf
<1> QED BY <1>3, <1>9

\* What FromBigEndian computes.
LEMMA FromIs ==
  ASSUME NEW base, NEW bytes, Len(bytes) \in Nat
  PROVE  \E v : FromOf(v, bytes, base, Len(bytes)) /\ FromBigEndian(bytes, base) = v[Len(bytes)]
<1>1. FromBigEndian(bytes, base) = (CHOOSE v : FromOf(v, bytes, base, Len(bytes)))[Len(bytes)]
  BY DEF FromBigEndian, FromOf
<1>2. FromOf(CHOOSE v : FromOf(v, bytes, base, Len(bytes)), bytes, base, Len(bytes))
  BY FromExists
<1> QED BY <1>1, <1>2

\* A number that fits its width comes back from its bytes.
LEMMA NumberReadBack ==
  ASSUME NEW base \in Nat \ {0}, NEW w \in Nat, NEW n \in Nat, n < Power(base, w)
  PROVE  FromBigEndian(BigEndian(n, w, base), base) = n
<1>1. PICK bytes : bytes = BigEndian(n, w, base)
  OBVIOUS
<1>2. Len(bytes) = w /\ \A i \in 1..w : bytes[i] = (n \div Power(base, w - i)) % base
  BY <1>1, BigEndianIs
<1>3. PICK v : FromOf(v, bytes, base, w) /\ FromBigEndian(bytes, base) = v[w]
  BY <1>2, FromIs
<1>4. \A k \in 0..w : v[k] = IF k = 0 THEN 0 ELSE base * v[k - 1] + bytes[k]
  BY <1>3 DEF FromOf
<1> DEFINE Bad == {k \in 0..w : v[k] # n \div Power(base, w - k)}
<1>5. Bad = {}
  <2>1. SUFFICES ASSUME Bad # {} PROVE FALSE
    OBVIOUS
  <2>2. PICK k \in Bad : \A j \in Bad : k =< j
    <3>1. Bad \in SUBSET Nat
      OBVIOUS
    <3> HIDE DEF Bad
    <3> QED BY <2>1, <3>1, Least
  <2>3. k \in 0..w /\ v[k] # n \div Power(base, w - k)
    OBVIOUS
  <2>4. k # 0
    <3>1. SUFFICES ASSUME k = 0 PROVE FALSE
      OBVIOUS
    <3>2. PICK p \in Nat \ {0} : p = Power(base, w) /\ n < p
      BY PowerTyped
    <3>3. n = p * 0 + n /\ n \in 0..p - 1
      BY <3>2
    <3>4. n \div p = 0
      BY <3>3, QuotientIs
    <3>5. w - k = w /\ v[0] = 0
      BY <1>4, <3>1
    <3> QED BY <2>3, <3>1, <3>2, <3>4, <3>5
  <2>5. PICK j \in 0..w : j + 1 = k /\ j = k - 1 /\ ~(k =< j)
    <3>1. k - 1 \in 0..w /\ (k - 1) + 1 = k /\ ~(k =< k - 1)
      BY <2>3, <2>4
    <3> QED BY <3>1
  <2>6. PICK e \in Nat : e = w - k /\ e + 1 = w - j
    <3>1. w - k \in Nat /\ (w - k) + 1 = w - j
      BY <2>3, <2>5
    <3> QED BY <3>1
  <2>7. v[j] = n \div Power(base, e + 1)
    BY <2>2, <2>5, <2>6
  <2>8. PICK p \in Nat \ {0} : p = Power(base, e)
    BY PowerTyped
  <2>9. PICK q \in Nat : q = n \div p
    OBVIOUS
  <2>10. v[j] = q \div base
    <3>1. Power(base, e + 1) = base * p
      BY <2>8, PowerIs
    <3>2. n \div (base * p) = (n \div p) \div base
      BY DivideTwice
    <3> QED BY <2>7, <2>9, <3>1, <3>2
  <2>11. k \in 1..w
    BY <2>3, <2>4
  <2>12. v[k] = base * v[j] + bytes[k] /\ bytes[k] = q % base
    <3>1. bytes[k] = (n \div Power(base, e)) % base
      BY <1>2, <2>6, <2>11
    <3> QED BY <1>4, <2>3, <2>4, <2>5, <2>8, <2>9, <3>1
  <2>13. base * (q \div base) + (q % base) = q
    OBVIOUS
  <2> HIDE DEF Bad
  <2> QED BY <2>3, <2>6, <2>8, <2>9, <2>10, <2>12, <2>13
<1>6. w \in 0..w /\ w - w = 0
  OBVIOUS
<1>7. v[w] = n \div Power(base, 0)
  BY <1>5, <1>6
<1> HIDE DEF Bad
<1>8. n \div 1 = n
  OBVIOUS
<1> QED BY <1>1, <1>3, <1>7, <1>8, PowerIs

-----------------------------------------------------------------------------
(* The vector and the indexes *)

\* Resizing keeps what the vector holds, new bytes are 0.
LEMMA ResizedIs ==
  ASSUME NEW S, 0 \in S, NEW data \in Seq(S), NEW n \in Nat
  PROVE  /\ VectorResize(data, n) \in Seq(S) /\ Len(VectorResize(data, n)) = n
         /\ \A i \in 1..n : VectorResize(data, n)[i] = IF i =< Len(data) THEN data[i] ELSE 0
<1>1. PICK f : f = VectorResize(data, n)
  OBVIOUS
<1>2. f = [i \in 1..n |-> IF i =< Len(data) THEN data[i] ELSE 0]
  BY <1>1 DEF VectorResize
<1>3. Len(data) \in Nat /\ \A i \in 1..Len(data) : data[i] \in S
  OBVIOUS
<1>4. \A i \in 1..n : f[i] \in S
  BY <1>2, <1>3
<1>5. f \in [1..n -> S]
  BY <1>2, <1>4
<1> QED BY <1>1, <1>2, <1>5

\* The bytes of the vector that memcpy writes are those behind pos.
LEMMA CopyIs ==
  ASSUME NEW S, NEW data \in Seq(S), NEW pos \in Nat, NEW bytes \in Seq(S)
  PROVE  /\ Memcpy(data, pos, bytes) \in Seq(S) /\ Len(Memcpy(data, pos, bytes)) = Len(data)
         /\ \A i \in 1..Len(data) :
              Memcpy(data, pos, bytes)[i] = IF i > pos /\ i =< pos + Len(bytes) THEN bytes[i - pos] ELSE data[i]
<1>1. PICK f : f = Memcpy(data, pos, bytes)
  OBVIOUS
<1>2. f = [i \in 1..Len(data) |-> IF i > pos /\ i =< pos + Len(bytes) THEN bytes[i - pos] ELSE data[i]]
  BY <1>1 DEF Memcpy
<1>3. /\ Len(data) \in Nat /\ \A i \in 1..Len(data) : data[i] \in S
      /\ Len(bytes) \in Nat /\ \A i \in 1..Len(bytes) : bytes[i] \in S
  OBVIOUS
<1>4. ASSUME NEW i \in 1..Len(data) PROVE f[i] \in S
  <2>1. i > pos /\ i =< pos + Len(bytes) => i - pos \in 1..Len(bytes)
    BY <1>3
  <2> QED BY <1>2, <1>3, <2>1
<1>5. f \in [1..Len(data) -> S]
  BY <1>2, <1>4
<1> QED BY <1>1, <1>2, <1>3, <1>5

\* a stream of elements of S whose indexes are in order and in the vector
StreamOf(s, S) ==
  /\ s \in [data : Seq(S), rpos : Nat, wpos : Nat]
  /\ s.rpos =< s.wpos /\ s.wpos =< Len(s.data)

\* the stream r that appending bytes to s makes
Appended(r, s, bytes, S) ==
  /\ r \in [data : Seq(S), rpos : Nat, wpos : Nat]
  /\ r.rpos = s.rpos /\ r.wpos = s.wpos + Len(bytes) /\ r.wpos =< Len(r.data)
  /\ \A i \in 1..s.wpos : i =< Len(s.data) => r.data[i] = s.data[i]
  /\ \A k \in 1..Len(bytes) : r.data[s.wpos + k] = bytes[k]

\* append writes behind the write index, makes room for it and changes nothing before it.
LEMMA AppendBytesIs ==
  ASSUME NEW S, 0 \in S, NEW s \in [data : Seq(S), rpos : Nat, wpos : Nat], NEW bytes \in Seq(S)
  PROVE  Appended(AppendBytes(s, bytes), s, bytes, S)
<1>1. s.data \in Seq(S) /\ s.rpos \in Nat /\ s.wpos \in Nat /\ Len(s.data) \in Nat /\ Len(bytes) \in Nat
  OBVIOUS
<1>2. PICK old \in Seq(S), w \in Nat : old = s.data /\ w = s.wpos
  BY <1>1
<1>3. PICK end \in Nat : end = w + Len(bytes)
  BY <1>1
<1>4. PICK room \in Seq(S) : room = IF Len(old) < end THEN VectorResize(old, end) ELSE old
  BY ResizedIs
<1>5. /\ Len(room) \in Nat /\ Len(room) >= end
      /\ \A i \in 1..w : i =< Len(old) => room[i] = old[i]
  <2>1. CASE Len(old) < end
    <3>1. room = VectorResize(old, end)
      BY <1>4, <2>1
    <3>2. Len(room) = end /\ \A i \in 1..end : room[i] = IF i =< Len(old) THEN old[i] ELSE 0
      BY <3>1, ResizedIs
    <3> QED BY <1>1, <1>3, <3>2
  <2>2. CASE ~(Len(old) < end)
    BY <1>1, <1>2, <1>3, <1>4, <2>2
  <2> QED BY <2>1, <2>2
<1>6. PICK data \in Seq(S) : data = Memcpy(room, w, bytes)
  BY CopyIs
<1>7. /\ Len(data) = Len(room)
      /\ \A i \in 1..Len(room) : data[i] = IF i > w /\ i =< w + Len(bytes) THEN bytes[i - w] ELSE room[i]
  BY <1>6, CopyIs
<1>8. PICK r : r = AppendBytes(s, bytes)
  OBVIOUS
<1>9. r = [s EXCEPT !.data = data, !.wpos = end]
  BY <1>2, <1>3, <1>4, <1>6, <1>8 DEF AppendBytes, Size
<1>10. /\ r \in [data : Seq(S), rpos : Nat, wpos : Nat]
       /\ r.data = data /\ r.wpos = end /\ r.rpos = s.rpos
  BY <1>9
<1>11. ASSUME NEW i \in 1..w, i =< Len(old) PROVE data[i] = old[i]
  <2>1. i \in 1..Len(room) /\ ~(i > w)
    BY <1>1, <1>3, <1>5
  <2> QED BY <1>5, <1>7, <1>11, <2>1
<1>12. ASSUME NEW k \in 1..Len(bytes) PROVE data[w + k] = bytes[k]
  <2>1. PICK i \in 1..Len(room) : i = w + k /\ i - w = k
    <3>1. w + k \in 1..Len(room) /\ (w + k) - w = k
      BY <1>1, <1>3, <1>5
    <3> QED BY <3>1
  <2>2. i > w /\ i =< w + Len(bytes)
    BY <1>1, <2>1
  <2> QED BY <1>7, <2>1, <2>2
<1>13. \A i \in 1..s.wpos : i =< Len(s.data) => r.data[i] = s.data[i]
  BY <1>2, <1>10, <1>11
<1>14. \A k \in 1..Len(bytes) : r.data[s.wpos + k] = bytes[k]
  BY <1>2, <1>10, <1>12
<1>15. r.wpos =< Len(r.data) /\ r.wpos = s.wpos + Len(bytes)
  BY <1>2, <1>3, <1>5, <1>7, <1>10
<1>16. Appended(r, s, bytes, S)
  BY <1>10, <1>13, <1>14, <1>15 DEF Appended
<1> QED BY <1>8, <1>16

\* read takes the bytes behind the read index.
LEMMA PeekIs ==
  ASSUME NEW S, NEW s, StreamOf(s, S), NEW cnt \in Nat, cnt =< Length(s)
  PROVE  /\ Length(s) = s.wpos - s.rpos /\ s.rpos + cnt =< s.wpos
         /\ Peek(s, cnt) \in Seq(S) /\ Len(Peek(s, cnt)) = cnt
         /\ \A k \in 1..cnt : Peek(s, cnt)[k] = s.data[s.rpos + k]
<1>1. /\ s.data \in Seq(S) /\ s.rpos \in Nat /\ s.wpos \in Nat /\ Len(s.data) \in Nat
      /\ s.rpos =< s.wpos /\ s.wpos =< Len(s.data)
  BY DEF StreamOf
<1>2. Length(s) = s.wpos - s.rpos /\ s.rpos + cnt =< s.wpos
  BY <1>1 DEF Length
<1>3. PICK d \in Seq(S), a, b \in Int : d = s.data /\ a = s.rpos + 1 /\ b = s.rpos + cnt
  BY <1>1
<1>4. \A i \in a..b : d[i] \in S
  <2>1. \A i \in a..b : i \in 1..Len(d)
    BY <1>1, <1>2, <1>3
  <2> QED BY <2>1
<1>5. PICK p : p = SubSeq(d, a, b)
  OBVIOUS
<1>6. /\ p \in Seq(S) /\ Len(p) = (IF a <= b THEN b - a + 1 ELSE 0)
      /\ \A i \in 1..(b - a + 1) : p[i] = d[a + i - 1]
  BY <1>4, <1>5, SubSeqProperties
<1>7. Len(p) = cnt
  BY <1>1, <1>3, <1>6
<1>8. ASSUME NEW k \in 1..cnt PROVE p[k] = s.data[s.rpos + k]
  <2>1. PICK r \in Nat : r = s.rpos
    BY <1>1
  <2>2. a = r + 1 /\ b = r + cnt
    BY <1>3, <2>1
  <2>3. k \in 1..(b - a + 1) /\ a + k - 1 = r + k
    BY <2>2
  <2> QED BY <1>3, <1>6, <2>1, <2>3
<1>9. p = Peek(s, cnt)
  BY <1>3, <1>5 DEF Peek
<1> QED BY <1>2, <1>6, <1>7, <1>8, <1>9
=============================================================================
