------------------------- MODULE PacketReaderProofs -------------------------
(***************************************************************************)
(* Proofs about PacketReader: the types of its state, and that it keeps    *)
(* its place in the stream of bytes however the network cuts it.           *)
(***************************************************************************)
EXTENDS PacketReader, MemoryStreamProofs, FiniteSetTheorems

Byte == 0..Base - 1
Bytes == Seq(Byte)

-----------------------------------------------------------------------------
(* The ends of the messages *)

\* The ends are what their definition says.
LEMMA EndsIs ==
  ASSUME NEW msgs \in Seq(Bytes)
  PROVE  /\ Ends(msgs)[0] = 0
         /\ \A n \in 1..Len(msgs) : Ends(msgs)[n] = Ends(msgs)[n - 1] + 2 + Len(msgs[n])
<1> DEFINE Is(g, m) == g = [n \in 0..m |-> IF n = 0 THEN 0 ELSE g[n - 1] + 2 + Len(msgs[n])]
           Without == {m \in 0..Len(msgs) : ~\E g : Is(g, m)}
<1>1. Len(msgs) \in Nat
  OBVIOUS
<1>2. Without = {}
  <2>1. SUFFICES ASSUME Without # {} PROVE FALSE
    OBVIOUS
  <2>2. PICK m \in Without : \A k \in Without : m =< k
    <3>1. Without \in SUBSET Nat
      BY <1>1
    <3> HIDE DEF Without
    <3> QED BY <2>1, <3>1, Least
  <2>3. m \in 0..Len(msgs) /\ ~\E g : Is(g, m)
    OBVIOUS
  <2>4. m # 0
    <3>1. SUFFICES ASSUME m = 0 PROVE FALSE
      OBVIOUS
    <3>2. PICK g : g = [n \in 0..0 |-> 0]
      OBVIOUS
    <3>3. g = [n \in 0..0 |-> IF n = 0 THEN 0 ELSE g[n - 1] + 2 + Len(msgs[n])]
      BY <3>2
    <3> QED BY <2>3, <3>1, <3>3
  <2>5. m - 1 \in 0..Len(msgs) /\ ~(m =< m - 1)
    BY <1>1, <2>3, <2>4
  <2>6. PICK g : Is(g, m - 1)
    <3>1. m - 1 \notin Without
      BY <2>2, <2>5
    <3> QED BY <2>5, <3>1
  <2>7. PICK h : h = [n \in 0..m |-> IF n = m THEN g[m - 1] + 2 + Len(msgs[m]) ELSE g[n]]
    OBVIOUS
  <2>8. ASSUME NEW n \in 0..m PROVE h[n] = IF n = 0 THEN 0 ELSE h[n - 1] + 2 + Len(msgs[n])
    <3>1. CASE n = m
      BY <1>1, <2>3, <2>4, <2>7, <3>1
    <3>2. CASE n # m
      <4>1. n \in 0..(m - 1) /\ (n # 0 => n - 1 \in 0..m /\ n - 1 # m)
        BY <1>1, <2>3, <3>2
      <4>2. g[n] = IF n = 0 THEN 0 ELSE g[n - 1] + 2 + Len(msgs[n])
        BY <2>6, <4>1
      <4> QED BY <2>7, <3>2, <4>1, <4>2
    <3> QED BY <3>1, <3>2
  <2>9. Is(h, m)
    BY <2>7, <2>8
  <2> QED BY <2>3, <2>9
<1>3. \E g : Is(g, Len(msgs))
  BY <1>1, <1>2
<1>4. Is(Ends(msgs), Len(msgs))
  BY <1>3 DEF Ends
<1> HIDE DEF Without
<1>5. ASSUME NEW n \in 0..Len(msgs)
      PROVE  Ends(msgs)[n] = IF n = 0 THEN 0 ELSE Ends(msgs)[n - 1] + 2 + Len(msgs[n])
  <2>1. PICK g : g = Ends(msgs)
    OBVIOUS
  <2>2. g = [k \in 0..Len(msgs) |-> IF k = 0 THEN 0 ELSE g[k - 1] + 2 + Len(msgs[k])]
    BY <1>4, <2>1
  <2> HIDE DEF Is
  <2> QED BY <2>1, <2>2
<1> HIDE DEF Is
<1> QED BY <1>1, <1>5

\* They are numbers ...
LEMMA EndsTyped ==
  ASSUME NEW msgs \in Seq(Bytes), NEW n \in 0..Len(msgs)
  PROVE  Ends(msgs)[n] \in Nat
<1> DEFINE Bad == {m \in 0..Len(msgs) : Ends(msgs)[m] \notin Nat}
<1>1. SUFFICES ASSUME Bad # {} PROVE FALSE
  OBVIOUS
<1>2. Len(msgs) \in Nat
  OBVIOUS
<1>3. PICK m \in Bad : \A k \in Bad : m =< k
  <2>1. Bad \in SUBSET Nat
    BY <1>2
  <2> HIDE DEF Bad
  <2> QED BY <1>1, <2>1, Least
<1>4. m \in 0..Len(msgs) /\ Ends(msgs)[m] \notin Nat
  OBVIOUS
<1>5. m \in 1..Len(msgs)
  BY <1>2, <1>4, EndsIs
<1>6. m - 1 \in 0..Len(msgs) /\ ~(m =< m - 1)
  BY <1>2, <1>5
<1>7. Ends(msgs)[m - 1] \in Nat
  BY <1>3, <1>6
<1>8. Len(msgs[m]) \in Nat
  BY <1>5 DEF Bytes
<1> HIDE DEF Bad
<1> QED BY <1>4, <1>5, <1>7, <1>8, EndsIs

\* ... that rise with the messages ...
LEMMA EndsRise ==
  ASSUME NEW msgs \in Seq(Bytes), NEW m \in 1..Len(msgs), NEW n \in m..Len(msgs)
  PROVE  Ends(msgs)[m - 1] + 2 + Len(msgs[m]) =< Ends(msgs)[n]
<1> DEFINE Bad == {k \in m..Len(msgs) : ~(Ends(msgs)[m] =< Ends(msgs)[k])}
<1>1. Len(msgs) \in Nat /\ m \in 0..Len(msgs)
  OBVIOUS
<1>2. Bad = {}
  <2>1. SUFFICES ASSUME Bad # {} PROVE FALSE
    OBVIOUS
  <2>2. PICK k \in Bad : \A j \in Bad : k =< j
    <3>1. Bad \in SUBSET Nat
      BY <1>1
    <3> HIDE DEF Bad
    <3> QED BY <2>1, <3>1, Least
  <2>3. k \in m..Len(msgs) /\ ~(Ends(msgs)[m] =< Ends(msgs)[k])
    OBVIOUS
  <2>4. k # m
    <3>1. Ends(msgs)[m] \in Nat
      BY <1>1, EndsTyped
    <3>2. Ends(msgs)[m] =< Ends(msgs)[m]
      BY <3>1
    <3> QED BY <2>3, <3>2
  <2>5. k - 1 \in m..Len(msgs) /\ k \in 1..Len(msgs) /\ k - 1 \in 0..Len(msgs) /\ ~(k =< k - 1)
    BY <1>1, <2>3, <2>4
  <2>6. Ends(msgs)[m] =< Ends(msgs)[k - 1]
    BY <2>2, <2>5
  <2>7. Ends(msgs)[m] \in Nat /\ Ends(msgs)[k - 1] \in Nat /\ Len(msgs[k]) \in Nat
    BY <1>1, <2>5, EndsTyped DEF Bytes
  <2>8. Ends(msgs)[k] = Ends(msgs)[k - 1] + 2 + Len(msgs[k])
    BY <2>5, EndsIs
  <2> HIDE DEF Bad
  <2> QED BY <2>3, <2>6, <2>7, <2>8
<1>3. Ends(msgs)[m] =< Ends(msgs)[n]
  BY <1>2
<1> HIDE DEF Bad
<1> QED BY <1>3, EndsIs

\* ... and stay when one more is sent.
LEMMA EndsGrow ==
  ASSUME NEW msgs \in Seq(Bytes), NEW b \in Bytes, NEW n \in 0..Len(msgs)
  PROVE  Ends(Append(msgs, b))[n] = Ends(msgs)[n]
<1> DEFINE Bad == {k \in 0..Len(msgs) : Ends(Append(msgs, b))[k] # Ends(msgs)[k]}
<1>1. SUFFICES ASSUME Bad # {} PROVE FALSE
  OBVIOUS
<1>2. Len(msgs) \in Nat
  OBVIOUS
<1>3. PICK k \in Bad : \A j \in Bad : k =< j
  <2>1. Bad \in SUBSET Nat
    BY <1>2
  <2> HIDE DEF Bad
  <2> QED BY <1>1, <2>1, Least
<1>4. k \in 0..Len(msgs) /\ Ends(Append(msgs, b))[k] # Ends(msgs)[k]
  OBVIOUS
<1>5. PICK more \in Seq(Bytes) : more = Append(msgs, b)
  BY AppendProperties
<1>6. Len(more) = Len(msgs) + 1 /\ \A j \in 1..Len(msgs) : more[j] = msgs[j]
  BY <1>5, AppendProperties
<1>7. k # 0
  BY <1>4, <1>5, EndsIs
<1>8. k \in 1..Len(msgs) /\ k \in 1..Len(more) /\ k - 1 \in 0..Len(msgs) /\ ~(k =< k - 1)
  BY <1>2, <1>4, <1>6, <1>7
<1>9. Ends(more)[k - 1] = Ends(msgs)[k - 1]
  BY <1>3, <1>5, <1>8
<1>10. Ends(more)[k] = Ends(more)[k - 1] + 2 + Len(more[k]) /\ Ends(msgs)[k] = Ends(msgs)[k - 1] + 2 + Len(msgs[k])
  BY <1>8, EndsIs
<1> HIDE DEF Bad
<1> QED BY <1>4, <1>5, <1>6, <1>8, <1>9, <1>10

-----------------------------------------------------------------------------
(* The length of a message *)

\* The powers that a length of two bytes is made of.
LEMMA FirstPowers == Power(Base, 0) = 1 /\ Power(Base, 1) = Base
<1>1. Base \in Nat
  BY ReaderAssumption
<1>2. Power(Base, 0) = 1 /\ Power(Base, 0 + 1) = Base * 1
  BY <1>1, PowerIs
<1> QED BY <1>1, <1>2

\* What two bytes say.
LEMMA TwoBytes ==
  ASSUME NEW bytes \in Bytes, Len(bytes) = 2
  PROVE  FromBigEndian(bytes, Base) = Base * bytes[1] + bytes[2]
<1> DEFINE Is(v) == v = [k \in 0..2 |-> IF k = 0 THEN 0 ELSE Base * v[k - 1] + bytes[k]]
<1>1. Base \in Nat /\ bytes[1] \in Nat /\ bytes[2] \in Nat
  <2>1. 1 \in 1..Len(bytes) /\ 2 \in 1..Len(bytes) /\ bytes \in Seq(Byte)
    BY DEF Bytes
  <2>2. bytes[1] \in Byte /\ bytes[2] \in Byte
    BY <2>1, ElementOfSeq
  <2> QED BY <2>2, ReaderAssumption DEF Byte
<1>2. ASSUME NEW v, Is(v) PROVE v[2] = Base * bytes[1] + bytes[2]
  <2>1. \A k \in 0..2 : v[k] = IF k = 0 THEN 0 ELSE Base * v[k - 1] + bytes[k]
    BY <1>2
  <2>2. v[0] = 0 /\ v[1] = Base * v[0] + bytes[1] /\ v[2] = Base * v[1] + bytes[2]
    BY <2>1
  <2>3. v[1] = bytes[1]
    BY <1>1, <2>2
  <2> QED BY <2>2, <2>3
<1>3. Is([k \in 0..2 |-> IF k = 0 THEN 0 ELSE IF k = 1 THEN bytes[1] ELSE Base * bytes[1] + bytes[2]])
  <2>1. PICK v : v = [k \in 0..2 |-> IF k = 0 THEN 0 ELSE IF k = 1 THEN bytes[1] ELSE Base * bytes[1] + bytes[2]]
    OBVIOUS
  <2>2. v[0] = 0 /\ v[1] = bytes[1] /\ v[2] = Base * bytes[1] + bytes[2]
    BY <2>1
  <2>3. v[1] = Base * v[0] + bytes[1]
    BY <1>1, <2>2
  <2>4. \A k \in 0..2 : k = 0 \/ k = 1 \/ k = 2
    OBVIOUS
  <2>5. \A k \in 0..2 : v[k] = IF k = 0 THEN 0 ELSE Base * v[k - 1] + bytes[k]
    BY <2>2, <2>3, <2>4
  <2>6. v = [k \in 0..2 |-> IF k = 0 THEN 0 ELSE Base * v[k - 1] + bytes[k]]
    BY <2>1, <2>5
  <2> QED BY <2>1, <2>6
<1>4. FromBigEndian(bytes, Base) = (CHOOSE v : Is(v))[2]
  BY DEF FromBigEndian
<1>5. Is(CHOOSE v : Is(v))
  BY <1>3
<1> HIDE DEF Is
<1> QED BY <1>2, <1>4, <1>5

\* A number of two bytes is its most significant byte and the other one.
LEMMA TwoDigits ==
  ASSUME NEW n \in Nat, n < Base * Base
  PROVE  /\ n \div Base \in Byte /\ n % Base \in Byte
         /\ Base * (n \div Base) + (n % Base) = n
<1>1. Base \in Nat /\ Base > 0
  BY ReaderAssumption
<1>2. PICK q, r : q = n \div Base /\ r = n % Base
  OBVIOUS
<1>3. q \in Nat /\ r \in 0..Base - 1 /\ Base * q + r = n
  BY <1>1, <1>2
<1>4. q < Base
  <2>1. SUFFICES ASSUME q >= Base PROVE FALSE
    BY <1>1, <1>3
  <2>2. Base * q >= Base * Base
    BY <1>1, <1>3, <2>1
  <2>3. Base * q \in Nat /\ Base * Base \in Nat
    BY <1>1, <1>3
  <2>4. n >= Base * q
    BY <1>3, <2>3
  <2> QED BY <2>2, <2>3, <2>4
<1>5. q \in Byte /\ r \in Byte
  BY <1>1, <1>3, <1>4 DEF Byte
<1> QED BY <1>2, <1>3, <1>5

\* A length of two bytes announces what is read in them.
LEMMA BodySizeTyped ==
  ASSUME NEW bytes \in Bytes, Len(bytes) = 2
  PROVE  BodySize(bytes) \in Nat
<1>1. Base \in Nat /\ Base > 0 /\ bytes[1] \in Nat /\ bytes[2] \in Nat
  <2>1. 1 \in 1..Len(bytes) /\ 2 \in 1..Len(bytes) /\ bytes \in Seq(Byte)
    BY DEF Bytes
  <2>2. bytes[1] \in Byte /\ bytes[2] \in Byte
    BY <2>1, ElementOfSeq
  <2> QED BY <2>2, ReaderAssumption DEF Byte
<1>2. PICK n \in Nat : n = Base * bytes[1] + bytes[2]
  BY <1>1
<1>3. PICK m \in Nat : m = Base * Base /\ m > 0
  BY <1>1
<1>4. (n - 2) % m \in Nat
  BY <1>3
<1> QED BY <1>2, <1>3, <1>4, TwoBytes DEF BodySize

\* A message on the wire.
LEMMA EncodeIs ==
  ASSUME NEW b \in Bodies
  PROVE  /\ b \in Bytes /\ Encode(b) \in Bytes /\ Len(Encode(b)) = 2 + Len(b)
         /\ \A i \in 1..Len(b) : Encode(b)[2 + i] = b[i]
         /\ \A bytes \in Bytes : Len(bytes) = 2 /\ bytes[1] = Encode(b)[1] /\ bytes[2] = Encode(b)[2]
                                   => BodySize(bytes) = Len(b)
<1>1. b \in Bytes /\ Len(b) \in Nat /\ Len(b) + 2 < Base * Base /\ Base \in Nat /\ Base > 0
  BY ReaderAssumption DEF Bytes, Byte
<1>2. PICK n \in Nat : n = Len(b) + 2
  BY <1>1
<1>3. PICK h : h = BigEndian(n, 2, Base)
  OBVIOUS
<1>4. n \div Base \in Byte /\ n % Base \in Byte /\ Base * (n \div Base) + (n % Base) = n
  BY <1>1, <1>2, TwoDigits
<1>5. h = [i \in 1..2 |-> (n \div Power(Base, 2 - i)) % Base]
  BY <1>3 DEF BigEndian
<1>6. h[1] = (n \div Base) % Base /\ h[2] = n % Base
  <2>1. h[1] = (n \div Power(Base, 1)) % Base /\ h[2] = (n \div Power(Base, 0)) % Base
    BY <1>5
  <2>2. n \div 1 = n
    OBVIOUS
  <2> QED BY <2>1, <2>2, FirstPowers
<1>7. h[1] = n \div Base
  <2>1. PICK q : q = n \div Base
    OBVIOUS
  <2>2. q \in 0..Base - 1
    BY <1>4, <2>1 DEF Byte
  <2>3. q % Base = q
    BY <1>1, <2>2
  <2> QED BY <1>6, <2>1, <2>3
<1>8. h \in Bytes /\ Len(h) = 2
  <2>1. \A i \in 1..2 : i = 1 \/ i = 2
    OBVIOUS
  <2>2. \A i \in 1..2 : h[i] \in Byte
    BY <1>4, <1>6, <1>7, <2>1
  <2>3. h \in [1..2 -> Byte]
    BY <1>5, <2>2
  <2> QED BY <2>3 DEF Bytes
<1>9. Encode(b) = h \o b
  BY <1>2, <1>3 DEF Encode
<1>10. /\ Encode(b) \in Bytes /\ Len(Encode(b)) = 2 + Len(b)
       /\ \A i \in 1..2 + Len(b) : Encode(b)[i] = IF i <= 2 THEN h[i] ELSE b[i - 2]
  <2>1. b \in Seq(Byte) /\ h \in Seq(Byte)
    BY <1>1, <1>8 DEF Bytes
  <2>2. h \o b \in Seq(Byte) /\ Len(h \o b) = Len(h) + Len(b)
    BY <2>1, ConcatProperties
  <2>3. \A i \in 1..Len(h) + Len(b) : (h \o b)[i] = IF i <= Len(h) THEN h[i] ELSE b[i - Len(h)]
    BY <2>1, ConcatProperties
  <2> QED BY <1>8, <1>9, <2>2, <2>3 DEF Bytes
<1>11. \A i \in 1..Len(b) : Encode(b)[2 + i] = b[i]
  <2>1. SUFFICES ASSUME NEW i \in 1..Len(b) PROVE Encode(b)[2 + i] = b[i]
    OBVIOUS
  <2>2. 2 + i \in 1..2 + Len(b) /\ ~(2 + i <= 2) /\ (2 + i) - 2 = i
    BY <1>1
  <2> QED BY <1>10, <2>2
<1>12. ASSUME NEW bytes \in Bytes, Len(bytes) = 2, bytes[1] = Encode(b)[1], bytes[2] = Encode(b)[2]
       PROVE  BodySize(bytes) = Len(b)
  <2>1. bytes[1] = n \div Base /\ bytes[2] = n % Base
    <3>1. 1 \in 1..2 + Len(b) /\ 2 \in 1..2 + Len(b)
      BY <1>1
    <3> QED BY <1>6, <1>7, <1>10, <1>12, <3>1
  <2>2. FromBigEndian(bytes, Base) = n
    BY <1>4, <1>12, <2>1, TwoBytes
  <2>3. PICK m \in Nat : m = Base * Base
    BY <1>1
  <2>4. n - 2 \in 0..m - 1 /\ n - 2 = Len(b)
    BY <1>1, <1>2, <2>3
  <2>5. (n - 2) % m = n - 2
    BY <2>4
  <2> QED BY <2>2, <2>3, <2>4, <2>5 DEF BodySize
<1> QED BY <1>1, <1>10, <1>11, <1>12

-----------------------------------------------------------------------------
(* The operators of MemoryStream *)

StreamRec == [data : Bytes, rpos : Nat, wpos : Nat]

\* A function on 1..n is a sequence.
LEMMA IsBytes ==
  ASSUME NEW n \in Nat, NEW f, DOMAIN f = 1..n, f = [i \in 1..n |-> f[i]], \A i \in 1..n : f[i] \in Byte
  PROVE  f \in Bytes /\ Len(f) = n
<1>1. f \in [1..n -> Byte]
  OBVIOUS
<1> QED BY <1>1 DEF Bytes

\* What a vector holds is kept when it is resized, new bytes are 0.
LEMMA VectorResizeIs ==
  ASSUME NEW data \in Bytes, NEW n \in Nat
  PROVE  /\ VectorResize(data, n) \in Bytes /\ Len(VectorResize(data, n)) = n
         /\ \A i \in 1..n : VectorResize(data, n)[i] = IF i =< Len(data) THEN data[i] ELSE 0
<1>1. 0 \in Byte
  BY ReaderAssumption DEF Byte
<1> QED BY <1>1, ResizedIs DEF Bytes

\* The bytes of the vector that memcpy writes are those behind pos.
LEMMA MemcpyIs ==
  ASSUME NEW data \in Bytes, NEW pos \in Nat, NEW bytes \in Bytes
  PROVE  /\ Memcpy(data, pos, bytes) \in Bytes /\ Len(Memcpy(data, pos, bytes)) = Len(data)
         /\ \A i \in 1..Len(data) :
              Memcpy(data, pos, bytes)[i] = IF i > pos /\ i =< pos + Len(bytes) THEN bytes[i - pos] ELSE data[i]
BY CopyIs DEF Bytes

\* The first n bytes and the rest.
LEMMA CutIs ==
  ASSUME NEW p \in Bytes, NEW n \in 0..Len(p)
  PROVE  /\ SubSeq(p, 1, n) \in Bytes /\ Len(SubSeq(p, 1, n)) = n
         /\ \A i \in 1..n : SubSeq(p, 1, n)[i] = p[i]
         /\ Drop(p, n) \in Bytes /\ Len(Drop(p, n)) = Len(p) - n
         /\ \A i \in 1..(Len(p) - n) : Drop(p, n)[i] = p[n + i]
<1>1. p \in Seq(Byte) /\ Len(p) \in Nat
  BY DEF Bytes
<1>2. \A i \in 1..Len(p) : p[i] \in Byte
  BY <1>1
<1>3. SubSeq(p, 1, n) \in Seq(Byte) /\ Len(SubSeq(p, 1, n)) = n /\ \A i \in 1..n : SubSeq(p, 1, n)[i] = p[i]
  <2>1. \A i \in 1..n : p[i] \in Byte
    BY <1>1, <1>2
  <2>2. 1 \in Int /\ n \in Int
    BY <1>1
  <2>3. SubSeq(p, 1, n) \in Seq(Byte) /\ Len(SubSeq(p, 1, n)) = (IF 1 <= n THEN n - 1 + 1 ELSE 0)
        /\ \A i \in 1..(n - 1 + 1) : SubSeq(p, 1, n)[i] = p[1 + i - 1]
    BY <2>1, <2>2, SubSeqProperties
  <2> QED BY <1>1, <2>3
<1>4. PICK d : d = Drop(p, n)
  OBVIOUS
<1>5. /\ d \in Seq(Byte) /\ Len(d) = (IF n + 1 <= Len(p) THEN Len(p) - (n + 1) + 1 ELSE 0)
      /\ \A i \in 1..(Len(p) - (n + 1) + 1) : d[i] = p[(n + 1) + i - 1]
  <2>1. \A i \in (n + 1)..Len(p) : p[i] \in Byte
    BY <1>1, <1>2
  <2>2. n + 1 \in Int /\ Len(p) \in Int
    BY <1>1
  <2>3. d = SubSeq(p, n + 1, Len(p))
    BY <1>4 DEF Drop
  <2> QED BY <2>1, <2>2, <2>3, SubSeqProperties
<1>6. Len(d) = Len(p) - n
  BY <1>1, <1>5
<1>7. \A i \in 1..(Len(p) - n) : d[i] = p[n + i]
  <2>1. SUFFICES ASSUME NEW i \in 1..(Len(p) - n) PROVE d[i] = p[n + i]
    OBVIOUS
  <2>2. i \in 1..(Len(p) - (n + 1) + 1) /\ (n + 1) + i - 1 = n + i
    BY <1>1
  <2> QED BY <1>5, <2>2
<1> QED BY <1>3, <1>4, <1>5, <1>6, <1>7 DEF Bytes

\* the stream r that n bytes of packet p make of s
Copied(r, s, p, n) ==
  /\ r \in StreamRec /\ r.rpos = s.rpos /\ r.wpos = s.wpos + n /\ Len(r.data) = Len(s.data)
  /\ \A i \in 1..Len(s.data) : r.data[i] = IF i > s.wpos /\ i =< s.wpos + n THEN p[i - s.wpos] ELSE s.data[i]

\* writeFragmentMessage
LEMMA WriteFragmentIs ==
  ASSUME NEW s \in StreamRec, NEW p \in Bytes, NEW n \in 0..Len(p)
  PROVE  Copied(WriteFragment(s, p, n), s, p, n)
<1>1. s.data \in Bytes /\ s.rpos \in Nat /\ s.wpos \in Nat /\ n \in Nat /\ Len(s.data) \in Nat
  BY DEF StreamRec, Bytes
<1>2. PICK q \in Bytes : q = SubSeq(p, 1, n)
  BY CutIs
<1>3. Len(q) = n /\ \A i \in 1..n : q[i] = p[i]
  BY <1>2, CutIs
<1>4. PICK d \in Bytes : d = Memcpy(s.data, s.wpos, q)
  BY <1>1, MemcpyIs
<1>5. Len(d) = Len(s.data) /\ \A i \in 1..Len(s.data) : d[i] = IF i > s.wpos /\ i =< s.wpos + n THEN q[i - s.wpos] ELSE s.data[i]
  <2>1. PICK t, w : t = s.data /\ w = s.wpos
    OBVIOUS
  <2>2. t \in Bytes /\ w \in Nat /\ d = Memcpy(t, w, q)
    BY <1>1, <1>4, <2>1
  <2>3. Len(d) = Len(t) /\ \A i \in 1..Len(t) : d[i] = IF i > w /\ i =< w + Len(q) THEN q[i - w] ELSE t[i]
    BY <2>2, MemcpyIs
  <2> QED BY <1>3, <2>1, <2>3
<1>6. PICK r : r = WriteFragment(s, p, n)
  OBVIOUS
<1>7. r = [s EXCEPT !.data = d, !.wpos = s.wpos + n]
  BY <1>2, <1>4, <1>6 DEF WriteFragment
<1>8. r.data = d /\ r.rpos = s.rpos /\ r.wpos = s.wpos + n
  BY <1>7 DEF StreamRec
<1>9. r \in StreamRec
  <2>1. s.wpos + n \in Nat
    BY <1>1
  <2> QED BY <1>7, <2>1 DEF StreamRec
<1>10. \A i \in 1..Len(s.data) : i > s.wpos /\ i =< s.wpos + n => q[i - s.wpos] = p[i - s.wpos]
  <2>1. SUFFICES ASSUME NEW i \in 1..Len(s.data), i > s.wpos, i =< s.wpos + n PROVE q[i - s.wpos] = p[i - s.wpos]
    OBVIOUS
  <2>2. i - s.wpos \in 1..n
    BY <1>1, <2>1
  <2> QED BY <1>3, <2>2
<1> QED BY <1>5, <1>6, <1>8, <1>9, <1>10 DEF Copied

\* The room for a body is as large as its length says, and is written from its beginning.
LEMMA MakeRoomIs ==
  ASSUME NEW s \in StreamRec, NEW bytes \in Bytes, Len(bytes) = 2
  PROVE  /\ MakeRoom(s, bytes) \in StreamRec /\ MakeRoom(s, bytes).rpos = s.rpos
         /\ MakeRoom(s, bytes).wpos = 0 /\ Len(MakeRoom(s, bytes).data) = BodySize(bytes)
<1>1. s.data \in Bytes /\ s.rpos \in Nat /\ s.wpos \in Nat
  BY DEF StreamRec
<1>2. PICK n \in Nat : n = BodySize(bytes)
  BY BodySizeTyped
<1>3. PICK d \in Bytes : d = VectorResize(s.data, n)
  BY <1>1, VectorResizeIs
<1>4. Len(d) = n
  BY <1>1, <1>3, VectorResizeIs
<1>5. PICK r : r = MakeRoom(s, bytes)
  OBVIOUS
<1>6. r = [data |-> d, rpos |-> s.rpos, wpos |-> 0]
  BY <1>2, <1>3, <1>5 DEF MakeRoom, DataResize, StreamRec
<1> QED BY <1>1, <1>2, <1>4, <1>5, <1>6 DEF StreamRec

\* The second byte of a length that was cut goes behind the first one, which is there unless
\* the stream had no bytes.
LEMMA LengthIs ==
  ASSUME NEW s \in StreamRec, s.rpos = 0, s.wpos = 1, NEW c \in Bytes, Len(c) = 1
  PROVE  LET r == AppendBytes(s, c)
         IN  /\ ReadSkip(r, 2) \in StreamRec /\ ReadSkip(r, 2).rpos = 2
             /\ Peek(r, 2) \in Bytes /\ Len(Peek(r, 2)) = 2
             /\ Peek(r, 2)[1] = IF Len(s.data) = 0 THEN 0 ELSE s.data[1]
             /\ Peek(r, 2)[2] = c[1]
<1>1. s.data \in Bytes /\ Len(s.data) \in Nat
  BY DEF StreamRec, Bytes
<1>2. PICK room : room = IF Len(s.data) < 2 THEN VectorResize(s.data, 2) ELSE s.data
  OBVIOUS
<1>3. room \in Bytes /\ Len(room) \in Nat /\ Len(room) >= 2 /\ room[1] = IF Len(s.data) = 0 THEN 0 ELSE s.data[1]
  <2>1. CASE Len(s.data) < 2
    <3>1. room \in Bytes /\ Len(room) = 2
      BY <1>1, <1>2, <2>1, VectorResizeIs
    <3>2. room[1] = IF 1 =< Len(s.data) THEN s.data[1] ELSE 0
      <4>1. 1 \in 1..2 /\ 2 \in Nat
        OBVIOUS
      <4> QED BY <1>1, <1>2, <2>1, <4>1, VectorResizeIs
    <3> QED BY <1>1, <3>1, <3>2
  <2>2. CASE ~(Len(s.data) < 2)
    BY <1>1, <1>2, <2>2
  <2> QED BY <2>1, <2>2
<1>4. PICK d : d = Memcpy(room, 1, c)
  OBVIOUS
<1>5. d \in Bytes /\ Len(d) = Len(room)
      /\ \A i \in 1..Len(room) : d[i] = IF i > 1 /\ i =< 1 + Len(c) THEN c[i - 1] ELSE room[i]
  <2>1. PICK w \in Nat : w = 1
    OBVIOUS
  <2>2. d = Memcpy(room, w, c)
    BY <1>4, <2>1
  <2>4. room \in Bytes
    BY <1>3
  <2>3. /\ d \in Bytes /\ Len(d) = Len(room)
        /\ \A i \in 1..Len(room) : d[i] = IF i > w /\ i =< w + Len(c) THEN c[i - w] ELSE room[i]
    BY <2>2, <2>4, MemcpyIs
  <2> QED BY <2>1, <2>3
<1>6. d[1] = room[1] /\ d[2] = c[1]
  <2>1. 1 \in 1..Len(room) /\ 2 \in 1..Len(room)
    BY <1>3
  <2> QED BY <1>5, <2>1
<1>7. PICK r : r = AppendBytes(s, c)
  OBVIOUS
<1>8. r = [s EXCEPT !.data = d, !.wpos = 2]
  BY <1>2, <1>4, <1>7 DEF AppendBytes, Size
<1>9. r.data = d /\ r.rpos = 0 /\ r.wpos = 2
  BY <1>8 DEF StreamRec
<1>10. r \in StreamRec
  BY <1>5, <1>8 DEF StreamRec
<1>11. ReadSkip(r, 2) \in StreamRec /\ ReadSkip(r, 2).rpos = 2
  <2>1. PICK t : t = [r EXCEPT !.rpos = 2]
    OBVIOUS
  <2>2. t \in StreamRec /\ t.rpos = 2
    BY <1>10, <2>1 DEF StreamRec
  <2>3. ReadSkip(r, 2) = t
    BY <1>9, <2>1 DEF ReadSkip
  <2> QED BY <2>2, <2>3
<1>12. PICK q : q = Peek(r, 2)
  OBVIOUS
<1>13. q = SubSeq(d, 1, 2)
  BY <1>9, <1>12 DEF Peek
<1>14. q \in Bytes /\ Len(q) = 2 /\ \A i \in 1..2 : q[i] = d[i]
  <2>1. 2 \in 0..Len(d)
    BY <1>3, <1>5
  <2> QED BY <1>5, <1>13, <2>1, CutIs
<1> QED BY <1>3, <1>6, <1>7, <1>11, <1>12, <1>14

-----------------------------------------------------------------------------
(* The rounds of processMessages *)

\* The message that is put together, with the read and the write index where the flag says.
Form ==
  /\ fragmentDatasFlag_ \in {"UNKNOW", "LENGTH", "BODY"}
  /\ fragmentDatasFlag_ = "UNKNOW" => currPacket.rpos = 0 /\ currPacket.wpos = 0
  /\ fragmentDatasFlag_ = "LENGTH" => currPacket.rpos = 0 /\ currPacket.wpos = 1
  /\ fragmentDatasFlag_ = "BODY" =>
       currPacket.rpos \in {0, 2} /\ currPacket.wpos < Len(currPacket.data)

Typing ==
  /\ sent \in Seq(Bodies) /\ wire \in Bytes /\ pPacket \in Bytes /\ currPacket \in StreamRec
  /\ busy \in BOOLEAN /\ (~busy => pPacket = <<>>)
  /\ cut \in SUBSET (1..Len(sent)) /\ handled \in Seq(Bytes)
  /\ Form

\* Rest of a packet p is not enough for the message in s: all of it is copied ...
Waits(s, p) ==
  /\ Len(p) < Len(s.data) - s.wpos
  /\ Copied(currPacket', s, p, Len(p))
  /\ fragmentDatasFlag_' = "BODY" /\ pPacket' = <<>> /\ busy' = FALSE /\ handled' = handled

\* ... or it completes the message, m, which is handed over from the read index.
Completes(s, p) ==
  /\ Len(p) >= Len(s.data) - s.wpos
  /\ \E m \in StreamRec :
       /\ Copied(m, s, p, Len(s.data) - s.wpos)
       /\ handled' = Append(handled, SubSeq(m.data, s.rpos + 1, Len(m.data)))
       /\ currPacket' \in StreamRec /\ currPacket'.data = m.data
       /\ currPacket'.rpos = 0 /\ currPacket'.wpos = 0
  /\ fragmentDatasFlag_' = "UNKNOW" /\ pPacket' = Drop(p, Len(s.data) - s.wpos) /\ busy' = busy

\* The second half of the loop's body.
LEMMA FinishIs ==
  ASSUME NEW s \in StreamRec, s.wpos =< Len(s.data), NEW p \in Bytes, Finish(s, p)
  PROVE  Waits(s, p) \/ Completes(s, p)
<1>1. s.data \in Bytes /\ Len(s.data) \in Nat /\ s.rpos \in Nat /\ s.wpos \in Nat /\ Len(p) \in Nat
  BY DEF StreamRec, Bytes
<1>2. PICK n \in Nat : n = Len(s.data) - s.wpos
  BY <1>1
<1>3. Space(s) = n
  BY <1>1, <1>2 DEF Space, Size
<1>4. CASE Len(p) < n
  <2>1. Copied(WriteFragment(s, p, Len(p)), s, p, Len(p))
    <3>1. Len(p) \in 0..Len(p)
      BY <1>1
    <3> QED BY <3>1, WriteFragmentIs
  <2>2. /\ currPacket' = WriteFragment(s, p, Len(p)) /\ fragmentDatasFlag_' = "BODY"
        /\ pPacket' = <<>> /\ busy' = FALSE /\ handled' = handled
    BY <1>3, <1>4 DEF Finish
  <2> QED BY <1>2, <1>4, <2>1, <2>2 DEF Waits
<1>5. CASE ~(Len(p) < n)
  <2>1. PICK m : m = WriteFragment(s, p, n)
    OBVIOUS
  <2>2. /\ handled' = Append(handled, Peek(m, Length(m)))
        /\ currPacket' = Clear(m, FALSE) /\ fragmentDatasFlag_' = "UNKNOW"
        /\ pPacket' = Drop(p, n) /\ busy' = busy
    BY <1>3, <1>5, <2>1 DEF Finish
  <2>3. Copied(m, s, p, n)
    <3>1. n \in 0..Len(p)
      BY <1>1, <1>5
    <3> QED BY <2>1, <3>1, WriteFragmentIs
  <2>4. m \in StreamRec /\ m.data \in Bytes /\ m.rpos = s.rpos /\ m.wpos = Len(s.data) /\ Len(m.data) = Len(s.data)
    <3>1. m \in StreamRec /\ m.rpos = s.rpos /\ m.wpos = s.wpos + n /\ Len(m.data) = Len(s.data)
      BY <2>3 DEF Copied
    <3> QED BY <1>1, <1>2, <3>1 DEF StreamRec
  <2>5. Peek(m, Length(m)) = SubSeq(m.data, s.rpos + 1, Len(m.data))
    <3>1. CASE s.rpos >= Len(s.data)
      <4>1. Length(m) = 0
        BY <2>4, <3>1 DEF Length
      <4>2. PICK a, z \in Int : a = s.rpos /\ z = Len(m.data)
        BY <1>1, <2>4
      <4>3. SubSeq(m.data, a + 1, a + 0) = <<>>
        <5>1. a + 1 \in Int /\ a + 0 \in Int /\ a + 0 < a + 1
          BY <4>2
        <5> QED BY <5>1, SubSeqEmpty
      <4>4. SubSeq(m.data, a + 1, z) = <<>>
        <5>1. a + 1 \in Int /\ z < a + 1
          BY <1>1, <2>4, <3>1, <4>2
        <5> QED BY <4>2, <5>1, SubSeqEmpty
      <4> QED BY <2>4, <4>1, <4>2, <4>3, <4>4 DEF Peek
    <3>2. CASE ~(s.rpos >= Len(s.data))
      <4>1. Length(m) = Len(s.data) - s.rpos
        BY <1>1, <2>4, <3>2 DEF Length
      <4>2. m.rpos + Length(m) = Len(m.data)
        BY <1>1, <2>4, <4>1
      <4> QED BY <2>4, <4>2 DEF Peek
    <3> QED BY <3>1, <3>2
  <2>6. currPacket' \in StreamRec /\ currPacket'.data = m.data /\ currPacket'.rpos = 0 /\ currPacket'.wpos = 0
    <3>1. currPacket' = [data |-> m.data, rpos |-> 0, wpos |-> 0]
      BY <2>2 DEF Clear
    <3> QED BY <2>4, <3>1 DEF StreamRec
  <2>7. handled' = Append(handled, SubSeq(m.data, s.rpos + 1, Len(m.data)))
    BY <2>2, <2>5
  <2>8. Len(p) >= n
    BY <1>1, <1>5
  <2>9. \E k \in StreamRec :
          /\ Copied(k, s, p, n) /\ handled' = Append(handled, SubSeq(k.data, s.rpos + 1, Len(k.data)))
          /\ currPacket' \in StreamRec /\ currPacket'.data = k.data
          /\ currPacket'.rpos = 0 /\ currPacket'.wpos = 0
    BY <2>3, <2>4, <2>6, <2>7
  <2>10. Completes(s, p)
    BY <1>2, <2>2, <2>8, <2>9 DEF Completes
  <2> QED BY <2>10
<1> QED BY <1>4, <1>5

\* Which stream and which bytes a round finishes with: length, body, read index.
FromLength(s) ==
  /\ fragmentDatasFlag_ = "UNKNOW" /\ Len(pPacket) >= 2
  /\ s.rpos = 0 /\ s.wpos = 0 /\ Len(s.data) = BodySize(SubSeq(pPacket, 1, 2))
FromCutLength(s) ==
  /\ fragmentDatasFlag_ = "LENGTH" /\ pPacket # <<>>
  /\ s.rpos = 2 /\ s.wpos = 0
  /\ \E bytes \in Bytes :
       /\ Len(bytes) = 2 /\ bytes[1] = (IF Len(currPacket.data) = 0 THEN 0 ELSE currPacket.data[1])
       /\ bytes[2] = pPacket[1] /\ Len(s.data) = BodySize(bytes)

\* A round that reads a whole length.
LEMMA LengthReadIs ==
  ASSUME Typing, LengthRead
  PROVE  \E s \in StreamRec : /\ FromLength(s)
                              /\ Waits(s, Drop(pPacket, 2)) \/ Completes(s, Drop(pPacket, 2))
<1>1. currPacket \in StreamRec /\ pPacket \in Bytes /\ Len(pPacket) \in Nat
  BY DEF Typing, Bytes
<1>2. fragmentDatasFlag_ = "UNKNOW" /\ Len(pPacket) >= 2 /\ currPacket.rpos = 0
  BY DEF LengthRead, Typing, Form
<1>3. 2 \in 0..Len(pPacket)
  BY <1>1, <1>2
<1>4. PICK bytes \in Bytes : bytes = SubSeq(pPacket, 1, 2) /\ Len(bytes) = 2
  BY <1>1, <1>3, CutIs
<1>5. PICK p \in Bytes : p = Drop(pPacket, 2)
  BY <1>1, <1>3, CutIs
<1>6. PICK s : s = MakeRoom(currPacket, bytes)
  OBVIOUS
<1>7. s \in StreamRec /\ s.rpos = 0 /\ s.wpos = 0 /\ Len(s.data) = BodySize(bytes)
  BY <1>1, <1>2, <1>4, <1>6, MakeRoomIs
<1>8. Finish(s, p)
  BY <1>4, <1>5, <1>6 DEF LengthRead
<1>9. s.wpos =< Len(s.data)
  BY <1>7 DEF StreamRec, Bytes
<1>10. Waits(s, p) \/ Completes(s, p)
  BY <1>7, <1>8, <1>9, FinishIs
<1> QED BY <1>2, <1>4, <1>5, <1>7, <1>10 DEF FromLength

\* A round that reads the second byte of a length.
LEMMA LengthCompletedIs ==
  ASSUME Typing, LengthCompleted
  PROVE  \E s \in StreamRec : /\ FromCutLength(s)
                              /\ Waits(s, Drop(pPacket, 1)) \/ Completes(s, Drop(pPacket, 1))
<1>1. currPacket \in StreamRec /\ pPacket \in Bytes /\ Len(pPacket) \in Nat
  BY DEF Typing, Bytes
<1>2. fragmentDatasFlag_ = "LENGTH" /\ pPacket # <<>> /\ currPacket.rpos = 0 /\ currPacket.wpos = 1
  BY DEF LengthCompleted, Round, Typing, Form
<1>3. 1 \in 0..Len(pPacket)
  <2>1. pPacket \in Seq(Byte)
    BY <1>1 DEF Bytes
  <2>2. Len(pPacket) # 0
    BY <1>2, <2>1
  <2> QED BY <1>1, <2>2
<1>4. PICK c \in Bytes : c = SubSeq(pPacket, 1, 1) /\ Len(c) = 1 /\ c[1] = pPacket[1]
  <2>1. 1 \in 1..1
    OBVIOUS
  <2> QED BY <1>1, <1>3, <2>1, CutIs
<1>5. PICK p \in Bytes : p = Drop(pPacket, 1)
  BY <1>1, <1>3, CutIs
<1>6. PICK t, bytes : t = ReadSkip(AppendBytes(currPacket, c), 2) /\ bytes = Peek(AppendBytes(currPacket, c), 2)
  OBVIOUS
<1>7. /\ t \in StreamRec /\ t.rpos = 2 /\ bytes \in Bytes /\ Len(bytes) = 2
      /\ bytes[1] = (IF Len(currPacket.data) = 0 THEN 0 ELSE currPacket.data[1]) /\ bytes[2] = c[1]
  BY <1>1, <1>2, <1>4, <1>6, LengthIs
<1>8. PICK s : s = MakeRoom(t, bytes)
  OBVIOUS
<1>9. s \in StreamRec /\ s.rpos = 2 /\ s.wpos = 0 /\ Len(s.data) = BodySize(bytes)
  <2>1. t \in StreamRec /\ bytes \in Bytes /\ Len(bytes) = 2 /\ t.rpos = 2
    BY <1>7
  <2> QED BY <1>8, <2>1, MakeRoomIs
<1>10. Finish(s, p)
  BY <1>4, <1>5, <1>6, <1>8 DEF LengthCompleted
<1>11. s.wpos =< Len(s.data)
  BY <1>9 DEF StreamRec, Bytes
<1>12. Waits(s, p) \/ Completes(s, p)
  BY <1>9, <1>10, <1>11, FinishIs
<1>13. FromCutLength(s)
  BY <1>2, <1>4, <1>7, <1>9 DEF FromCutLength
<1> QED BY <1>5, <1>9, <1>12, <1>13

\* A round that continues a body.
LEMMA BodyContinuedIs ==
  ASSUME Typing, BodyContinued
  PROVE  Waits(currPacket, pPacket) \/ Completes(currPacket, pPacket)
<1>1. currPacket \in StreamRec /\ pPacket \in Bytes /\ currPacket.wpos < Len(currPacket.data)
  BY DEF Typing, BodyContinued, Form
<1>2. currPacket.wpos =< Len(currPacket.data)
  BY <1>1 DEF StreamRec, Bytes
<1> QED BY <1>1, <1>2, FinishIs DEF BodyContinued

\* A round that reads the first byte of a length.
LEMMA LengthSplitIs ==
  ASSUME Typing, LengthSplit
  PROVE  /\ fragmentDatasFlag_ = "UNKNOW" /\ Len(pPacket) = 1
         /\ Copied(currPacket', currPacket, pPacket, 1)
         /\ fragmentDatasFlag_' = "LENGTH" /\ pPacket' = <<>> /\ busy' = FALSE /\ handled' = handled
<1>1. currPacket \in StreamRec /\ pPacket \in Bytes /\ pPacket \in Seq(Byte) /\ Len(pPacket) \in Nat
  BY DEF Typing, Bytes
<1>2. Len(pPacket) < 2 /\ pPacket # <<>>
  BY DEF LengthSplit, Round
<1>3. Len(pPacket) = 1
  <2>1. Len(pPacket) # 0
    BY <1>1, <1>2
  <2>2. PICK n \in Nat : n = Len(pPacket)
    BY <1>1
  <2>3. n < 2 /\ n # 0
    BY <1>2, <2>1, <2>2
  <2>4. n = 1
    BY <2>3
  <2> QED BY <2>2, <2>4
<1>4. 1 \in 0..Len(pPacket)
  BY <1>3
<1>5. Copied(WriteFragment(currPacket, pPacket, 1), currPacket, pPacket, 1)
  BY <1>1, <1>4, WriteFragmentIs
<1> QED BY <1>3, <1>5 DEF LengthSplit

-----------------------------------------------------------------------------
(* TypeOK *)

\* The rest of a body from anywhere.
LEMMA RestIs ==
  ASSUME NEW d \in Bytes, NEW a \in Nat
  PROVE  SubSeq(d, a + 1, Len(d)) \in Bytes
<1>1. d \in Seq(Byte) /\ Len(d) \in Nat /\ a + 1 \in Int /\ a + 1 >= 1
  BY DEF Bytes
<1>2. PICK b \in Int : b = a + 1
  BY <1>1
<1>3. \A i \in b..Len(d) : d[i] \in Byte
  BY <1>1, <1>2
<1> QED BY <1>1, <1>2, <1>3, SubSeqProperties DEF Bytes

\* The end of a round keeps the types.
LEMMA FinishTyped ==
  ASSUME Typing, busy, UNCHANGED <<sent, wire, cut>>, NEW s \in StreamRec, s.rpos \in {0, 2}, s.wpos =< Len(s.data),
         NEW p \in Bytes, Waits(s, p) \/ Completes(s, p)
  PROVE  Typing'
<1>1. s.data \in Bytes /\ Len(s.data) \in Nat /\ s.rpos \in Nat /\ s.wpos \in Nat /\ Len(p) \in Nat
  BY DEF StreamRec, Bytes
<1>2. /\ sent' \in Seq(Bodies) /\ wire' \in Bytes /\ cut' \in SUBSET (1..Len(sent')) /\ handled \in Seq(Bytes)
  BY DEF Typing
<1>3. CASE Waits(s, p)
  <2>1. currPacket' \in StreamRec /\ currPacket'.rpos = s.rpos /\ currPacket'.wpos = s.wpos + Len(p)
        /\ Len(currPacket'.data) = Len(s.data) /\ Len(p) < Len(s.data) - s.wpos
    BY <1>3 DEF Waits, Copied
  <2>2. fragmentDatasFlag_' = "BODY" /\ pPacket' = <<>> /\ busy' = FALSE /\ handled' = handled
    BY <1>3 DEF Waits
  <2>3. Form'
    <3>1. currPacket'.wpos < Len(currPacket'.data)
      BY <1>1, <2>1
    <3> QED BY <2>1, <2>2, <3>1 DEF Form
  <2>4. pPacket' \in Bytes
    <3>1. <<>> \in Seq(Byte)
      OBVIOUS
    <3> QED BY <2>2, <3>1 DEF Bytes
  <2> QED BY <1>2, <2>1, <2>2, <2>3, <2>4 DEF Typing
<1>4. CASE Completes(s, p)
  <2>1. PICK m \in StreamRec : handled' = Append(handled, SubSeq(m.data, s.rpos + 1, Len(m.data)))
    BY <1>4 DEF Completes
  <2>2. /\ currPacket' \in StreamRec /\ currPacket'.rpos = 0 /\ currPacket'.wpos = 0
        /\ fragmentDatasFlag_' = "UNKNOW" /\ busy' = TRUE
    BY <1>4 DEF Completes, Typing
  <2>3. Form'
    BY <2>2 DEF Form
  <2>4. handled' \in Seq(Bytes)
    <3>1. m.data \in Bytes
      BY DEF StreamRec
    <3>2. PICK b \in Bytes : b = SubSeq(m.data, s.rpos + 1, Len(m.data))
      BY <1>1, <3>1, RestIs
    <3>3. Append(handled, b) \in Seq(Bytes)
      BY <1>2
    <3> QED BY <2>1, <3>2, <3>3
  <2>5. pPacket' \in Bytes
    <3>1. PICK n \in Nat : n = Len(s.data) - s.wpos
      BY <1>1
    <3>2. pPacket' = Drop(p, n) /\ Len(p) >= n
      BY <1>4, <3>1 DEF Completes
    <3>3. n \in 0..Len(p)
      BY <1>1, <3>2
    <3> QED BY <3>2, <3>3, CutIs
  <2> QED BY <1>2, <2>2, <2>3, <2>4, <2>5 DEF Typing
<1> QED BY <1>3, <1>4

\* Every step keeps the types.
LEMMA StepTyping == Typing /\ [Next]_vars => Typing'
<1> SUFFICES ASSUME Typing, [Next]_vars PROVE Typing'
  OBVIOUS
<1>1. /\ sent \in Seq(Bodies) /\ Len(sent) \in Nat /\ wire \in Bytes /\ Len(wire) \in Nat
      /\ pPacket \in Bytes /\ Len(pPacket) \in Nat /\ currPacket \in StreamRec
      /\ busy \in BOOLEAN /\ (~busy => pPacket = <<>>) /\ cut \in SUBSET (1..Len(sent))
      /\ handled \in Seq(Bytes) /\ Form
  BY DEF Typing, Bytes
<1>2. <<>> \in Bytes
  <2>1. <<>> \in Seq(Byte)
    OBVIOUS
  <2> QED BY <2>1 DEF Bytes
<1>3. ASSUME NEW b \in Bodies, PeerSends(b) PROVE Typing'
  <2>1. /\ sent' = Append(sent, b) /\ wire' = wire \o Encode(b)
        /\ UNCHANGED <<pPacket, currPacket, fragmentDatasFlag_, busy, cut, handled>>
    BY <1>3 DEF PeerSends
  <2>2. sent' \in Seq(Bodies) /\ Len(sent') = Len(sent) + 1
    BY <1>1, <2>1
  <2>3. wire' \in Bytes
    <3>1. wire \in Seq(Byte) /\ Encode(b) \in Seq(Byte)
      BY <1>1, EncodeIs DEF Bytes
    <3> QED BY <2>1, <3>1, ConcatProperties DEF Bytes
  <2>4. cut' \in SUBSET (1..Len(sent'))
    BY <1>1, <2>1, <2>2
  <2> QED BY <1>1, <2>1, <2>2, <2>3, <2>4 DEF Typing, Form
<1>4. ASSUME NEW n \in 1..Len(wire), Receive(n) PROVE Typing'
  <2>1. /\ pPacket' = SubSeq(wire, 1, n) /\ wire' = Drop(wire, n) /\ busy' = TRUE
        /\ cut' = cut \cup {m \in DOMAIN sent : Taken + n = EndOf(m - 1) + 1}
        /\ UNCHANGED <<sent, currPacket, fragmentDatasFlag_, handled>>
    BY <1>4 DEF Receive, Drop
  <2>2. pPacket' \in Bytes /\ wire' \in Bytes
    <3>1. n \in 0..Len(wire)
      BY <1>1
    <3> QED BY <1>1, <2>1, <3>1, CutIs
  <2>3. cut' \in SUBSET (1..Len(sent))
    <3>1. DOMAIN sent = 1..Len(sent)
      BY <1>1
    <3> QED BY <1>1, <2>1, <3>1
  <2> QED BY <1>1, <2>1, <2>2, <2>3 DEF Typing, Form
<1>5. ASSUME LengthSplit PROVE Typing'
  <2>1. /\ currPacket' \in StreamRec /\ currPacket'.rpos = 0 /\ currPacket'.wpos = 1
        /\ fragmentDatasFlag_' = "LENGTH" /\ pPacket' = <<>> /\ busy' = FALSE /\ handled' = handled
    BY <1>1, <1>5, LengthSplitIs DEF Copied, Form
  <2>2. UNCHANGED <<sent, wire, cut>>
    BY <1>5 DEF LengthSplit, Round
  <2> QED BY <1>1, <1>2, <2>1, <2>2 DEF Typing, Form
<1>6. ASSUME LengthRead PROVE Typing'
  <2>1. PICK s \in StreamRec : /\ FromLength(s)
                               /\ Waits(s, Drop(pPacket, 2)) \/ Completes(s, Drop(pPacket, 2))
    BY <1>6, LengthReadIs
  <2>2. s.rpos \in {0, 2} /\ s.wpos =< Len(s.data) /\ 2 \in 0..Len(pPacket)
    BY <1>1, <2>1 DEF FromLength, StreamRec, Bytes
  <2>3. Drop(pPacket, 2) \in Bytes
    BY <1>1, <2>2, CutIs
  <2>4. busy /\ UNCHANGED <<sent, wire, cut>>
    BY <1>6 DEF LengthRead, Round
  <2> QED BY <2>1, <2>2, <2>3, <2>4, FinishTyped
<1>7. ASSUME LengthCompleted PROVE Typing'
  <2>1. PICK s \in StreamRec : /\ FromCutLength(s)
                               /\ Waits(s, Drop(pPacket, 1)) \/ Completes(s, Drop(pPacket, 1))
    BY <1>7, LengthCompletedIs
  <2>2. s.rpos \in {0, 2} /\ s.wpos =< Len(s.data) /\ pPacket # <<>>
    BY <2>1 DEF FromCutLength, StreamRec, Bytes
  <2>3. 1 \in 0..Len(pPacket)
    <3>1. Len(pPacket) # 0
      BY <1>1, <2>2 DEF Bytes
    <3> QED BY <1>1, <3>1
  <2>4. Drop(pPacket, 1) \in Bytes
    BY <1>1, <2>3, CutIs
  <2>5. busy /\ UNCHANGED <<sent, wire, cut>>
    BY <1>7 DEF LengthCompleted, Round
  <2> QED BY <2>1, <2>2, <2>4, <2>5, FinishTyped
<1>8. ASSUME BodyContinued PROVE Typing'
  <2>1. Waits(currPacket, pPacket) \/ Completes(currPacket, pPacket)
    BY <1>8, BodyContinuedIs
  <2>2. busy /\ UNCHANGED <<sent, wire, cut>> /\ fragmentDatasFlag_ = "BODY"
    BY <1>8 DEF BodyContinued, Round
  <2>3. currPacket.rpos \in {0, 2} /\ currPacket.wpos =< Len(currPacket.data)
    BY <1>1, <2>2 DEF Form, StreamRec, Bytes
  <2> QED BY <1>1, <2>1, <2>2, <2>3, FinishTyped
<1>9. ASSUME Return PROVE Typing'
  BY <1>1, <1>9 DEF Return, Typing, Form
<1>10. ASSUME UNCHANGED vars PROVE Typing'
  BY <1>1, <1>10 DEF vars, Typing, Form
<1> QED BY <1>3, <1>4, <1>5, <1>6, <1>7, <1>8, <1>9, <1>10 DEF Next, processMessages

\* The reader begins with a Packet of its own.
LEMMA InitTyping == Init => Typing
<1> SUFFICES ASSUME Init PROVE Typing
  OBVIOUS
<1>1. <<>> \in Seq(Bodies) /\ <<>> \in Seq(Byte) /\ <<>> \in Seq(Bytes)
  OBVIOUS
<1>2. PacketSize \in Nat
  BY ReaderAssumption
<1>3. PICK d \in Bytes : d = VectorResize(<<>>, PacketSize)
  BY <1>1, <1>2, VectorResizeIs DEF Bytes
<1>4. currPacket = [data |-> d, rpos |-> 0, wpos |-> 0]
  BY <1>3 DEF Init, EmptyStream
<1>5. currPacket \in StreamRec /\ currPacket.rpos = 0 /\ currPacket.wpos = 0
  BY <1>4 DEF StreamRec
<1>6. /\ sent = <<>> /\ wire = <<>> /\ pPacket = <<>> /\ handled = <<>> /\ busy = FALSE /\ cut = {}
      /\ fragmentDatasFlag_ = "UNKNOW"
  BY DEF Init
<1> QED BY <1>1, <1>5, <1>6 DEF Typing, Form, Bytes

\* The types are an invariant.
LEMMA InvTyping == Spec => []Typing
BY StepTyping, InitTyping, PTL DEF Spec

\* The types are what TypeOK says.
LEMMA TypingOK == Typing => TypeOK
<1> SUFFICES ASSUME Typing PROVE TypeOK
  OBVIOUS
<1>1. /\ pPacket \in Bytes /\ currPacket \in StreamRec /\ currPacket.data \in Bytes /\ Len(currPacket.data) \in Nat
      /\ currPacket.rpos \in Nat /\ currPacket.wpos \in Nat
  BY DEF Typing, StreamRec, Bytes
<1>2. ASSUME NEW b \in Bytes PROVE Range(b) \subseteq 0..Base - 1
  <2>1. b \in Seq(Byte)
    BY DEF Bytes
  <2> QED BY <2>1, RangeOfSeq DEF Byte
<1>3. Range(pPacket) \cup Range(currPacket.data) \subseteq 0..Base - 1
  BY <1>1, <1>2
<1>4. cut \subseteq DOMAIN sent
  <2>1. sent \in Seq(Bodies) /\ cut \in SUBSET (1..Len(sent))
    BY DEF Typing
  <2> QED BY <2>1
<1>5. /\ fragmentDatasFlag_ \in {"UNKNOW", "LENGTH", "BODY"} /\ busy \in BOOLEAN /\ currPacket.rpos \in 0..2
  BY DEF Typing, Form
<1>6. currPacket.wpos > Size(currPacket) => currPacket.wpos = 1 /\ fragmentDatasFlag_ = "LENGTH"
  <2>1. CASE fragmentDatasFlag_ = "UNKNOW"
    BY <1>1, <2>1 DEF Typing, Form, Size
  <2>2. CASE fragmentDatasFlag_ = "LENGTH"
    BY <2>2 DEF Typing, Form
  <2>3. CASE fragmentDatasFlag_ = "BODY"
    BY <1>1, <2>3 DEF Typing, Form, Size
  <2> QED BY <1>5, <2>1, <2>2, <2>3
<1> QED BY <1>1, <1>3, <1>4, <1>5, <1>6 DEF TypeOK

\* Bytes are bytes, and the write index of the message that is put together passes the end of
\* its bytes only by the first byte of a cut length, after an empty message: whatever is sent,
\* however it is cut, and also when the reader has lost its place.
THEOREM TypeOKThm == Spec => []TypeOK
BY InvTyping, TypingOK, PTL

-----------------------------------------------------------------------------
(* The place in the stream *)

\* bytes hold the part of the stream of msgs that begins behind its first off bytes
Holds(msgs, bytes, off) ==
  \A n \in 1..Len(msgs) : \A i \in 1..(2 + Len(msgs[n])) :
    Ends(msgs)[n - 1] + i - off \in 1..Len(bytes) => bytes[Ends(msgs)[n - 1] + i - off] = Encode(msgs[n])[i]

\* Where a message begins is a number.
LEMMA BeginTyped ==
  ASSUME NEW msgs \in Seq(Bytes), NEW n \in 1..Len(msgs)
  PROVE  /\ n - 1 \in 0..Len(msgs) /\ Ends(msgs)[n - 1] \in Nat /\ Len(msgs[n]) \in Nat
         /\ Ends(msgs)[n] \in Nat /\ Ends(msgs)[n] = Ends(msgs)[n - 1] + 2 + Len(msgs[n])
         /\ Ends(msgs)[Len(msgs)] \in Nat /\ Ends(msgs)[n] =< Ends(msgs)[Len(msgs)]
<1>1. Len(msgs) \in Nat /\ n - 1 \in 0..Len(msgs) /\ n \in 0..Len(msgs) /\ Len(msgs) \in n..Len(msgs) /\ Len(msgs) \in 0..Len(msgs)
  OBVIOUS
<1>2. Len(msgs[n]) \in Nat
  BY DEF Bytes
<1>3. Ends(msgs)[n - 1] \in Nat /\ Ends(msgs)[n] \in Nat /\ Ends(msgs)[Len(msgs)] \in Nat
  BY <1>1, EndsTyped
<1>4. Ends(msgs)[n] = Ends(msgs)[n - 1] + 2 + Len(msgs[n])
  BY EndsIs
<1>5. Ends(msgs)[n - 1] + 2 + Len(msgs[n]) =< Ends(msgs)[Len(msgs)]
  BY <1>1, EndsRise
<1> QED BY <1>1, <1>2, <1>3, <1>4, <1>5

\* The first j bytes of what holds a part of the stream, and the others, hold parts of it.
LEMMA HoldsCut ==
  ASSUME NEW msgs \in Seq(Bytes), NEW w \in Bytes, NEW off \in Int, Holds(msgs, w, off), NEW j \in 0..Len(w)
  PROVE  Holds(msgs, SubSeq(w, 1, j), off) /\ Holds(msgs, Drop(w, j), off + j)
<1>1. PICK u, v : u = SubSeq(w, 1, j) /\ v = Drop(w, j)
  OBVIOUS
<1>2. /\ Len(u) = j /\ \A i \in 1..j : u[i] = w[i]
      /\ Len(v) = Len(w) - j /\ \A i \in 1..(Len(w) - j) : v[i] = w[j + i]
      /\ Len(w) \in Nat
  <2>1. Len(w) \in Nat
    BY DEF Bytes
  <2> QED BY <1>1, <2>1, CutIs
<1>3. ASSUME NEW n \in 1..Len(msgs), NEW i \in 1..(2 + Len(msgs[n]))
      PROVE  /\ Ends(msgs)[n - 1] + i - off \in 1..Len(u) => u[Ends(msgs)[n - 1] + i - off] = Encode(msgs[n])[i]
             /\ Ends(msgs)[n - 1] + i - (off + j) \in 1..Len(v)
                  => v[Ends(msgs)[n - 1] + i - (off + j)] = Encode(msgs[n])[i]
  <2>1. Ends(msgs)[n - 1] \in Nat /\ i \in Nat
    BY BeginTyped
  <2>2. PICK k \in Int : k = Ends(msgs)[n - 1] + i - off
    BY <2>1
  <2>3. Ends(msgs)[n - 1] + i - (off + j) = k - j
    BY <2>1, <2>2
  <2>4. k \in 1..Len(w) => w[k] = Encode(msgs[n])[i]
    BY <2>2 DEF Holds
  <2>5. k \in 1..j => u[k] = Encode(msgs[n])[i]
    BY <1>2, <2>4
  <2>6. k - j \in 1..(Len(w) - j) => v[k - j] = Encode(msgs[n])[i]
    <3>1. SUFFICES ASSUME k - j \in 1..(Len(w) - j) PROVE v[k - j] = Encode(msgs[n])[i]
      OBVIOUS
    <3>2. v[k - j] = w[j + (k - j)]
      BY <1>2, <3>1
    <3>3. PICK q \in Nat : q = Len(w)
      BY <1>2
    <3>4. j \in 0..q /\ k - j \in 1..(q - j)
      BY <3>1, <3>3
    <3>5. j + (k - j) = k /\ k \in 1..q
      BY <3>4
    <3> QED BY <2>4, <3>2, <3>3, <3>5
  <2> QED BY <1>2, <2>2, <2>3, <2>5, <2>6
<1> QED BY <1>1, <1>3 DEF Holds

\* When one more message is sent ...
LEMMA HoldsSame ==
  ASSUME NEW msgs \in Seq(Bytes), NEW b \in Bytes, NEW w \in Bytes, NEW off \in Int, Holds(msgs, w, off),
         off + Len(w) =< Ends(msgs)[Len(msgs)]
  PROVE  Holds(Append(msgs, b), w, off)
<1>1. PICK more \in Seq(Bytes) : more = Append(msgs, b)
  BY AppendProperties
<1>2. Len(msgs) \in Nat /\ Len(w) \in Nat /\ Len(more) = Len(msgs) + 1 /\ \A j \in 1..Len(msgs) : more[j] = msgs[j]
  BY <1>1, AppendProperties DEF Bytes
<1>3. SUFFICES ASSUME NEW n \in 1..Len(more), NEW i \in 1..(2 + Len(more[n])), Ends(more)[n - 1] + i - off \in 1..Len(w)
               PROVE  w[Ends(more)[n - 1] + i - off] = Encode(more[n])[i]
  BY <1>1 DEF Holds
<1>4. n - 1 \in 0..Len(msgs)
  BY <1>2
<1>5. Ends(more)[n - 1] = Ends(msgs)[n - 1] /\ Ends(msgs)[n - 1] \in Nat
  BY <1>1, <1>4, EndsGrow, EndsTyped
<1>6. CASE n \in 1..Len(msgs)
  <2>1. more[n] = msgs[n]
    BY <1>2, <1>6
  <2> QED BY <1>3, <1>5, <1>6, <2>1 DEF Holds
<1>7. CASE n \notin 1..Len(msgs)
  <2>1. n - 1 = Len(msgs)
    BY <1>2, <1>7
  <2>2. PICK e \in Nat : e = Ends(msgs)[Len(msgs)]
    BY <1>5, <2>1
  <2>3. e + i - off \in 1..Len(w)
    BY <1>3, <1>5, <2>1, <2>2
  <2>4. i \in Nat /\ i >= 1
    <3>1. Len(more[n]) \in Nat
      BY BeginTyped
    <3> QED BY <3>1
  <2>5. off + Len(w) =< e
    BY <2>2
  <2> QED BY <1>2, <2>3, <2>4, <2>5
<1> QED BY <1>6, <1>7

\* ... and its bytes follow.
LEMMA HoldsMore ==
  ASSUME NEW msgs \in Seq(Bytes), NEW b \in Bodies, NEW w \in Bytes, NEW off \in Int, Holds(msgs, w, off),
         off + Len(w) = Ends(msgs)[Len(msgs)]
  PROVE  /\ Holds(Append(msgs, b), w \o Encode(b), off) /\ Len(w \o Encode(b)) = Len(w) + 2 + Len(b)
         /\ Ends(Append(msgs, b))[Len(Append(msgs, b))] = Ends(msgs)[Len(msgs)] + 2 + Len(b)
<1>1. b \in Bytes /\ Encode(b) \in Bytes /\ Len(Encode(b)) = 2 + Len(b) /\ Len(b) \in Nat
  BY EncodeIs DEF Bytes
<1>2. PICK more \in Seq(Bytes) : more = Append(msgs, b)
  BY <1>1, AppendProperties
<1>3. /\ Len(msgs) \in Nat /\ Len(w) \in Nat /\ Len(more) = Len(msgs) + 1 /\ Len(msgs) + 1 \in 1..Len(more)
      /\ more[Len(msgs) + 1] = b /\ \A j \in 1..Len(msgs) : more[j] = msgs[j]
  BY <1>1, <1>2, AppendProperties DEF Bytes
<1>4. PICK v : v = w \o Encode(b)
  OBVIOUS
<1>5. /\ Len(v) = Len(w) + 2 + Len(b)
      /\ \A j \in 1..Len(w) + (2 + Len(b)) : v[j] = IF j <= Len(w) THEN w[j] ELSE Encode(b)[j - Len(w)]
  <2>1. PICK e : e = Encode(b)
    OBVIOUS
  <2>2. w \in Seq(Byte) /\ e \in Seq(Byte)
    BY <1>1, <2>1 DEF Bytes
  <2>3. /\ Len(w \o e) = Len(w) + Len(e)
        /\ \A j \in 1..Len(w) + Len(e) : (w \o e)[j] = IF j <= Len(w) THEN w[j] ELSE e[j - Len(w)]
    BY <2>2, ConcatProperties
  <2>4. Len(e) = 2 + Len(b)
    BY <1>1, <2>1
  <2>5. PICK l \in Nat, k \in Nat : l = Len(w) /\ k = Len(b)
    BY <1>1, <1>3
  <2>6. l + (2 + k) = l + 2 + k
    OBVIOUS
  <2> QED BY <1>4, <2>1, <2>3, <2>4, <2>5, <2>6
<1>6. Ends(more)[Len(msgs)] = Ends(msgs)[Len(msgs)] /\ Ends(msgs)[Len(msgs)] \in Nat
  <2>1. Len(msgs) \in 0..Len(msgs)
    BY <1>3
  <2> QED BY <1>1, <1>2, <2>1, EndsGrow, EndsTyped
<1>7. Ends(more)[Len(more)] = Ends(msgs)[Len(msgs)] + 2 + Len(b)
  <2>1. PICK n \in 1..Len(more) : n = Len(msgs) + 1
    BY <1>3
  <2>2. Ends(more)[n] = Ends(more)[n - 1] + 2 + Len(more[n])
    BY BeginTyped
  <2>3. n - 1 = Len(msgs)
    BY <1>3, <2>1
  <2> QED BY <1>3, <1>6, <2>1, <2>2, <2>3
<1>8. ASSUME NEW n \in 1..Len(more), NEW i \in 1..(2 + Len(more[n])), Ends(more)[n - 1] + i - off \in 1..Len(v)
      PROVE  v[Ends(more)[n - 1] + i - off] = Encode(more[n])[i]
  <2>1. CASE n \in 1..Len(msgs)
    <3>1. n - 1 \in 0..Len(msgs)
      BY <2>1, BeginTyped
    <3>2. more[n] = msgs[n] /\ Ends(more)[n - 1] = Ends(msgs)[n - 1]
      BY <1>1, <1>2, <1>3, <2>1, <3>1, EndsGrow
    <3>3. PICK a, l, u \in Nat : /\ a = Ends(msgs)[n - 1] /\ l = Len(msgs[n]) /\ u = Ends(msgs)[Len(msgs)]
                                /\ a + 2 + l =< u
      <4>1. Ends(msgs)[n - 1] \in Nat /\ Len(msgs[n]) \in Nat /\ Ends(msgs)[Len(msgs)] \in Nat
        BY <2>1, BeginTyped
      <4>2. Ends(msgs)[n - 1] + 2 + Len(msgs[n]) =< Ends(msgs)[Len(msgs)]
        BY <2>1, BeginTyped
      <4> QED BY <4>1, <4>2
    <3>4. i \in 1..(2 + l) /\ i \in Nat
      BY <3>2, <3>3
    <3>5. PICK k \in Int : k = a + i - off
      BY <3>4
    <3>6. k >= 1
      BY <1>5, <1>8, <3>2, <3>3, <3>5
    <3>7. off + Len(w) = u
      BY <3>3
    <3>8. k \in 1..Len(w)
      <4>1. PICK q \in Nat : q = Len(w)
        BY <1>3
      <4>2. off + q = u /\ k = a + i - off /\ i =< 2 + l /\ a + 2 + l =< u
        BY <3>3, <3>4, <3>5, <3>7, <4>1
      <4>3. k =< q
        BY <3>4, <4>2
      <4> QED BY <3>6, <4>1, <4>3
    <3>9. w[k] = Encode(msgs[n])[i]
      BY <2>1, <3>2, <3>3, <3>5, <3>8 DEF Holds
    <3>10. v[k] = w[k]
      <4>1. PICK q, m \in Nat : q = Len(w) /\ m = Len(b)
        BY <1>1, <1>3
      <4>2. k \in 1..q + (2 + m) /\ k =< q
        BY <3>8, <4>1
      <4> QED BY <1>5, <4>1, <4>2
    <3> QED BY <3>2, <3>3, <3>5, <3>9, <3>10
  <2>2. CASE n \notin 1..Len(msgs)
    <3>1. n = Len(msgs) + 1 /\ n - 1 = Len(msgs)
      BY <1>3, <2>2
    <3>2. more[n] = b /\ i \in 1..(2 + Len(b))
      BY <1>3, <3>1
    <3>3. Ends(more)[n - 1] + i - off = Len(w) + i
      <4>1. PICK e \in Nat : e = Ends(msgs)[Len(msgs)]
        BY <1>6
      <4>2. PICK q \in Nat : q = Len(w)
        BY <1>3
      <4>3. off + q = e /\ Ends(more)[n - 1] = e
        BY <1>6, <3>1, <4>1, <4>2
      <4>4. i \in Nat
        BY <1>1, <3>2
      <4>5. e + i - off = q + i
        BY <4>3, <4>4
      <4> QED BY <4>2, <4>3, <4>5
    <3>4. v[Len(w) + i] = Encode(b)[i]
      <4>1. /\ Len(w) + i \in 1..Len(w) + (2 + Len(b)) /\ ~(Len(w) + i <= Len(w)) /\ (Len(w) + i) - Len(w) = i
        BY <1>1, <1>3, <3>2
      <4> QED BY <1>5, <4>1
    <3> QED BY <3>2, <3>3, <3>4
  <2> QED BY <2>1, <2>2
<1> QED BY <1>2, <1>4, <1>5, <1>7, <1>8 DEF Holds

\* how many bytes processMessages has taken
Pos == Taken - Len(pPacket)

Feed == Holds(sent, wire, Taken) /\ Holds(sent, pPacket, Pos)

\* The length of a message counts as cut when a packet ends between its bytes, which is where
\* the reader's packet ends or has been passed.
Cuts ==
  \A m \in 1..Len(sent) :
    /\ m \in cut => Ends(sent)[m - 1] + 1 =< Pos \/ Ends(sent)[m - 1] + 1 = Taken
    /\ Ends(sent)[m - 1] + 1 = Taken => m \in cut

\* bytes that were sent, are taken, or are on their way
Tally ==
  /\ Taken \in Int /\ Pos \in Int /\ Pos + Len(pPacket) = Taken
  /\ Taken + Len(wire) = Ends(sent)[Len(sent)] /\ Ends(sent)[Len(sent)] \in Nat
  /\ Len(wire) \in Nat /\ Len(pPacket) \in Nat

\* Messages are bytes.
LEMMA SentIs == ASSUME Typing PROVE sent \in Seq(Bytes) /\ Len(sent) \in Nat /\ \A n \in 1..Len(sent) : sent[n] \in Bodies
<1>1. sent \in Seq(Bodies)
  BY DEF Typing
<1>2. Bodies \subseteq Bytes
  BY EncodeIs
<1> QED BY <1>1, <1>2, SeqMonotonic

\* Every byte that was sent is taken, in the reader's packet or on its way.
LEMMA TallyIs == ASSUME Typing PROVE Tally
<1>1. sent \in Seq(Bytes) /\ Len(sent) \in 0..Len(sent) /\ Len(wire) \in Nat /\ Len(pPacket) \in Nat
  BY SentIs DEF Typing, Bytes
<1>2. Ends(sent)[Len(sent)] \in Nat
  BY <1>1, EndsTyped
<1>3. Taken \in Int /\ Taken + Len(wire) = Ends(sent)[Len(sent)]
  BY <1>1, <1>2 DEF Taken, EndOf
<1>4. Pos \in Int /\ Pos + Len(pPacket) = Taken
  BY <1>1, <1>3 DEF Pos
<1> QED BY <1>1, <1>2, <1>3, <1>4 DEF Tally

\* The peer sends: the stream grows at its end.
LEMMA SendFeeds ==
  ASSUME Typing, Feed, Cuts, NEW b \in Bodies, PeerSends(b)
  PROVE  Feed' /\ Cuts' /\ Taken' = Taken /\ Pos' = Pos
<1>1. sent \in Seq(Bytes) /\ Len(sent) \in Nat /\ wire \in Bytes /\ pPacket \in Bytes /\ cut \in SUBSET (1..Len(sent))
  BY SentIs DEF Typing
<1>2. b \in Bytes /\ Len(b) \in Nat
  BY EncodeIs DEF Bytes
<1>3. sent' = Append(sent, b) /\ wire' = wire \o Encode(b) /\ pPacket' = pPacket /\ cut' = cut
  BY DEF PeerSends
<1>4. Tally
  BY TallyIs
<1>5. PICK t, p \in Int : t = Taken /\ p = Pos
  BY <1>4 DEF Tally
<1>6. Holds(sent, wire, t) /\ Holds(sent, pPacket, p)
  BY <1>5 DEF Feed
<1>7. t + Len(wire) = Ends(sent)[Len(sent)]
  BY <1>4, <1>5 DEF Tally
<1>8. p + Len(pPacket) =< Ends(sent)[Len(sent)]
  BY <1>4, <1>5, <1>7 DEF Tally
<1>9. /\ Holds(sent', wire', t) /\ Len(wire') = Len(wire) + 2 + Len(b)
      /\ Ends(sent')[Len(sent')] = Ends(sent)[Len(sent)] + 2 + Len(b)
  BY <1>1, <1>3, <1>6, <1>7, HoldsMore
<1>10. Holds(sent', pPacket', p)
  BY <1>1, <1>2, <1>3, <1>6, <1>8, HoldsSame
<1>11. Taken' = t
  <2>1. Taken' = Ends(sent')[Len(sent')] - Len(wire')
    BY DEF Taken, EndOf
  <2>2. PICK e, w, l \in Nat : e = Ends(sent)[Len(sent)] /\ w = Len(wire) /\ l = Len(b)
    BY <1>2, <1>4 DEF Tally
  <2>3. Taken' = (e + 2 + l) - (w + 2 + l)
    BY <1>9, <2>1, <2>2
  <2>4. t + w = e
    BY <1>7, <2>2
  <2>5. (e + 2 + l) - (w + 2 + l) = t
    BY <2>4
  <2> QED BY <2>3, <2>5
<1>12. Pos' = p
  BY <1>3, <1>5, <1>11 DEF Pos
<1>13. ASSUME NEW m \in 1..Len(sent')
       PROVE  /\ m \in cut => Ends(sent')[m - 1] + 1 =< p \/ Ends(sent')[m - 1] + 1 = t
              /\ Ends(sent')[m - 1] + 1 = t => m \in cut
  <2>1. Len(sent') = Len(sent) + 1
    BY <1>1, <1>2, <1>3, AppendProperties
  <2>2. m - 1 \in 0..Len(sent) /\ (m \in 1..Len(sent) \/ m - 1 = Len(sent))
    BY <1>1, <2>1
  <2>3. Ends(sent')[m - 1] = Ends(sent)[m - 1]
    BY <1>1, <1>2, <1>3, <2>2, EndsGrow
  <2>4. CASE m \in 1..Len(sent)
    BY <1>5, <2>3, <2>4 DEF Cuts
  <2>5. CASE m \notin 1..Len(sent)
    <3>1. PICK e, w \in Nat : e = Ends(sent)[m - 1] /\ w = Len(wire)
      BY <1>4, <2>2, <2>5 DEF Tally
    <3>2. t + w = e
      BY <1>7, <2>2, <2>5, <3>1
    <3>3. e + 1 # t
      BY <3>2
    <3> QED BY <1>1, <2>3, <2>5, <3>1, <3>3
  <2> QED BY <2>4, <2>5
<1>14. Cuts'
  BY <1>3, <1>11, <1>12, <1>13 DEF Cuts
<1>15. Feed'
  BY <1>9, <1>10, <1>11, <1>12 DEF Feed
<1> QED BY <1>5, <1>11, <1>12, <1>14, <1>15

\* A packet arrives: it is the next part of the stream.
LEMMA ReceiveFeeds ==
  ASSUME Typing, Feed, Cuts, NEW n \in 1..Len(wire), Receive(n)
  PROVE  Feed' /\ Cuts' /\ Taken' = Taken + n /\ Pos' = Pos /\ Pos = Taken
<1>1. sent \in Seq(Bytes) /\ Len(sent) \in Nat /\ wire \in Bytes /\ Len(wire) \in Nat /\ n \in 0..Len(wire)
      /\ n \in Nat /\ cut \in SUBSET (1..Len(sent))
  BY SentIs, TallyIs DEF Typing, Tally
<1>2. sent' = sent /\ wire' = Drop(wire, n) /\ pPacket' = SubSeq(wire, 1, n)
      /\ cut' = cut \cup {m \in DOMAIN sent : Taken + n = EndOf(m - 1) + 1}
  BY DEF Receive, Drop
<1>3. Len(pPacket) = 0
  BY DEF Receive, Typing
<1>4. Tally
  BY TallyIs
<1>5. PICK t \in Int : t = Taken /\ t = Pos
  BY <1>3, <1>4 DEF Tally
<1>6. Holds(sent, SubSeq(wire, 1, n), t) /\ Holds(sent, Drop(wire, n), t + n)
  <2>1. Holds(sent, wire, t)
    BY <1>5 DEF Feed
  <2> QED BY <1>1, <2>1, HoldsCut
<1>7. Len(wire') = Len(wire) - n /\ Len(pPacket') = n
  BY <1>1, <1>2, CutIs
<1>8. Taken' = t + n
  <2>1. Taken' = Ends(sent')[Len(sent')] - Len(wire')
    BY DEF Taken, EndOf
  <2>2. PICK e, w \in Nat : e = Ends(sent)[Len(sent)] /\ w = Len(wire) /\ t + w = e
    BY <1>4, <1>5 DEF Tally
  <2>3. Taken' = e - (w - n)
    BY <1>2, <1>7, <2>1, <2>2
  <2> QED BY <1>1, <2>2, <2>3
<1>9. Pos' = t
  BY <1>1, <1>7, <1>8 DEF Pos
<1>10. ASSUME NEW m \in 1..Len(sent)
       PROVE  /\ m \in cut' => Ends(sent)[m - 1] + 1 =< t \/ Ends(sent)[m - 1] + 1 = t + n
              /\ Ends(sent)[m - 1] + 1 = t + n => m \in cut'
  <2>1. m \in DOMAIN sent /\ Ends(sent)[m - 1] \in Nat
    BY <1>1, BeginTyped
  <2>2. m \in cut' <=> m \in cut \/ t + n = Ends(sent)[m - 1] + 1
    BY <1>2, <1>5, <2>1 DEF EndOf
  <2>3. m \in cut => Ends(sent)[m - 1] + 1 =< t
    <3>1. m \in cut => Ends(sent)[m - 1] + 1 =< t \/ Ends(sent)[m - 1] + 1 = t
      BY <1>5 DEF Cuts
    <3> QED BY <2>1, <3>1
  <2> QED BY <2>2, <2>3
<1>11. Cuts'
  BY <1>2, <1>8, <1>9, <1>10 DEF Cuts
<1>12. Feed'
  BY <1>2, <1>6, <1>8, <1>9 DEF Feed
<1> QED BY <1>5, <1>8, <1>9, <1>11, <1>12

\* A round takes the first j bytes of the packet.
LEMMA TakeFeeds ==
  ASSUME Typing, Feed, Cuts, UNCHANGED <<sent, wire, cut>>, NEW j \in 0..Len(pPacket), pPacket' = Drop(pPacket, j)
  PROVE  Feed' /\ Cuts' /\ Taken' = Taken /\ Pos' = Pos + j
<1>1. sent \in Seq(Bytes) /\ pPacket \in Bytes /\ Len(pPacket) \in Nat /\ j \in Nat
  BY SentIs, TallyIs DEF Typing, Tally
<1>2. PICK t, p \in Int : t = Taken /\ p = Pos /\ p + Len(pPacket) = t
  BY TallyIs DEF Tally
<1>3. Taken' = t
  BY <1>2 DEF Taken, EndOf
<1>4. Len(pPacket') = Len(pPacket) - j
  BY <1>1, CutIs
<1>5. Pos' = p + j
  <2>1. Pos' = t - Len(pPacket')
    BY <1>3 DEF Pos
  <2> QED BY <1>1, <1>2, <1>4, <2>1
<1>6. Feed'
  <2>1. Holds(sent, wire, t) /\ Holds(sent, pPacket, p)
    BY <1>2 DEF Feed
  <2>2. Holds(sent, Drop(pPacket, j), p + j)
    BY <1>1, <2>1, HoldsCut
  <2> QED BY <1>3, <1>5, <2>1, <2>2 DEF Feed
<1>7. Cuts'
  <2>1. ASSUME NEW m \in 1..Len(sent), Ends(sent)[m - 1] + 1 =< p PROVE Ends(sent)[m - 1] + 1 =< p + j
    <3>1. Ends(sent)[m - 1] \in Nat
      BY <1>1, BeginTyped
    <3> QED BY <1>1, <2>1, <3>1
  <2> QED BY <1>2, <1>3, <1>5, <2>1 DEF Cuts
<1> QED BY <1>2, <1>3, <1>5, <1>6, <1>7

\* Bytes that are taken in two goes.
LEMMA DropIs ==
  ASSUME NEW p \in Bytes, NEW a \in 0..Len(p), NEW n \in 0..(Len(p) - a)
  PROVE  Drop(Drop(p, a), n) = Drop(p, a + n) /\ a + n \in 0..Len(p) /\ Drop(p, Len(p)) = <<>> /\ Len(p) \in Nat
<1>1. Len(p) \in Nat /\ a + n \in 0..Len(p) /\ Len(p) \in 0..Len(p)
  BY DEF Bytes
<1>2. PICK d \in Bytes : d = Drop(p, a)
  BY CutIs
<1>3. Len(d) = Len(p) - a /\ \A i \in 1..(Len(p) - a) : d[i] = p[a + i]
  BY <1>2, CutIs
<1>4. PICK u, v \in Bytes : u = Drop(d, n) /\ v = Drop(p, a + n)
  BY <1>1, <1>3, CutIs
<1>5. Len(u) = Len(d) - n /\ (\A i \in 1..(Len(d) - n) : u[i] = d[n + i])
  <2>1. n \in 0..Len(d) /\ u = Drop(d, n)
    BY <1>3, <1>4
  <2> QED BY <2>1, CutIs
<1>6. Len(v) = Len(p) - (a + n) /\ (\A i \in 1..(Len(p) - (a + n)) : v[i] = p[(a + n) + i])
  BY <1>1, <1>4, CutIs
<1>7. Len(u) = Len(v)
  BY <1>1, <1>3, <1>5, <1>6
<1>8. ASSUME NEW i \in 1..Len(u) PROVE u[i] = v[i]
  <2>1. i \in 1..(Len(d) - n) /\ i \in 1..(Len(p) - (a + n)) /\ n + i \in 1..(Len(p) - a) /\ a + (n + i) = (a + n) + i
    BY <1>1, <1>3, <1>5
  <2> QED BY <1>3, <1>5, <1>6, <2>1
<1>9. u = v
  <2>1. u \in Seq(Byte) /\ v \in Seq(Byte)
    BY <1>4 DEF Bytes
  <2> QED BY <1>7, <1>8, <2>1, SeqEqual
<1>10. Drop(p, Len(p)) = <<>>
  <2>1. PICK e \in Bytes : e = Drop(p, Len(p)) /\ Len(e) = 0
    BY <1>1, CutIs
  <2> QED BY <2>1 DEF Bytes
<1> QED BY <1>1, <1>2, <1>4, <1>9, <1>10

\* The bytes of message n that a packet holds: its length ...
LEMMA HeadIs ==
  ASSUME NEW msgs \in Seq(Bytes), NEW n \in 1..Len(msgs), msgs[n] \in Bodies, NEW p \in Bytes, NEW i \in 1..2,
         NEW q \in Int, q = Ends(msgs)[n - 1] + (i - 1), Holds(msgs, p, q)
  PROVE  \A h \in 1..Len(p) : i - 1 + h =< 2 => p[h] = Encode(msgs[n])[i - 1 + h]
<1>1. SUFFICES ASSUME NEW h \in 1..Len(p), i - 1 + h =< 2 PROVE p[h] = Encode(msgs[n])[i - 1 + h]
  OBVIOUS
<1>2. Len(p) \in Nat
  BY DEF Bytes
<1>3. PICK e, l \in Nat : e = Ends(msgs)[n - 1] /\ l = Len(msgs[n])
  BY BeginTyped
<1>4. PICK j \in Nat : j = i - 1 + h
  BY <1>1, <1>2
<1>5. j \in 1..(2 + l) /\ e + j - q = h
  BY <1>1, <1>2, <1>3, <1>4
<1> QED BY <1>3, <1>4, <1>5 DEF Holds

\* ... and its body.
LEMMA BodyIs ==
  ASSUME NEW msgs \in Seq(Bytes), NEW n \in 1..Len(msgs), msgs[n] \in Bodies, NEW p \in Bytes, NEW w \in Nat,
         NEW q \in Int, q = Ends(msgs)[n - 1] + 2 + w, Holds(msgs, p, q)
  PROVE  \A h \in 1..Len(p) : w + h =< Len(msgs[n]) => p[h] = msgs[n][w + h]
<1>1. SUFFICES ASSUME NEW h \in 1..Len(p), w + h =< Len(msgs[n]) PROVE p[h] = msgs[n][w + h]
  OBVIOUS
<1>2. Len(p) \in Nat
  BY DEF Bytes
<1>3. PICK e, l \in Nat : e = Ends(msgs)[n - 1] /\ l = Len(msgs[n])
  BY BeginTyped
<1>4. PICK j \in Nat : j = w + h
  BY <1>2
<1>5. j \in 1..l /\ 2 + j \in 1..(2 + l) /\ e + (2 + j) - q = h
  <2>1. h \in Nat /\ h >= 1 /\ q = e + 2 + w /\ j =< l
    BY <1>1, <1>2, <1>3, <1>4
  <2> QED BY <1>4, <2>1
<1>6. p[h] = Encode(msgs[n])[2 + j]
  BY <1>3, <1>5 DEF Holds
<1>7. Encode(msgs[n])[2 + j] = msgs[n][j]
  BY <1>3, <1>5, EncodeIs
<1> QED BY <1>4, <1>6, <1>7

\* When s holds a body up to its write index, and p goes on with it, so does what is copied.
LEMMA CopiedIs ==
  ASSUME NEW s \in StreamRec, NEW body \in Bytes, Len(s.data) = Len(body), \A i \in 1..s.wpos : s.data[i] = body[i],
         NEW p \in Bytes, \A h \in 1..Len(p) : s.wpos + h =< Len(body) => p[h] = body[s.wpos + h],
         NEW n \in 0..Len(p), s.wpos + n =< Len(body), NEW r, Copied(r, s, p, n)
  PROVE  Len(r.data) = Len(body) /\ \A i \in 1..(s.wpos + n) : r.data[i] = body[i]
<1>1. s.wpos \in Nat /\ Len(body) \in Nat /\ Len(p) \in Nat
  BY DEF StreamRec, Bytes
<1>2. Len(r.data) = Len(s.data)
      /\ \A i \in 1..Len(s.data) : r.data[i] = IF i > s.wpos /\ i =< s.wpos + n THEN p[i - s.wpos] ELSE s.data[i]
  BY DEF Copied
<1>3. ASSUME NEW i \in 1..(s.wpos + n) PROVE r.data[i] = body[i]
  <2>1. i \in 1..Len(s.data)
    BY <1>1
  <2>2. CASE i > s.wpos
    <3>1. PICK h \in Int : h = i - s.wpos
      BY <1>1
    <3>2. h \in 1..Len(p) /\ s.wpos + h = i /\ s.wpos + h =< Len(body) /\ i =< s.wpos + n
      BY <1>1, <2>2, <3>1
    <3>3. r.data[i] = p[h]
      BY <1>2, <2>1, <2>2, <3>1, <3>2
    <3> QED BY <3>2, <3>3
  <2>3. CASE ~(i > s.wpos)
    <3>1. i \in 1..s.wpos
      BY <1>1, <2>3
    <3> QED BY <1>2, <2>1, <2>3, <3>1
  <2> QED BY <2>2, <2>3
<1> QED BY <1>2, <1>3

\* what handle could read of message n
Handed(n) == handled[n] = IF n \in cut THEN SubSeq(sent[n], 3, Len(sent[n])) ELSE sent[n]

\* where the reader is in message n
AtLength(n) ==
  /\ n \in 1..Len(sent) /\ n \in cut /\ Pos = Ends(sent)[n - 1] + 1
  /\ Len(currPacket.data) # 0 => currPacket.data[1] = Encode(sent[n])[1]
AtBody(n) ==
  /\ n \in 1..Len(sent) /\ Pos = Ends(sent)[n - 1] + 2 + currPacket.wpos
  /\ Len(currPacket.data) = Len(sent[n])
  /\ \A i \in 1..currPacket.wpos : currPacket.data[i] = sent[n][i]
  /\ currPacket.rpos = IF n \in cut THEN 2 ELSE 0

\* k messages have been handled
PlaceAt(k) ==
  /\ Len(handled) = k /\ k \in 0..Len(sent)
  /\ \A n \in 1..k : Handed(n)
  /\ fragmentDatasFlag_ = "UNKNOW" => Pos = Ends(sent)[k]
  /\ fragmentDatasFlag_ = "LENGTH" => AtLength(k + 1)
  /\ fragmentDatasFlag_ = "BODY" => AtBody(k + 1)
  /\ fragmentDatasFlag_ # "BODY" => IF k = 0 THEN Len(currPacket.data) # 0 ELSE Len(currPacket.data) = Len(sent[k])

Place == \E k \in Nat : PlaceAt(k)

\* The end of a round that finishes with a stream that holds the message up to its write index.
LEMMA FinishPlace ==
  ASSUME Typing, Feed, Cuts, UNCHANGED <<sent, wire, cut>>, NEW k \in Nat, Len(handled) = k, \A n \in 1..k : Handed(n),
         k + 1 \in 1..Len(sent), NEW s \in StreamRec, s.wpos =< Len(s.data), Len(s.data) = Len(sent[k + 1]),
         \A i \in 1..s.wpos : s.data[i] = sent[k + 1][i], s.rpos = (IF k + 1 \in cut THEN 2 ELSE 0),
         NEW j \in 0..Len(pPacket), Pos + j = Ends(sent)[k] + 2 + s.wpos,
         Waits(s, Drop(pPacket, j)) \/ Completes(s, Drop(pPacket, j))
  PROVE  Feed' /\ Cuts' /\ Place'
<1>1. /\ sent \in Seq(Bytes) /\ Len(sent) \in Nat /\ pPacket \in Bytes /\ Len(pPacket) \in Nat /\ handled \in Seq(Bytes)
      /\ sent[k + 1] \in Bodies /\ sent' = sent /\ cut' = cut
  BY SentIs, TallyIs DEF Typing, Tally
<1>2. PICK n \in 1..Len(sent) : n = k + 1 /\ n - 1 = k
  <2>1. PICK n \in 1..Len(sent) : n = k + 1
    OBVIOUS
  <2> QED BY <2>1
<1>3. PICK body \in Bytes, l \in Nat : body = sent[n] /\ l = Len(body)
  BY <1>1, <1>2, EncodeIs DEF Bytes
<1>4. PICK w, e \in Nat, pos \in Int : w = s.wpos /\ e = Ends(sent)[k] /\ pos = Pos
  <2>1. Ends(sent)[n - 1] \in Nat
    BY <1>1, BeginTyped
  <2>2. s.wpos \in Nat /\ Pos \in Int
    BY TallyIs DEF Tally, StreamRec
  <2> QED BY <1>2, <2>1, <2>2
<1>5. PICK p \in Bytes : p = Drop(pPacket, j)
  BY <1>1, CutIs
<1>6. Len(p) = Len(pPacket) - j /\ j \in Nat /\ Len(p) \in Nat /\ pos + j = e + 2 + w /\ w =< l /\ Len(s.data) = l
  <2>1. Len(p) = Len(pPacket) - j
    BY <1>1, <1>5, CutIs
  <2>2. pos + j = e + 2 + w
    BY <1>4
  <2>3. w =< l /\ Len(s.data) = l
    BY <1>2, <1>3, <1>4
  <2> QED BY <1>1, <2>1, <2>2, <2>3
<1>7. \A h \in 1..Len(p) : w + h =< l => p[h] = body[w + h]
  <2>1. Holds(sent, pPacket, pos)
    BY <1>4 DEF Feed
  <2>2. Holds(sent, p, pos + j)
    BY <1>1, <1>5, <2>1, HoldsCut
  <2>3. PICK q \in Int : q = pos + j
    BY <1>6
  <2>4. q = Ends(sent)[n - 1] + 2 + w /\ sent[n] \in Bodies
    BY <1>1, <1>2, <1>4, <1>6, <2>3
  <2> QED BY <1>1, <1>3, <2>2, <2>3, <2>4, BodyIs
<1>8. ASSUME NEW m \in 0..Len(p), w + m =< l, NEW r, Copied(r, s, p, m)
      PROVE  Len(r.data) = l /\ \A i \in 1..(w + m) : r.data[i] = body[i]
  <2>1. \A i \in 1..s.wpos : s.data[i] = body[i]
    BY <1>2, <1>3
  <2>2. \A h \in 1..Len(p) : s.wpos + h =< Len(body) => p[h] = body[s.wpos + h]
    BY <1>3, <1>4, <1>7
  <2>3. Len(s.data) = Len(body) /\ s.wpos + m =< Len(body)
    BY <1>3, <1>4, <1>6, <1>8
  <2>4. Len(r.data) = Len(body) /\ \A i \in 1..(s.wpos + m) : r.data[i] = body[i]
    BY <1>8, <2>1, <2>2, <2>3, CopiedIs
  <2> QED BY <1>3, <1>4, <2>4
<1>9. ASSUME NEW m \in 0..Len(p), pPacket' = Drop(p, m)
      PROVE  Feed' /\ Cuts' /\ Pos' = e + 2 + w + m
  <2>1. m \in 0..(Len(pPacket) - j)
    BY <1>6
  <2>2. pPacket' = Drop(pPacket, j + m) /\ j + m \in 0..Len(pPacket)
    BY <1>1, <1>5, <1>9, <2>1, DropIs
  <2>3. PICK g \in 0..Len(pPacket) : g = j + m
    BY <2>2
  <2>4. Feed' /\ Cuts' /\ Pos' = Pos + g
    BY <2>2, <2>3, TakeFeeds
  <2> QED BY <1>4, <1>6, <2>3, <2>4
<1>10. CASE Waits(s, p)
  <2>1. /\ Copied(currPacket', s, p, Len(p)) /\ fragmentDatasFlag_' = "BODY" /\ pPacket' = <<>> /\ handled' = handled
        /\ Len(p) < l - w
    BY <1>4, <1>6, <1>10 DEF Waits
  <2>2. Len(p) \in 0..Len(p) /\ w + Len(p) =< l
    BY <1>6, <2>1
  <2>3. pPacket' = Drop(p, Len(p))
    <3>1. PICK z \in 0..Len(p) : z = 0
      BY <1>6
    <3>2. z \in 0..(Len(p) - z)
      BY <1>6, <3>1
    <3> QED BY <2>1, <3>2, DropIs
  <2>4. Feed' /\ Cuts' /\ Pos' = e + 2 + w + Len(p)
    BY <1>9, <2>2, <2>3
  <2>5. Len(currPacket'.data) = l /\ \A i \in 1..(w + Len(p)) : currPacket'.data[i] = body[i]
    BY <1>8, <2>1, <2>2
  <2>6. currPacket'.wpos = w + Len(p) /\ currPacket'.rpos = IF n \in cut THEN 2 ELSE 0
    BY <1>2, <1>4, <2>1 DEF Copied
  <2>7. Pos' = Ends(sent)[n - 1] + 2 + currPacket'.wpos
    <3>1. PICK lp \in Nat : lp = Len(p)
      BY <1>6
    <3>2. e + 2 + w + lp = e + 2 + (w + lp)
      OBVIOUS
    <3> QED BY <1>2, <1>4, <2>4, <2>6, <3>1, <3>2
  <2>8. AtBody(n)'
    BY <1>1, <1>3, <2>5, <2>6, <2>7 DEF AtBody
  <2>9. k \in 0..Len(sent)
    BY <1>2, <1>1
  <2>10. \A i \in 1..k : Handed(i)'
    BY <1>1, <2>1 DEF Handed
  <2>11. PlaceAt(k)'
    BY <1>1, <1>2, <2>1, <2>8, <2>9, <2>10 DEF PlaceAt
  <2> QED BY <2>4, <2>11 DEF Place
<1>11. CASE Completes(s, p)
  <2>1. PICK g \in Nat : g = l - w
    BY <1>6
  <2>2. PICK m \in StreamRec :
          /\ Copied(m, s, p, g) /\ handled' = Append(handled, SubSeq(m.data, s.rpos + 1, Len(m.data)))
          /\ currPacket'.data = m.data
    BY <1>4, <1>6, <1>11, <2>1 DEF Completes
  <2>3. fragmentDatasFlag_' = "UNKNOW" /\ pPacket' = Drop(p, g) /\ Len(p) >= g
    BY <1>4, <1>6, <1>11, <2>1 DEF Completes
  <2>4. g \in 0..Len(p) /\ w + g = l
    BY <1>6, <2>1, <2>3
  <2>5. Feed' /\ Cuts' /\ Pos' = e + 2 + w + g
    BY <1>9, <2>3, <2>4
  <2>6. m.data = body
    <3>1. Len(m.data) = l /\ \A i \in 1..l : m.data[i] = body[i]
      BY <1>8, <2>2, <2>4
    <3>2. m.data \in Seq(Byte) /\ body \in Seq(Byte)
      BY DEF StreamRec, Bytes
    <3> QED BY <1>3, <3>1, <3>2, SeqEqual
  <2>7. PICK rest \in Bytes : rest = SubSeq(body, s.rpos + 1, l)
    <3>1. s.rpos \in Nat
      BY DEF StreamRec
    <3> QED BY <1>3, <3>1, RestIs
  <2>8. handled' = Append(handled, rest)
    BY <1>3, <2>2, <2>6, <2>7
  <2>9. rest = IF n \in cut THEN SubSeq(body, 3, l) ELSE body
    <3>1. CASE n \in cut
      <4>1. s.rpos = 2
        BY <1>2, <3>1
      <4> QED BY <2>7, <3>1, <4>1
    <3>2. CASE n \notin cut
      <4>1. rest = SubSeq(body, 1, l)
        BY <1>2, <2>7, <3>2
      <4>2. l \in 0..Len(body)
        BY <1>3
      <4>3. Len(rest) = l /\ \A i \in 1..l : rest[i] = body[i]
        BY <4>1, <4>2, CutIs
      <4>4. rest \in Seq(Byte) /\ body \in Seq(Byte)
        BY DEF Bytes
      <4>5. rest = body
        BY <1>3, <4>3, <4>4, SeqEqual
      <4> QED BY <3>2, <4>5
    <3> QED BY <3>1, <3>2
  <2>10. Len(handled') = n /\ handled'[n] = rest /\ \A i \in 1..k : handled'[i] = handled[i]
    <3>1. /\ Len(Append(handled, rest)) = Len(handled) + 1 /\ Append(handled, rest)[Len(handled) + 1] = rest
          /\ \A i \in 1..Len(handled) : Append(handled, rest)[i] = handled[i]
      BY <1>1, AppendProperties
    <3> QED BY <1>2, <2>8, <3>1
  <2>11. ASSUME NEW i \in 1..n PROVE Handed(i)'
    <3>1. CASE i = n
      BY <1>1, <1>3, <2>9, <2>10, <3>1 DEF Handed
    <3>2. CASE i # n
      <4>1. i \in 1..k
        BY <1>2, <3>2
      <4>2. Handed(i)
        BY <4>1
      <4> QED BY <1>1, <2>10, <4>1, <4>2 DEF Handed
    <3> QED BY <3>1, <3>2
  <2>12. Pos' = Ends(sent)[n]
    <3>1. Ends(sent)[n] = e + 2 + l
      BY <1>1, <1>2, <1>3, <1>4, BeginTyped
    <3>2. e + 2 + w + g = e + 2 + l
      BY <2>4
    <3> QED BY <2>5, <3>1, <3>2
  <2>13. n \in 0..Len(sent) /\ n # 0 /\ n \in Nat /\ Len(currPacket'.data) = Len(sent[n])
    BY <1>1, <1>3, <2>2, <2>6
  <2>14. PlaceAt(n)'
    BY <1>1, <2>3, <2>10, <2>11, <2>12, <2>13 DEF PlaceAt
  <2> QED BY <2>5, <2>13, <2>14 DEF Place
<1> QED BY <1>5, <1>10, <1>11

\* The reader has taken the k messages that were handled; a byte behind them belongs to another.
LEMMA PlaceIs ==
  ASSUME Typing, NEW k \in Nat, PlaceAt(k)
  PROVE  /\ Ends(sent)[k] \in Nat /\ Ends(sent)[k] =< Pos /\ Pos \in Int /\ k + 1 - 1 = k
         /\ Len(pPacket) > 0 => k + 1 \in 1..Len(sent)
<1>1. sent \in Seq(Bytes) /\ Len(sent) \in Nat /\ k \in 0..Len(sent)
  BY SentIs DEF PlaceAt
<1>2. PICK e \in Nat, pos, t \in Int : e = Ends(sent)[k] /\ pos = Pos /\ t = Taken
  BY <1>1, EndsTyped, TallyIs DEF Tally
<1>3. k + 1 - 1 = k
  OBVIOUS
<1>4. e =< pos
  <2>1. CASE fragmentDatasFlag_ = "UNKNOW"
    BY <1>2, <2>1 DEF PlaceAt
  <2>2. CASE fragmentDatasFlag_ = "LENGTH"
    <3>1. pos = e + 1
      BY <1>2, <1>3, <2>2 DEF PlaceAt, AtLength
    <3> QED BY <3>1
  <2>3. CASE fragmentDatasFlag_ = "BODY"
    <3>1. pos = e + 2 + currPacket.wpos
      BY <1>2, <1>3, <2>3 DEF PlaceAt, AtBody
    <3>2. currPacket.wpos \in Nat
      BY DEF Typing, StreamRec
    <3> QED BY <3>1, <3>2
  <2> QED BY <2>1, <2>2, <2>3 DEF Typing, Form
<1>5. ASSUME Len(pPacket) > 0 PROVE k + 1 \in 1..Len(sent)
  <2>1. k # Len(sent)
    <3>1. SUFFICES ASSUME k = Len(sent) PROVE FALSE
      OBVIOUS
    <3>2. PICK l, w \in Nat : l = Len(pPacket) /\ w = Len(wire)
      BY TallyIs DEF Tally
    <3>3. pos + l = t /\ t + w = e /\ l > 0
      BY <1>2, <1>5, <3>1, <3>2, TallyIs DEF Tally
    <3> QED BY <1>4, <3>3
  <2> QED BY <1>1, <2>1
<1> QED BY <1>2, <1>3, <1>4, <1>5

\* A reader that has lost its place does not find it again.
LEMMA LostStays == ASSUME Typing, [Next]_vars, PlaceLost PROVE PlaceLost'
<1>1. PICK n \in cut : n > 1 /\ sent[n - 1] = <<>> /\ Encode(sent[n])[1] # 0
  BY DEF PlaceLost
<1>2. sent \in Seq(Bodies) /\ Len(sent) \in Nat /\ n \in 1..Len(sent) /\ n - 1 \in 1..Len(sent)
  <2>1. sent \in Seq(Bodies) /\ n \in 1..Len(sent)
    BY DEF Typing
  <2> QED BY <1>1, <2>1
<1>3. cut \subseteq cut'
  BY DEF Next, vars, PeerSends, Receive, processMessages, LengthSplit, LengthRead, LengthCompleted, BodyContinued,
         Round, Return
<1>4. sent' = sent \/ \E b \in Bodies : sent' = Append(sent, b)
  BY DEF Next, vars, PeerSends, Receive, processMessages, LengthSplit, LengthRead, LengthCompleted, BodyContinued,
         Round, Return
<1>5. sent'[n] = sent[n] /\ sent'[n - 1] = sent[n - 1]
  BY <1>2, <1>4, AppendProperties
<1> QED BY <1>1, <1>3, <1>5 DEF PlaceLost

\* A message that is sent lies behind the reader's place.
LEMMA SendPlace ==
  ASSUME Typing, Feed, Cuts, NEW b \in Bodies, PeerSends(b), NEW k \in Nat, PlaceAt(k)
  PROVE  PlaceAt(k)'
<1>1. Pos' = Pos
  BY SendFeeds
<1>2. /\ sent \in Seq(Bytes) /\ b \in Bytes /\ Len(sent) \in Nat /\ sent' = Append(sent, b)
      /\ pPacket' = pPacket /\ currPacket' = currPacket /\ fragmentDatasFlag_' = fragmentDatasFlag_
      /\ cut' = cut /\ handled' = handled
  BY SentIs, EncodeIs DEF PeerSends
<1>3. Len(sent') = Len(sent) + 1 /\ \A n \in 1..Len(sent) : sent'[n] = sent[n]
  BY <1>2, AppendProperties
<1>4. \A n \in 0..Len(sent) : Ends(sent')[n] = Ends(sent)[n]
  BY <1>2, EndsGrow
<1>5. Len(handled) = k /\ k \in 0..Len(sent) /\ k \in 0..Len(sent') /\ \A n \in 1..k : n \in 1..Len(sent)
  BY <1>2, <1>3 DEF PlaceAt
<1>6. \A n \in 1..k : Handed(n)'
  BY <1>2, <1>3, <1>5 DEF PlaceAt, Handed
<1>7. ASSUME k + 1 \in 1..Len(sent)
      PROVE  k + 1 \in 1..Len(sent') /\ sent'[k + 1] = sent[k + 1] /\ Ends(sent')[k + 1 - 1] = Ends(sent)[k + 1 - 1]
  <2>1. k + 1 - 1 \in 0..Len(sent) /\ k + 1 \in 1..Len(sent')
    BY <1>2, <1>3, <1>7
  <2> QED BY <1>3, <1>4, <1>7, <2>1
<1>8. fragmentDatasFlag_ = "LENGTH" => AtLength(k + 1)'
  <2>1. SUFFICES ASSUME AtLength(k + 1) PROVE AtLength(k + 1)'
    BY DEF PlaceAt
  <2> QED BY <1>1, <1>2, <1>7, <2>1 DEF AtLength
<1>9. fragmentDatasFlag_ = "BODY" => AtBody(k + 1)'
  <2>1. SUFFICES ASSUME AtBody(k + 1) PROVE AtBody(k + 1)'
    BY DEF PlaceAt
  <2> QED BY <1>1, <1>2, <1>7, <2>1 DEF AtBody
<1>10. fragmentDatasFlag_ = "UNKNOW" => Pos' = Ends(sent')[k]
  BY <1>1, <1>4, <1>5 DEF PlaceAt
<1>11. fragmentDatasFlag_ # "BODY" => IF k = 0 THEN Len(currPacket.data) # 0 ELSE Len(currPacket.data) = Len(sent'[k])
  <2>1. k # 0 => k \in 1..k
    OBVIOUS
  <2> QED BY <1>3, <1>5, <2>1 DEF PlaceAt
<1> QED BY <1>2, <1>5, <1>6, <1>8, <1>9, <1>10, <1>11 DEF PlaceAt

\* The end of a packet cuts only lengths that the reader has not read.
LEMMA ReceivePlace ==
  ASSUME Typing, Feed, Cuts, NEW n \in 1..Len(wire), Receive(n), NEW k \in Nat, PlaceAt(k)
  PROVE  PlaceAt(k)'
<1>1. Pos' = Pos /\ Pos = Taken
  BY ReceiveFeeds
<1>2. /\ sent \in Seq(Bytes) /\ Len(sent) \in Nat /\ sent' = sent /\ currPacket' = currPacket
      /\ fragmentDatasFlag_' = fragmentDatasFlag_ /\ handled' = handled
      /\ cut' = cut \cup {m \in DOMAIN sent : Taken + n = EndOf(m - 1) + 1}
  BY SentIs DEF Receive
<1>3. PICK e \in Nat, pos \in Int : e = Ends(sent)[k] /\ pos = Pos /\ e =< pos /\ pos = Taken
  BY <1>1, PlaceIs
<1>4. n \in Nat /\ n >= 1
  BY TallyIs DEF Tally
<1>5. ASSUME NEW m \in 1..Len(sent), Ends(sent)[m - 1] + 1 =< pos PROVE m \in cut' <=> m \in cut
  <2>1. PICK a \in Nat : a = Ends(sent)[m - 1]
    BY <1>2, BeginTyped
  <2>2. pos + n # a + 1
    BY <1>4, <1>5, <2>1
  <2> QED BY <1>2, <1>3, <2>1, <2>2 DEF EndOf
<1>6. Len(handled) = k /\ k \in 0..Len(sent)
  BY DEF PlaceAt
<1>7. ASSUME NEW m \in 1..k PROVE Handed(m)'
  <2>1. m \in 1..Len(sent) /\ k \in m..Len(sent)
    BY <1>2, <1>6
  <2>2. PICK a, l \in Nat : a = Ends(sent)[m - 1] /\ l = Len(sent[m])
    BY <1>2, <2>1, BeginTyped
  <2>3. a + 2 + l =< e
    BY <1>2, <1>3, <2>1, <2>2, EndsRise
  <2>4. a + 1 =< pos
    BY <1>3, <2>3
  <2>5. m \in cut' <=> m \in cut
    BY <1>5, <2>1, <2>2, <2>4
  <2>6. Handed(m)
    BY DEF PlaceAt
  <2> QED BY <1>2, <2>5, <2>6 DEF Handed
<1>8. fragmentDatasFlag_ = "LENGTH" => AtLength(k + 1)'
  BY <1>1, <1>2 DEF PlaceAt, AtLength
<1>9. fragmentDatasFlag_ = "BODY" => AtBody(k + 1)'
  <2>1. SUFFICES ASSUME AtBody(k + 1) PROVE AtBody(k + 1)'
    BY DEF PlaceAt
  <2>2. k + 1 \in cut' <=> k + 1 \in cut
    <3>1. k + 1 \in 1..Len(sent) /\ Pos = Ends(sent)[k + 1 - 1] + 2 + currPacket.wpos
      BY <2>1 DEF AtBody
    <3>2. PICK a, w \in Nat : a = Ends(sent)[k + 1 - 1] /\ w = currPacket.wpos
      <4>1. Ends(sent)[k + 1 - 1] \in Nat
        BY <1>2, <3>1, BeginTyped
      <4> QED BY <4>1 DEF Typing, StreamRec
    <3>3. a + 1 =< pos
      <4>1. pos = a + 2 + w
        BY <1>3, <3>1, <3>2
      <4> QED BY <4>1
    <3> QED BY <1>5, <3>1, <3>2, <3>3
  <2> QED BY <1>1, <1>2, <2>1, <2>2 DEF AtBody
<1> QED BY <1>1, <1>2, <1>6, <1>7, <1>8, <1>9 DEF PlaceAt

\* The first byte of a length is kept until the second one comes.
LEMMA SplitPlace ==
  ASSUME Typing, Feed, Cuts, LengthSplit, NEW k \in Nat, PlaceAt(k)
  PROVE  Feed' /\ Cuts' /\ PlaceAt(k)'
<1>1. /\ sent \in Seq(Bytes) /\ Len(sent) \in Nat /\ pPacket \in Bytes /\ currPacket \in StreamRec
      /\ sent' = sent /\ cut' = cut /\ wire' = wire /\ currPacket.wpos = 0 /\ currPacket.rpos = 0
  BY SentIs DEF Typing, Form, LengthSplit, Round
<1>2. /\ fragmentDatasFlag_ = "UNKNOW" /\ Len(pPacket) = 1 /\ Copied(currPacket', currPacket, pPacket, 1)
      /\ fragmentDatasFlag_' = "LENGTH" /\ pPacket' = <<>> /\ handled' = handled
  BY LengthSplitIs
<1>3. PICK n \in 1..Len(sent) : n = k + 1 /\ n - 1 = k
  <2>1. k + 1 \in 1..Len(sent) /\ k + 1 - 1 = k
    BY <1>2, PlaceIs
  <2> QED BY <2>1
<1>4. PICK e \in Nat : e = Ends(sent)[n - 1] /\ Pos = e
  BY <1>1, <1>2, <1>3, BeginTyped DEF PlaceAt
<1>5. Feed' /\ Cuts' /\ Pos' = e + 1
  <2>1. PICK j \in 0..Len(pPacket) : j = 1
    BY <1>2
  <2>2. pPacket' = Drop(pPacket, j)
    <3>1. Len(pPacket) = j
      BY <1>2, <2>1
    <3>2. PICK z \in 0..Len(pPacket) : z = 0
      BY <1>2
    <3>3. z \in 0..(Len(pPacket) - z)
      BY <1>2, <3>2
    <3> QED BY <1>1, <1>2, <3>1, <3>3, DropIs
  <2>3. Feed' /\ Cuts' /\ Pos' = Pos + j
    BY <1>1, <2>2, TakeFeeds
  <2> QED BY <1>4, <2>1, <2>3
<1>6. n \in cut
  <2>1. Taken = e + 1
    BY <1>2, <1>4, TallyIs DEF Tally
  <2> QED BY <1>4, <2>1 DEF Cuts
<1>7. pPacket[1] = Encode(sent[n])[1]
  <2>1. PICK i \in 1..2 : i = 1
    OBVIOUS
  <2>2. e = Ends(sent)[n - 1] + (i - 1) /\ Holds(sent, pPacket, e)
    BY <1>4, <2>1 DEF Feed
  <2>3. sent[n] \in Bodies
    BY SentIs
  <2>4. \A h \in 1..Len(pPacket) : i - 1 + h =< 2 => pPacket[h] = Encode(sent[n])[i - 1 + h]
    BY <1>1, <2>2, <2>3, HeadIs
  <2>5. 1 \in 1..Len(pPacket) /\ i - 1 + 1 = 1
    BY <1>2, <2>1
  <2> QED BY <2>4, <2>5
<1>8. Len(currPacket'.data) = Len(currPacket.data)
      /\ (Len(currPacket.data) # 0 => currPacket'.data[1] = Encode(sent[n])[1])
  <2>1. \A i \in 1..Len(currPacket.data) :
          currPacket'.data[i] = IF i > 0 /\ i =< 0 + 1 THEN pPacket[i - 0] ELSE currPacket.data[i]
    BY <1>1, <1>2 DEF Copied
  <2>2. Len(currPacket'.data) = Len(currPacket.data)
    BY <1>2 DEF Copied
  <2>3. Len(currPacket.data) \in Nat
    BY <1>1 DEF StreamRec, Bytes
  <2>4. ASSUME Len(currPacket.data) # 0 PROVE currPacket'.data[1] = pPacket[1]
    <3>1. 1 \in 1..Len(currPacket.data)
      BY <2>3, <2>4
    <3> QED BY <2>1, <3>1
  <2> QED BY <1>7, <2>2, <2>4
<1>9. AtLength(n)'
  BY <1>1, <1>3, <1>4, <1>5, <1>6, <1>8 DEF AtLength
<1>10. \A i \in 1..k : Handed(i)'
  BY <1>1, <1>2 DEF PlaceAt, Handed
<1>11. PlaceAt(k)'
  BY <1>1, <1>2, <1>3, <1>8, <1>9, <1>10 DEF PlaceAt
<1> QED BY <1>5, <1>11

\* A whole length is not cut, and says how long the message is.
LEMMA ReadPlace ==
  ASSUME Typing, Feed, Cuts, LengthRead, NEW k \in Nat, PlaceAt(k)
  PROVE  Feed' /\ Cuts' /\ Place'
<1>1. /\ sent \in Seq(Bytes) /\ Len(sent) \in Nat /\ pPacket \in Bytes /\ Len(pPacket) \in Nat
      /\ UNCHANGED <<sent, wire, cut>>
  BY SentIs, TallyIs DEF Typing, LengthRead, Round, Tally
<1>2. PICK s \in StreamRec : /\ FromLength(s)
                             /\ Waits(s, Drop(pPacket, 2)) \/ Completes(s, Drop(pPacket, 2))
  BY LengthReadIs
<1>3. /\ fragmentDatasFlag_ = "UNKNOW" /\ Len(pPacket) >= 2
      /\ s.rpos = 0 /\ s.wpos = 0 /\ Len(s.data) = BodySize(SubSeq(pPacket, 1, 2))
  BY <1>2 DEF FromLength
<1>4. PICK n \in 1..Len(sent) : n = k + 1 /\ n - 1 = k
  <2>1. Len(pPacket) > 0
    BY <1>1, <1>3
  <2>2. k + 1 \in 1..Len(sent) /\ k + 1 - 1 = k
    BY <2>1, PlaceIs
  <2> QED BY <2>2
<1>5. PICK e \in Nat : e = Ends(sent)[n - 1] /\ Pos = e
  BY <1>1, <1>3, <1>4, BeginTyped DEF PlaceAt
<1>6. sent[n] \in Bodies /\ Len(sent[n]) \in Nat
  BY <1>1, SentIs, BeginTyped
<1>7. Len(s.data) = Len(sent[n])
  <2>1. PICK i \in 1..2 : i = 1
    OBVIOUS
  <2>2. e = Ends(sent)[n - 1] + (i - 1) /\ Holds(sent, pPacket, e)
    BY <1>5, <2>1 DEF Feed
  <2>3. \A h \in 1..Len(pPacket) : i - 1 + h =< 2 => pPacket[h] = Encode(sent[n])[i - 1 + h]
    BY <1>1, <1>6, <2>2, HeadIs
  <2>4. pPacket[1] = Encode(sent[n])[1] /\ pPacket[2] = Encode(sent[n])[2]
    <3>1. 1 \in 1..Len(pPacket) /\ 2 \in 1..Len(pPacket) /\ i - 1 + 1 = 1 /\ i - 1 + 2 = 2
      BY <1>1, <1>3, <2>1
    <3>2. pPacket[1] = Encode(sent[n])[i - 1 + 1] /\ pPacket[2] = Encode(sent[n])[i - 1 + 2]
      BY <2>1, <2>3, <3>1
    <3> QED BY <3>1, <3>2
  <2>5. PICK bytes \in Bytes : bytes = SubSeq(pPacket, 1, 2) /\ Len(bytes) = 2 /\ bytes[1] = pPacket[1] /\ bytes[2] = pPacket[2]
    <3>1. 2 \in 0..Len(pPacket) /\ 1 \in 1..2 /\ 2 \in 1..2
      BY <1>1, <1>3
    <3> QED BY <1>1, <3>1, CutIs
  <2>6. BodySize(bytes) = Len(sent[n])
    BY <1>6, <2>4, <2>5, EncodeIs
  <2> QED BY <1>3, <2>5, <2>6
<1>8. n \notin cut
  <2>1. PICK t, l \in Int : t = Taken /\ l = Len(pPacket) /\ e + l = t
    BY <1>5, TallyIs DEF Tally
  <2>2. e + 1 # t /\ ~(e + 1 =< e)
    BY <1>3, <2>1
  <2> QED BY <1>5, <2>1, <2>2 DEF Cuts
<1>9. PICK j \in 0..Len(pPacket) : j = 2
  BY <1>1, <1>3
<1>10. /\ Len(handled) = k /\ (\A i \in 1..k : Handed(i)) /\ k + 1 \in 1..Len(sent) /\ Len(s.data) = Len(sent[k + 1])
       /\ s.wpos =< Len(s.data) /\ (\A i \in 1..s.wpos : s.data[i] = sent[k + 1][i])
       /\ s.rpos = (IF k + 1 \in cut THEN 2 ELSE 0)
  BY <1>3, <1>4, <1>6, <1>7, <1>8 DEF PlaceAt
<1>11. Pos + j = Ends(sent)[k] + 2 + s.wpos
  BY <1>3, <1>4, <1>5, <1>9
<1>12. Waits(s, Drop(pPacket, j)) \/ Completes(s, Drop(pPacket, j))
  BY <1>2, <1>9
<1> QED BY <1>1, <1>10, <1>11, <1>12, FinishPlace

\* A length that was cut says how long the message is, unless its first byte was lost.
LEMMA CompletedPlace ==
  ASSUME Typing, Feed, Cuts, LengthCompleted, NEW k \in Nat, PlaceAt(k), ~PlaceLost
  PROVE  Feed' /\ Cuts' /\ Place'
<1>1. /\ sent \in Seq(Bytes) /\ Len(sent) \in Nat /\ pPacket \in Bytes /\ Len(pPacket) \in Nat
      /\ UNCHANGED <<sent, wire, cut>>
  BY SentIs, TallyIs DEF Typing, LengthCompleted, Round, Tally
<1>2. PICK s \in StreamRec : /\ FromCutLength(s)
                             /\ Waits(s, Drop(pPacket, 1)) \/ Completes(s, Drop(pPacket, 1))
  BY LengthCompletedIs
<1>3. fragmentDatasFlag_ = "LENGTH" /\ s.rpos = 2 /\ s.wpos = 0 /\ pPacket # <<>>
  BY <1>2 DEF FromCutLength
<1>4. Len(pPacket) >= 1
  <2>1. Len(pPacket) # 0
    BY <1>1, <1>3 DEF Bytes
  <2> QED BY <1>1, <2>1
<1>5. PICK n \in 1..Len(sent) : /\ n = k + 1 /\ n - 1 = k /\ n \in cut /\ Pos = Ends(sent)[n - 1] + 1
                                /\ Len(currPacket.data) # 0 => currPacket.data[1] = Encode(sent[n])[1]
  <2>1. k + 1 - 1 = k
    OBVIOUS
  <2> QED BY <1>3, <2>1 DEF PlaceAt, AtLength
<1>6. PICK e \in Nat : e = Ends(sent)[n - 1] /\ Pos = e + 1
  BY <1>1, <1>5, BeginTyped
<1>7. sent[n] \in Bodies /\ Len(sent[n]) \in Nat
  BY <1>1, SentIs, BeginTyped
<1>8. pPacket[1] = Encode(sent[n])[2]
  <2>1. PICK i \in 1..2, q \in Int : i = 2 /\ q = e + 1
    OBVIOUS
  <2>2. q = Ends(sent)[n - 1] + (i - 1) /\ Holds(sent, pPacket, q)
    BY <1>6, <2>1 DEF Feed
  <2>3. \A h \in 1..Len(pPacket) : i - 1 + h =< 2 => pPacket[h] = Encode(sent[n])[i - 1 + h]
    BY <1>1, <1>7, <2>2, HeadIs
  <2>4. 1 \in 1..Len(pPacket) /\ i - 1 + 1 = 2
    BY <1>1, <1>4, <2>1
  <2> QED BY <2>3, <2>4
<1>9. (IF Len(currPacket.data) = 0 THEN 0 ELSE currPacket.data[1]) = Encode(sent[n])[1]
  <2>1. CASE Len(currPacket.data) # 0
    BY <1>5, <2>1
  <2>2. CASE Len(currPacket.data) = 0
    <3>1. k # 0 /\ Len(sent[k]) = 0
      BY <1>3, <2>2 DEF PlaceAt
    <3>2. n > 1 /\ k \in 1..Len(sent)
      BY <1>1, <1>5, <3>1
    <3>3. sent[k] = <<>>
      BY <1>1, <3>1, <3>2 DEF Bytes
    <3>4. Encode(sent[n])[1] = 0
      BY <1>5, <3>2, <3>3 DEF PlaceLost
    <3> QED BY <2>2, <3>4
  <2> QED BY <2>1, <2>2
<1>10. Len(s.data) = Len(sent[n])
  <2>1. PICK bytes \in Bytes : /\ Len(bytes) = 2 /\ bytes[2] = pPacket[1] /\ Len(s.data) = BodySize(bytes)
                               /\ bytes[1] = (IF Len(currPacket.data) = 0 THEN 0 ELSE currPacket.data[1])
    BY <1>2 DEF FromCutLength
  <2>2. bytes[1] = Encode(sent[n])[1] /\ bytes[2] = Encode(sent[n])[2]
    BY <1>8, <1>9, <2>1
  <2>3. BodySize(bytes) = Len(sent[n])
    BY <1>7, <2>1, <2>2, EncodeIs
  <2> QED BY <2>1, <2>3
<1>11. PICK j \in 0..Len(pPacket) : j = 1
  BY <1>1, <1>4
<1>12. /\ Len(handled) = k /\ (\A i \in 1..k : Handed(i)) /\ k + 1 \in 1..Len(sent) /\ Len(s.data) = Len(sent[k + 1])
       /\ s.wpos =< Len(s.data) /\ (\A i \in 1..s.wpos : s.data[i] = sent[k + 1][i])
       /\ s.rpos = (IF k + 1 \in cut THEN 2 ELSE 0)
  BY <1>3, <1>5, <1>7, <1>10 DEF PlaceAt
<1>13. Pos + j = Ends(sent)[k] + 2 + s.wpos
  BY <1>3, <1>5, <1>6, <1>11
<1>14. Waits(s, Drop(pPacket, j)) \/ Completes(s, Drop(pPacket, j))
  BY <1>2, <1>11
<1> QED BY <1>1, <1>12, <1>13, <1>14, FinishPlace

\* A body goes on where it was left.
LEMMA ContinuedPlace ==
  ASSUME Typing, Feed, Cuts, BodyContinued, NEW k \in Nat, PlaceAt(k)
  PROVE  Feed' /\ Cuts' /\ Place'
<1>1. /\ sent \in Seq(Bytes) /\ Len(sent) \in Nat /\ pPacket \in Bytes /\ Len(pPacket) \in Nat
      /\ currPacket \in StreamRec /\ UNCHANGED <<sent, wire, cut>> /\ fragmentDatasFlag_ = "BODY"
  BY SentIs, TallyIs DEF Typing, BodyContinued, Round, Tally
<1>2. Waits(currPacket, pPacket) \/ Completes(currPacket, pPacket)
  BY BodyContinuedIs
<1>3. PICK j \in 0..Len(pPacket) : j = 0
  BY <1>1
<1>4. Drop(pPacket, j) = pPacket
  <2>1. PICK d \in Bytes : /\ d = Drop(pPacket, j) /\ Len(d) = Len(pPacket) - j
                           /\ \A i \in 1..(Len(pPacket) - j) : d[i] = pPacket[j + i]
    BY <1>1, CutIs
  <2>2. Len(d) = Len(pPacket)
    BY <1>1, <1>3, <2>1
  <2>3. \A i \in 1..Len(d) : d[i] = pPacket[i]
    BY <1>1, <1>3, <2>1
  <2>4. d \in Seq(Byte) /\ pPacket \in Seq(Byte)
    BY <1>1 DEF Bytes
  <2> QED BY <2>1, <2>2, <2>3, <2>4, SeqEqual
<1>5. AtBody(k + 1) /\ k + 1 - 1 = k
  BY <1>1 DEF PlaceAt
<1>6. /\ Len(handled) = k /\ (\A i \in 1..k : Handed(i)) /\ k + 1 \in 1..Len(sent)
      /\ Len(currPacket.data) = Len(sent[k + 1])
      /\ (\A i \in 1..currPacket.wpos : currPacket.data[i] = sent[k + 1][i])
      /\ currPacket.rpos = (IF k + 1 \in cut THEN 2 ELSE 0)
  BY <1>5 DEF PlaceAt, AtBody
<1>7. currPacket.wpos =< Len(currPacket.data)
  <2>1. currPacket.wpos < Len(currPacket.data) /\ currPacket.wpos \in Nat
    BY <1>1 DEF Typing, Form, StreamRec
  <2>2. Len(currPacket.data) \in Nat
    BY <1>1 DEF StreamRec, Bytes
  <2> QED BY <2>1, <2>2
<1>8. Pos + j = Ends(sent)[k] + 2 + currPacket.wpos
  <2>1. Pos = Ends(sent)[k] + 2 + currPacket.wpos
    BY <1>5 DEF AtBody
  <2>2. Pos \in Int
    BY TallyIs DEF Tally
  <2> QED BY <1>3, <2>1, <2>2
<1>9. Waits(currPacket, Drop(pPacket, j)) \/ Completes(currPacket, Drop(pPacket, j))
  BY <1>2, <1>4
<1> QED BY <1>1, <1>6, <1>7, <1>8, <1>9, FinishPlace

\* The reader's place, unless it is lost, is an invariant ...
Inv == Typing /\ (PlaceLost \/ (Feed /\ Cuts /\ Place))

\* ... that every step keeps ...
LEMMA StepInv == Inv /\ [Next]_vars => Inv'
<1> SUFFICES ASSUME Inv, [Next]_vars PROVE Inv'
  OBVIOUS
<1>1. Typing /\ Typing'
  BY StepTyping DEF Inv
<1>2. CASE PlaceLost
  BY <1>1, <1>2, LostStays DEF Inv
<1>3. CASE ~PlaceLost
  <2>1. Feed /\ Cuts /\ Place
    BY <1>3 DEF Inv
  <2>2. PICK k \in Nat : PlaceAt(k)
    BY <2>1 DEF Place
  <2>3. SUFFICES Feed' /\ Cuts' /\ Place'
    BY <1>1 DEF Inv
  <2>4. ASSUME NEW b \in Bodies, PeerSends(b) PROVE Feed' /\ Cuts' /\ Place'
    <3>1. Feed' /\ Cuts'
      BY <1>1, <2>1, <2>4, SendFeeds
    <3>2. PlaceAt(k)'
      BY <1>1, <2>1, <2>2, <2>4, SendPlace
    <3> QED BY <3>1, <3>2 DEF Place
  <2>5. ASSUME NEW n \in 1..Len(wire), Receive(n) PROVE Feed' /\ Cuts' /\ Place'
    <3>1. Feed' /\ Cuts'
      BY <1>1, <2>1, <2>5, ReceiveFeeds
    <3>2. PlaceAt(k)'
      BY <1>1, <2>1, <2>2, <2>5, ReceivePlace
    <3> QED BY <3>1, <3>2 DEF Place
  <2>6. ASSUME UNCHANGED <<sent, wire, pPacket, currPacket, fragmentDatasFlag_, cut, handled>>
        PROVE  Feed' /\ Cuts' /\ Place'
    <3>1. Taken' = Taken /\ Pos' = Pos
      BY <2>6 DEF Taken, EndOf, Pos
    <3>2. Feed'
      BY <2>1, <2>6, <3>1 DEF Feed, Holds
    <3>3. Cuts'
      BY <2>1, <2>6, <3>1 DEF Cuts
    <3>4. PlaceAt(k)'
      BY <2>2, <2>6, <3>1 DEF PlaceAt, AtLength, AtBody, Handed
    <3> QED BY <3>2, <3>3, <3>4 DEF Place
  <2>7. ASSUME LengthSplit PROVE Feed' /\ Cuts' /\ Place'
    BY <1>1, <2>1, <2>2, <2>7, SplitPlace DEF Place
  <2>8. ASSUME LengthRead \/ LengthCompleted \/ BodyContinued PROVE Feed' /\ Cuts' /\ Place'
    BY <1>1, <1>3, <2>1, <2>2, <2>8, ReadPlace, CompletedPlace, ContinuedPlace
  <2>9. ASSUME Return \/ UNCHANGED vars PROVE Feed' /\ Cuts' /\ Place'
    BY <2>6, <2>9 DEF Return, vars
  <2> QED BY <2>4, <2>5, <2>7, <2>8, <2>9 DEF Next, processMessages
<1> QED BY <1>2, <1>3

\* ... from the beginning.
LEMMA InitInv == Init => Inv
<1> SUFFICES ASSUME Init PROVE Inv
  OBVIOUS
<1>1. Typing
  BY InitTyping
<1>2. sent = <<>> /\ wire = <<>> /\ pPacket = <<>> /\ handled = <<>> /\ fragmentDatasFlag_ = "UNKNOW" /\ Len(sent) = 0
  BY DEF Init
<1>3. sent \in Seq(Bytes) /\ Ends(sent)[0] = 0
  BY <1>1, SentIs, EndsIs
<1>4. Taken = 0 /\ Pos = 0
  BY <1>2, <1>3 DEF Taken, Pos, EndOf
<1>5. Feed /\ Cuts
  BY <1>2 DEF Feed, Cuts, Holds
<1>6. Len(currPacket.data) # 0
  <2>1. PacketSize \in Nat /\ PacketSize # 0 /\ <<>> \in Bytes
    <3>1. <<>> \in Seq(Byte)
      OBVIOUS
    <3> QED BY <3>1, ReaderAssumption DEF Bytes
  <2>2. Len(VectorResize(<<>>, PacketSize)) = PacketSize
    BY <2>1, VectorResizeIs
  <2>3. currPacket = [data |-> VectorResize(<<>>, PacketSize), rpos |-> 0, wpos |-> 0]
    BY DEF Init, EmptyStream
  <2> QED BY <2>1, <2>2, <2>3
<1>7. PlaceAt(0)
  BY <1>2, <1>3, <1>4, <1>6 DEF PlaceAt
<1> QED BY <1>1, <1>5, <1>7 DEF Inv, Place

\* It holds in every state.
LEMMA InvAlways == Spec => []Inv
BY InitInv, StepInv, PTL DEF Spec

\* The messages that the reader has taken whole are the k first ones.
LEMMA CompleteIs ==
  ASSUME Typing, NEW k \in Nat, PlaceAt(k)
  PROVE  Complete = 1..k
<1>1. sent \in Seq(Bytes) /\ Len(sent) \in Nat /\ k \in 0..Len(sent)
  BY SentIs DEF PlaceAt
<1>2. PICK e \in Nat, pos \in Int : e = Ends(sent)[k] /\ pos = Pos /\ e =< pos
  BY PlaceIs
<1>3. ASSUME NEW n \in 1..k PROVE n \in Complete
  <2>1. n \in 1..Len(sent) /\ k \in n..Len(sent)
    BY <1>1
  <2>2. PICK a, l, u \in Nat : a = Ends(sent)[n - 1] /\ l = Len(sent[n]) /\ u = Ends(sent)[n] /\ u = a + 2 + l
    BY ZenonT(30), <1>1, <2>1, BeginTyped
  <2>3. a + 2 + l =< e
    BY <1>1, <1>2, <2>1, <2>2, EndsRise
  <2>4. u =< pos
    BY <1>2, <2>2, <2>3
  <2> QED BY <1>2, <2>1, <2>2, <2>4 DEF Complete, EndOf, Pos
<1>4. ASSUME NEW n \in 1..Len(sent), n \notin 1..k PROVE ~(Ends(sent)[n] =< pos)
  <2>1. PICK m \in 1..Len(sent) : m = k + 1 /\ m - 1 = k
    <3>1. k + 1 \in 1..Len(sent) /\ k + 1 - 1 = k
      BY <1>1, <1>4
    <3> QED BY <3>1
  <2>2. n \in m..Len(sent)
    BY <1>1, <1>4, <2>1
  <2>3. PICK l, u \in Nat : l = Len(sent[m]) /\ u = Ends(sent)[n]
    BY <1>1, <1>4, BeginTyped
  <2>4. e + 2 + l =< u
    BY <1>1, <1>2, <2>1, <2>2, <2>3, EndsRise
  <2>5. pos < e + 2 + l
    <3>1. CASE fragmentDatasFlag_ = "UNKNOW"
      <4>1. pos = e
        BY <1>2, <3>1 DEF PlaceAt
      <4> QED BY <4>1
    <3>2. CASE fragmentDatasFlag_ = "LENGTH"
      <4>1. pos = e + 1
        BY <1>2, <2>1, <3>2 DEF PlaceAt, AtLength
      <4> QED BY <4>1
    <3>3. CASE fragmentDatasFlag_ = "BODY"
      <4>1. pos = e + 2 + currPacket.wpos /\ Len(currPacket.data) = l
        BY <1>2, <2>1, <2>3, <3>3 DEF PlaceAt, AtBody
      <4>2. currPacket.wpos < Len(currPacket.data) /\ currPacket.wpos \in Nat
        BY <3>3 DEF Typing, Form, StreamRec
      <4> QED BY <4>1, <4>2
    <3> QED BY <3>1, <3>2, <3>3 DEF Typing, Form
  <2>6. ~(u =< pos)
    BY <2>4, <2>5
  <2> QED BY <2>3, <2>6
<1>5. \A n \in Complete : n \in 1..Len(sent) /\ Ends(sent)[n] =< pos
  BY <1>2 DEF Complete, EndOf, Pos
<1> QED BY <1>3, <1>4, <1>5

\* Where the reader is says what it has handled.
LEMMA InvFraming == Inv => FramingKept /\ HandledFromIndex
<1> SUFFICES ASSUME Typing, NEW k \in Nat, PlaceAt(k)
             PROVE  /\ Len(handled) = Cardinality(Complete)
                    /\ \A n \in DOMAIN handled :
                         /\ n \in DOMAIN sent
                         /\ handled[n] = IF n \in cut THEN SubSeq(sent[n], 3, Len(sent[n])) ELSE sent[n]
  BY DEF Inv, Place, FramingKept, HandledFromIndex
<1>1. Len(handled) = k /\ k \in 0..Len(sent) /\ \A n \in 1..k : Handed(n)
  BY DEF PlaceAt
<1>2. DOMAIN handled = 1..k /\ DOMAIN sent = 1..Len(sent) /\ Len(sent) \in Nat
  BY <1>1 DEF Typing
<1>3. Cardinality(1..k) = k
  <2>1. Cardinality(1..k) = IF 1 > k THEN 0 ELSE k - 1 + 1
    BY FS_Interval
  <2> QED BY <2>1
<1>4. \A n \in DOMAIN handled : n \in DOMAIN sent /\ Handed(n)
  BY <1>1, <1>2
<1> QED BY <1>1, <1>3, <1>4, CompleteIs DEF Handed

\* However the network cuts the stream, a message is handled exactly when its last byte was taken,
\* unless the first byte of a length was lost behind an empty message.
THEOREM FramingKeptThm == Spec => []FramingKept
BY InvAlways, InvFraming, PTL

\* Messages are handled in the order sent, with the bytes that were sent: all of them, but for the
\* first two of a message whose length was cut, which the read index has passed.
THEOREM HandledFromIndexThm == Spec => []HandledFromIndex
BY InvAlways, InvFraming, PTL
=============================================================================
