------------------------- MODULE StreamCodecProofs -------------------------
(***************************************************************************)
(* Theorems about StreamCodec, for any base of the bytes, any range of     *)
(* characters, and any items written, read, skipped and cleared.           *)
(***************************************************************************)
EXTENDS StreamCodec, MemoryStreamProofs

Byte == 0..Base - 1

\* what << appends for an item
Enc(item) == Encoding(item[1], item[2])

-----------------------------------------------------------------------------
(* Numbers *)

\* The values of each type.
LEMMA ValuesAre ==
  ASSUME NEW t \in Types
  PROVE  /\ t = "bool" => Values(t) = {0, 1}
         /\ t = "string" => Values(t) = Seq(Byte)
         /\ t = "char*" => Values(t) = Seq(1..Base - 1)
         /\ Signed(t) => Values(t) = {v \in -Power(Base, Width(t))..Power(Base, Width(t)) :
                               -Power(Base, Width(t)) =< 2 * v /\ 2 * v < Power(Base, Width(t))}
         /\ ~Text(t) /\ t # "bool" /\ ~Signed(t) => Values(t) = 0..Power(Base, Width(t)) - 1
<1>1. t = "bool" => Values(t) = {0, 1}
  BY DEF Values
<1>2. t = "string" => Values(t) = Seq(Byte)
  BY DEF Values, Byte
<1>3. t = "char*" => Values(t) = Seq(1..Base - 1)
  BY DEF Values
<1>4. Signed(t) => Values(t) = {v \in -Power(Base, Width(t))..Power(Base, Width(t)) :
                               -Power(Base, Width(t)) =< 2 * v /\ 2 * v < Power(Base, Width(t))}
  BY DEF Values, Signed
<1>5. ~Text(t) /\ t # "bool" /\ ~Signed(t) => Values(t) = 0..Power(Base, Width(t)) - 1
  BY DEF Values, Text
<1> QED BY <1>1, <1>2, <1>3, <1>4, <1>5

\* What >> makes of the bytes of a number.
LEMMA NumberCases ==
  ASSUME NEW t \in Types, NEW bytes, NEW n, n = FromBigEndian(bytes, Base)
  PROVE /\ t = "bool" => Number(t, bytes) = IF n = 1 THEN 1 ELSE 0
        /\ Signed(t) => Number(t, bytes) = IF 2 * n >= Power(Base, Width(t)) THEN n - Power(Base, Width(t)) ELSE n
        /\ t # "bool" /\ ~Signed(t) => Number(t, bytes) = n
<1>1. t = "bool" => Number(t, bytes) = IF n = 1 THEN 1 ELSE 0
  BY DEF Number
<1>2. Signed(t) => Number(t, bytes) = IF 2 * n >= Power(Base, Width(t)) THEN n - Power(Base, Width(t)) ELSE n
  BY DEF Number, Signed
<1>3. t # "bool" /\ ~Signed(t) => Number(t, bytes) = n
  BY DEF Number
<1> QED BY <1>1, <1>2, <1>3

\* A number is its remainder, or has it one divisor above it.
LEMMA RemainderIs ==
  ASSUME NEW m \in Nat \ {0}, NEW v \in -m..m - 1
  PROVE  v % m = IF v < 0 THEN v + m ELSE v
<1>1. CASE v < 0
  <2>1. PICK q \in Int, r \in 0..m - 1 : v = m * q + r /\ r = v % m
    OBVIOUS
  <2>2. q = -1
    <3>1. CASE q >= 0
      <4>1. m * q >= 0
        BY <3>1
      <4>2. PICK x \in Int : x = m * q
        OBVIOUS
      <4> QED BY <1>1, <2>1, <4>1, <4>2
    <3>2. CASE q =< -2
      <4>1. m * q =< m * (-2)
        BY <3>2
      <4>2. PICK x \in Int : x = m * q
        OBVIOUS
      <4> QED BY <1>1, <2>1, <4>1, <4>2
    <3> QED BY <3>1, <3>2
  <2> QED BY <1>1, <2>1, <2>2
<1>2. CASE v >= 0
  <2>1. v \in 0..m - 1
    BY <1>2
  <2> QED BY <1>2, <2>1
<1> QED BY <1>1, <1>2

\* Base, and what the widths are.
LEMMA WidthIs ==
  ASSUME NEW t \in Types, ~Text(t)
  PROVE  Base \in Nat \ {0} /\ Width(t) \in Nat \ {0} /\ Power(Base, Width(t)) \in Nat \ {0}
<1>1. Base \in Nat \ {0}
  BY CodecAssumption
<1>2. Width(t) \in Nat \ {0}
  BY DEF Types, Text, Width
<1> QED BY <1>1, <1>2, PowerTyped

\* The bits of a number fit its width, and it comes back from them.
LEMMA BitsAre ==
  ASSUME NEW t \in Types, ~Text(t), NEW v \in Values(t), NEW n, n = Bits(t, v)
  PROVE  /\ n \in 0..Power(Base, Width(t)) - 1
         /\ t = "bool" => v = IF n = 1 THEN 1 ELSE 0
         /\ Signed(t) => v = IF 2 * n >= Power(Base, Width(t)) THEN n - Power(Base, Width(t)) ELSE n
         /\ t # "bool" /\ ~Signed(t) => v = n
<1>1. PICK all \in Nat \ {0} : all = Power(Base, Width(t))
  BY WidthIs
<1>2. n = v % all
  BY <1>1 DEF Bits
<1>3. CASE t = "bool"
  <2>1. v \in {0, 1}
    BY <1>3, ValuesAre
  <2>2. all >= 2
    <3>1. Width(t) = 1
      BY <1>3 DEF Width
    <3>2. Power(Base, 0 + 1) = Base * 1
      BY CodecAssumption, PowerIs
    <3> QED BY <1>1, <3>1, <3>2, CodecAssumption
  <2>3. v \in -all..all - 1
    BY <2>1, <2>2
  <2>4. n = v
    BY <1>2, <2>1, <2>3, RemainderIs
  <2> QED BY <1>1, <1>3, <2>1, <2>2, <2>4 DEF Signed
<1>4. CASE Signed(t)
  <2>1. v \in -all..all /\ -all =< 2 * v /\ 2 * v < all
    BY <1>1, <1>4, ValuesAre
  <2>2. v \in -all..all - 1
    BY <2>1
  <2>3. n = IF v < 0 THEN v + all ELSE v
    BY <1>2, <2>2, RemainderIs
  <2>4. n \in 0..all - 1 /\ v = IF 2 * n >= all THEN n - all ELSE n
    BY <2>1, <2>3
  <2> QED BY <1>1, <1>4, <2>4 DEF Signed
<1>5. CASE t # "bool" /\ ~Signed(t)
  <2>1. v \in 0..all - 1
    BY <1>1, <1>5, ValuesAre
  <2>2. n = v
    BY <1>2, <2>1, RemainderIs
  <2> QED BY <1>1, <1>5, <2>1, <2>2
<1> QED BY <1>3, <1>4, <1>5

\* A number that is not a 64 bit integer is read from the bytes that were written for it.
LEMMA NumberIs ==
  ASSUME NEW t \in Types, ~Text(t), t \notin {"u64", "i64"}, NEW v \in Values(t)
  PROVE  /\ Encoding(t, v) \in Seq(Byte) /\ Len(Encoding(t, v)) = Width(t)
         /\ Number(t, Encoding(t, v)) = v
<1>1. PICK n : n = Bits(t, v)
  OBVIOUS
<1>2. n \in Nat /\ n < Power(Base, Width(t))
  BY <1>1, BitsAre, WidthIs
<1>3. PICK bytes : bytes = BigEndian(n, Width(t), Base)
  OBVIOUS
<1>4. Encoding(t, v) = bytes
  BY <1>1, <1>3 DEF Encoding
<1>5. Base \in Nat \ {0} /\ Width(t) \in Nat
  BY WidthIs
<1>6. bytes \in Seq(Byte) /\ Len(bytes) = Width(t)
  BY <1>2, <1>3, <1>5, BigEndianIs DEF Byte
<1>7. FromBigEndian(bytes, Base) = n
  BY <1>2, <1>3, <1>5, NumberReadBack
<1>8. Number(t, bytes) = v
  BY <1>1, <1>7, BitsAre, NumberCases
<1> QED BY <1>4, <1>6, <1>8

\* A sequence over a set is one over a larger set.
LEMMA SeqWidens ==
  ASSUME NEW A, NEW B, A \subseteq B, NEW s \in Seq(A)
  PROVE  s \in Seq(B)
<1>1. Len(s) \in Nat /\ \A k \in 1..Len(s) : s[k] \in B
  OBVIOUS
<1>2. s = [k \in 1..Len(s) |-> s[k]]
  OBVIOUS
<1> QED BY <1>1, <1>2

\* The characters of a text are bytes.
LEMMA TextBytes ==
  ASSUME NEW t \in Types, Text(t), NEW v \in Values(t)
  PROVE  v \in Seq(Byte)
<1>1. CASE t = "string"
  BY <1>1, ValuesAre
<1>2. CASE t = "char*"
  <2>1. v \in Seq(1..Base - 1)
    BY <1>2, ValuesAre
  <2>2. 1..Base - 1 \subseteq Byte
    BY CodecAssumption DEF Byte
  <2> QED BY <2>1, <2>2, SeqWidens
<1> QED BY <1>1, <1>2 DEF Text

\* What is appended for an item is bytes, and at least one.
LEMMA EncodingIs ==
  ASSUME NEW item \in Items
  PROVE  Enc(item) \in Seq(Byte) /\ Len(Enc(item)) \in Nat \ {0}
<1>1. PICK t \in Types : t = item[1]
  BY CodecAssumption
<1>2. PICK v \in Values(t) : v = item[2]
  BY <1>1, CodecAssumption
<1>3. PICK e : e = Encoding(t, v)
  OBVIOUS
<1>4. CASE Text(t)
  <2>1. e = Append(v, 0)
    BY <1>3, <1>4 DEF Encoding
  <2>2. v \in Seq(Byte)
    BY <1>4, TextBytes
  <2>3. 0 \in Byte
    BY CodecAssumption DEF Byte
  <2>4. e \in Seq(Byte) /\ Len(e) = Len(v) + 1
    BY <2>1, <2>2, <2>3, AppendProperties
  <2> QED BY <1>1, <1>2, <1>3, <2>2, <2>4 DEF Enc
<1>5. CASE t \in {"u64", "i64"}
  <2>1. PICK n \in Nat : n = Bits(t, v)
    <3>1. Bits(t, v) \in Nat
      BY <1>5, BitsAre, WidthIs DEF Text
    <3> QED BY <3>1
  <2>2. PICK b : b = BigEndian(n, 8, Base)
    OBVIOUS
  <2>3. b \in Seq(Byte) /\ Len(b) = 8
    <3>1. Base \in Nat \ {0} /\ 8 \in Nat
      BY CodecAssumption
    <3> QED BY <2>2, <3>1, BigEndianIs DEF Byte
  <2>4. e = SubSeq(b, 1, 4)
    BY <1>3, <1>5, <2>1, <2>2 DEF Encoding, Text
  <2>5. e \in Seq(Byte) /\ Len(e) = 4
    <3>1. \A i \in 1..4 : b[i] \in Byte
      BY SMTT(30), <2>3
    <3> QED BY <2>4, <3>1, SubSeqProperties
  <2> QED BY <1>1, <1>2, <1>3, <2>5 DEF Enc
<1>6. CASE ~Text(t) /\ t \notin {"u64", "i64"}
  <2>1. e \in Seq(Byte) /\ Len(e) = Width(t)
    BY <1>3, <1>6, NumberIs
  <2> QED BY <1>1, <1>2, <1>3, <1>6, <2>1, WidthIs DEF Enc
<1> QED BY <1>4, <1>5, <1>6

-----------------------------------------------------------------------------
(* Texts *)

\* >> takes no more for a text than there is.
LEMMA TakenIsThere ==
  ASSUME NEW s, StreamOf(s, Byte)
  PROVE  TextTaken(s) \in Nat /\ TextTaken(s) =< Length(s)
<1>1. PICK n \in Nat : n = Length(s)
  BY DEF StreamOf, Length
<1>2. PICK ends : ends = {k \in 1..n : EndsText(Peek(s, n)[k])}
  OBVIOUS
<1>3. TextTaken(s) = IF ends = {} THEN n ELSE CHOOSE k \in ends : \A j \in ends : k =< j
  BY <1>1, <1>2 DEF TextTaken
<1>4. CASE ends # {}
  <2>1. ends \in SUBSET Nat /\ \A k \in ends : k =< n
    BY <1>2
  <2>2. \E k \in ends : \A j \in ends : k =< j
    BY <1>4, <2>1, Least
  <2>3. TextTaken(s) \in ends
    BY <1>3, <1>4, <2>2
  <2> QED BY <1>1, <2>1, <2>3
<1> QED BY <1>1, <1>3, <1>4

\* It takes the text up to and with the first character that ends it.
LEMMA TakenToTheEnd ==
  ASSUME NEW s, StreamOf(s, Byte), NEW m \in Nat \ {0}, m =< Length(s),
         EndsText(s.data[s.rpos + m]), \A k \in 1..m - 1 : ~EndsText(s.data[s.rpos + k])
  PROVE  TextTaken(s) = m
<1>1. PICK n \in Nat : n = Length(s)
  BY DEF StreamOf, Length
<1>2. PICK p : p = Peek(s, n)
  OBVIOUS
<1>3. \A k \in 1..n : p[k] = s.data[s.rpos + k]
  BY <1>1, <1>2, PeekIs
<1>4. PICK ends : ends = {k \in 1..n : EndsText(p[k])}
  OBVIOUS
<1>5. TextTaken(s) = IF ends = {} THEN n ELSE CHOOSE k \in ends : \A j \in ends : k =< j
  BY <1>1, <1>2, <1>4 DEF TextTaken
<1>6. m \in ends
  BY <1>1, <1>3, <1>4
<1>7. ASSUME NEW k \in ends PROVE m =< k
  <2>1. k \in 1..n /\ EndsText(s.data[s.rpos + k])
    BY <1>3, <1>4
  <2> QED BY <2>1
<1>8. ASSUME NEW k \in ends, \A j \in ends : k =< j PROVE k = m
  <2>1. k \in Nat /\ m =< k /\ k =< m
    BY <1>4, <1>6, <1>7, <1>8
  <2> QED BY <2>1
<1>9. (CHOOSE k \in ends : \A j \in ends : k =< j) = m
  BY <1>6, <1>7, <1>8
<1> QED BY <1>5, <1>6, <1>9

\* A text no character of which ends it comes back whole, with nothing of what follows it.
LEMMA TextIs ==
  ASSUME NEW s, StreamOf(s, Byte), NEW v \in Seq(Byte), Len(v) + 1 =< Length(s),
         \A k \in 1..Len(v) + 1 : s.data[s.rpos + k] = Append(v, 0)[k],
         \A k \in 1..Len(v) : ~EndsText(v[k]), NEW t
  PROVE  /\ ReadText(s, t).cnt = Len(v) + 1
         /\ ReadText(s, t).value = IF t = "string" THEN Append(v, 0) ELSE v
<1>1. PICK m \in Nat \ {0} : m = Len(v) + 1
  OBVIOUS
<1>2. PICK w : w = Append(v, 0)
  OBVIOUS
<1>3. /\ w \in Seq(Byte) /\ Len(w) = m /\ w[m] = 0
      /\ \A k \in 1..Len(v) : w[k] = v[k]
  <2>1. 0 \in Byte
    BY CodecAssumption DEF Byte
  <2> QED BY <1>1, <1>2, <2>1, AppendProperties
<1>4. EndsText(w[m])
  BY <1>3 DEF EndsText
<1>5. TextTaken(s) = m
  <2>1. EndsText(s.data[s.rpos + m])
    BY <1>1, <1>2, <1>4
  <2>2. ASSUME NEW k \in 1..m - 1 PROVE ~EndsText(s.data[s.rpos + k])
    <3>1. k \in 1..Len(v) /\ k \in 1..Len(v) + 1
      BY <1>1
    <3>2. s.data[s.rpos + k] = v[k]
      BY <1>2, <1>3, <3>1
    <3> QED BY <3>1, <3>2
  <2> QED BY <1>1, <2>1, <2>2, TakenToTheEnd
<1>6. PICK taken : taken = Peek(s, m)
  OBVIOUS
<1>7. taken = w
  <2>1. /\ taken \in Seq(Byte) /\ Len(taken) = m
        /\ \A k \in 1..m : taken[k] = s.data[s.rpos + k]
    BY <1>1, <1>6, PeekIs
  <2>2. \A k \in 1..m : taken[k] = w[k]
    BY <1>1, <1>2, <2>1
  <2> QED BY <1>3, <2>1, <2>2, SeqEqual
<1>8. PICK chars : chars = SubSeq(w, 1, m - 1)
  OBVIOUS
<1>9. chars = v
  <2>1. \A i \in 1..m - 1 : w[i] \in Byte
    BY <1>3
  <2>2. /\ chars \in Seq(Byte) /\ Len(chars) = m - 1
        /\ \A i \in 1..m - 1 : chars[i] = w[i]
    BY <1>8, <2>1, SubSeqProperties
  <2>3. m - 1 = Len(v)
    BY <1>1
  <2>4. \A i \in 1..Len(v) : chars[i] = v[i]
    BY <1>3, <2>2, <2>3
  <2> QED BY <2>2, <2>3, <2>4, SeqEqual
<1>10. taken # <<>> /\ EndsText(taken[Len(taken)]) /\ Len(taken) = m
  BY <1>3, <1>4, <1>7
<1>11. ReadText(s, t) = [value |-> IF t = "string" THEN Append(v, 0) ELSE v, cnt |-> m]
  BY <1>5, <1>6, <1>7, <1>8, <1>9, <1>10 DEF ReadText
<1> QED BY <1>1, <1>11

-----------------------------------------------------------------------------
(* What is unread *)

\* the bytes of an item lie behind p
At(s, item, p) == \A k \in 1..Len(Enc(item)) : s.data[p + k] = Enc(item)[k]

\* at[i] bytes lie before the i-th of the items: they begin at the read index,
\* follow each other and end at the write index
Marks(s, items, at) ==
  /\ at \in [1..Len(items) + 1 -> 0..s.wpos]
  /\ at[1] = s.rpos /\ at[Len(items) + 1] = s.wpos
  /\ \A i \in 1..Len(items) : at[i + 1] = at[i] + Len(Enc(items[i])) /\ At(s, items[i], at[i])

\* The unread bytes are those of the items, in their order.
Laid(s, items) == \E at : Marks(s, items, at)

\* No items, no bytes.
LEMMA LaidNone ==
  ASSUME NEW s, StreamOf(s, Byte), s.rpos = s.wpos
  PROVE  Laid(s, <<>>)
<1>1. PICK w \in Nat : w = s.wpos
  BY DEF StreamOf
<1>2. PICK at : at = [i \in {1} |-> w]
  OBVIOUS
<1>3. Len(<<>>) = 0 /\ 1..0 + 1 = {1} /\ 1..0 = {}
  OBVIOUS
<1>4. at \in [{1} -> 0..w] /\ at[1] = w
  BY <1>2
<1>5. Marks(s, <<>>, at)
  BY <1>1, <1>3, <1>4 DEF Marks
<1> QED BY <1>5 DEF Laid

\* Items have bytes.
LEMMA LaidSome ==
  ASSUME NEW s, StreamOf(s, Byte), NEW items \in Seq(Items), Laid(s, items)
  PROVE  (items = <<>>) = (Length(s) = 0)
<1>1. PICK at : Marks(s, items, at)
  BY DEF Laid
<1>2. s.wpos \in Nat /\ s.rpos \in Nat /\ s.rpos =< s.wpos /\ Length(s) = s.wpos - s.rpos
  BY DEF StreamOf, Length
<1>3. CASE items = <<>>
  <2>1. at[1] = s.rpos /\ at[0 + 1] = s.wpos
    BY <1>1, <1>3 DEF Marks
  <2> QED BY <1>2, <1>3, <2>1
<1>4. CASE items # <<>>
  <2>1. Len(items) \in Nat /\ 1 \in 1..Len(items) /\ items[1] \in Items
    BY <1>4
  <2>2. PICK l \in Nat \ {0} : l = Len(Enc(items[1]))
    BY <2>1, EncodingIs
  <2>3. at[1] = s.rpos /\ at[1 + 1] = s.rpos + l
    BY <1>1, <2>1, <2>2 DEF Marks
  <2>4. at[1 + 1] \in 0..s.wpos
    <3>1. 1 + 1 \in 1..Len(items) + 1
      BY <2>1
    <3> QED BY <1>1, <3>1 DEF Marks
  <2>5. s.rpos + l =< s.wpos
    BY <1>2, <2>3, <2>4
  <2>6. Length(s) # 0
    BY <1>2, <2>5
  <2> QED BY <1>4, <2>6
<1> QED BY <1>3, <1>4

\* What is written follows what is unread.
LEMMA LaidWrite ==
  ASSUME NEW s, StreamOf(s, Byte), NEW items \in Seq(Items), Laid(s, items), NEW item \in Items,
         NEW r, Appended(r, s, Enc(item), Byte)
  PROVE  Laid(r, Append(items, item))
<1>1. PICK at : Marks(s, items, at)
  BY DEF Laid
<1>2. PICK n \in Nat : n = Len(items)
  OBVIOUS
<1>3. PICK e \in Seq(Byte) : e = Enc(item)
  BY EncodingIs
<1>4. PICK l \in Nat : l = Len(e)
  OBVIOUS
<1>5. PICK w \in Nat, d \in Seq(Byte) : w = s.wpos /\ d = s.data /\ w =< Len(d)
  BY DEF StreamOf
<1>6. /\ r.rpos = s.rpos /\ r.wpos = w + l
      /\ \A i \in 1..w : r.data[i] = d[i]
      /\ \A k \in 1..l : r.data[w + k] = e[k]
  <2>1. Len(d) \in Nat
    OBVIOUS
  <2>2. \A i \in 1..w : i =< Len(d)
    BY <1>5, <2>1
  <2> QED BY <1>3, <1>4, <1>5, <2>2 DEF Appended
<1>7. PICK more : more = Append(items, item)
  OBVIOUS
<1>8. /\ Len(more) = n + 1 /\ more[n + 1] = item
      /\ \A i \in 1..n : more[i] = items[i]
  BY <1>2, <1>7, AppendProperties
<1>9. PICK to : to = [i \in 1..(n + 1) + 1 |-> IF i = n + 2 THEN w + l ELSE at[i]]
  OBVIOUS
<1>10. /\ \A i \in 1..n + 1 : at[i] \in 0..w /\ to[i] = at[i]
       /\ to[n + 2] = w + l
  <2>1. \A i \in 1..n + 1 : at[i] \in 0..w
    BY <1>1, <1>2, <1>5 DEF Marks
  <2>2. \A i \in 1..n + 1 : i \in 1..(n + 1) + 1 /\ i # n + 2
    OBVIOUS
  <2>3. n + 2 \in 1..(n + 1) + 1
    OBVIOUS
  <2> QED BY <1>9, <2>1, <2>2, <2>3
<1>11. to \in [1..(n + 1) + 1 -> 0..w + l]
  <2>1. ASSUME NEW i \in 1..(n + 1) + 1 PROVE to[i] \in 0..w + l
    <3>1. CASE i = n + 2
      BY <1>10, <3>1
    <3>2. CASE i # n + 2
      <4>1. i \in 1..n + 1
        BY <3>2
      <4>2. PICK a \in 0..w : a = to[i]
        BY <1>10, <4>1
      <4> QED BY <4>2
    <3> QED BY <3>1, <3>2
  <2> QED BY <1>9, <2>1
<1>12. to[1] = r.rpos /\ to[(n + 1) + 1] = r.wpos
  <2>1. 1 \in 1..n + 1 /\ (n + 1) + 1 = n + 2
    OBVIOUS
  <2>2. at[1] = s.rpos
    BY <1>1 DEF Marks
  <2> QED BY <1>6, <1>10, <2>1, <2>2
<1>13. ASSUME NEW i \in 1..n + 1
       PROVE  to[i + 1] = to[i] + Len(Enc(more[i])) /\ At(r, more[i], to[i])
  <2>1. CASE i = n + 1
    <3>1. to[i] = w
      <4>1. at[n + 1] = w
        BY <1>1, <1>2, <1>5 DEF Marks
      <4> QED BY <1>10, <2>1, <4>1
    <3>2. i + 1 = n + 2
      BY <2>1
    <3>3. more[i] = item
      BY <1>8, <2>1
    <3> QED BY <1>3, <1>4, <1>6, <1>10, <3>1, <3>2, <3>3 DEF At
  <2>2. CASE i # n + 1
    <3>1. i \in 1..n /\ i + 1 \in 1..n + 1 /\ i \in 1..n + 1
      BY <2>2
    <3>2. more[i] = items[i] /\ items[i] \in Items
      BY <1>2, <1>8, <3>1
    <3>3. PICK x \in Seq(Byte) : x = Enc(items[i])
      BY <3>2, EncodingIs
    <3>4. PICK a, b \in Nat : a = at[i] /\ b = at[i + 1] /\ b =< w
      <4>1. at[i] \in 0..w /\ at[i + 1] \in 0..w
        BY <1>10, <3>1
      <4> QED BY <4>1
    <3>5. b = a + Len(x) /\ \A k \in 1..Len(x) : d[a + k] = x[k]
      <4>1. at[i + 1] = at[i] + Len(Enc(items[i])) /\ At(s, items[i], at[i])
        BY <1>1, <1>2, <3>1 DEF Marks
      <4> QED BY <1>5, <3>3, <3>4, <4>1 DEF At
    <3>6. \A k \in 1..Len(x) : r.data[a + k] = x[k]
      <4>1. Len(x) \in Nat
        OBVIOUS
      <4>2. \A k \in 1..Len(x) : a + k \in 1..w
        BY <3>4, <3>5, <4>1
      <4> QED BY <1>6, <3>5, <4>2
    <3> QED BY <1>10, <3>1, <3>2, <3>3, <3>4, <3>5, <3>6 DEF At
  <2> QED BY <2>1, <2>2
<1>14. Marks(r, more, to)
  BY <1>6, <1>8, <1>11, <1>12, <1>13 DEF Marks
<1> QED BY <1>7, <1>14 DEF Laid

\* Reading the first item leaves the others.
LEMMA LaidRead ==
  ASSUME NEW s, StreamOf(s, Byte), NEW items \in Seq(Items), Laid(s, items), items # <<>>,
         NEW l, l = Len(Enc(Head(items))), NEW r, r = ReadSkip(s, l)
  PROVE  s.rpos + l =< s.wpos /\ At(s, Head(items), s.rpos) /\ Laid(r, Tail(items))
<1>1. PICK at : Marks(s, items, at)
  BY DEF Laid
<1>2. PICK n \in Nat : n + 1 = Len(items)
  <2>1. Len(items) \in Nat \ {0}
    OBVIOUS
  <2>2. Len(items) - 1 \in Nat /\ (Len(items) - 1) + 1 = Len(items)
    BY <2>1
  <2> QED BY <2>2
<1>3. 1 \in 1..n + 1 /\ Head(items) = items[1] /\ items[1] \in Items
  BY <1>2
<1>4. l \in Nat
  BY <1>3, EncodingIs
<1>5. PICK p, w \in Nat : p = s.rpos /\ w = s.wpos
  BY DEF StreamOf
<1>6. at[1] = p /\ at[1 + 1] = p + l /\ At(s, items[1], p)
  BY <1>1, <1>2, <1>3, <1>5 DEF Marks
<1>7. \A i \in 1..(n + 1) + 1 : at[i] \in 0..w
  BY <1>1, <1>2, <1>5 DEF Marks
<1>8. p + l =< w
  <2>1. 1 + 1 \in 1..(n + 1) + 1
    OBVIOUS
  <2> QED BY <1>4, <1>6, <1>7, <2>1
<1>9. r.rpos = p + l /\ r.wpos = w /\ r.data = s.data
  BY <1>4, <1>5 DEF ReadSkip, StreamOf
<1>10. PICK rest : rest = Tail(items)
  OBVIOUS
<1>11. Len(rest) = n /\ \A i \in 1..n : rest[i] = items[i + 1]
  <2>1. Len(rest) = Len(items) - 1 /\ \A i \in 1..Len(items) - 1 : rest[i] = items[i + 1]
    BY <1>10, HeadTailProperties
  <2>2. Len(items) - 1 = n
    BY <1>2
  <2> QED BY <2>1, <2>2
<1>12. PICK to : to = [i \in 1..n + 1 |-> at[i + 1]]
  OBVIOUS
<1>13. \A i \in 1..n + 1 : to[i] = at[i + 1] /\ to[i] \in 0..w
  <2>1. \A i \in 1..n + 1 : i + 1 \in 1..(n + 1) + 1
    OBVIOUS
  <2> QED BY <1>7, <1>12, <2>1
<1>14. to \in [1..n + 1 -> 0..w]
  BY <1>12, <1>13
<1>15. to[1] = r.rpos /\ to[n + 1] = r.wpos
  <2>1. n + 1 \in 1..n + 1 /\ at[(n + 1) + 1] = w
    BY <1>1, <1>2, <1>5 DEF Marks
  <2> QED BY <1>3, <1>6, <1>9, <1>13, <2>1
<1>16. ASSUME NEW i \in 1..n
       PROVE  to[i + 1] = to[i] + Len(Enc(rest[i])) /\ At(r, rest[i], to[i])
  <2>1. PICK j \in 1..n + 1 : j = i + 1
    OBVIOUS
  <2>2. at[j + 1] = at[j] + Len(Enc(items[j])) /\ At(s, items[j], at[j])
    BY <1>1, <1>2 DEF Marks
  <2>3. rest[i] = items[j] /\ to[i] = at[j] /\ to[j] = at[j + 1]
    <3>1. i \in 1..n + 1
      OBVIOUS
    <3> QED BY <1>11, <1>13, <2>1, <3>1
  <2> QED BY <1>9, <2>1, <2>2, <2>3 DEF At
<1>17. Marks(r, rest, to)
  BY <1>9, <1>11, <1>14, <1>15, <1>16 DEF Marks
<1> QED BY <1>3, <1>5, <1>6, <1>8, <1>10, <1>17 DEF Laid

-----------------------------------------------------------------------------
(* Reading *)

\* >> goes no further than the write index.
LEMMA ReadTakes ==
  ASSUME NEW s, StreamOf(s, Byte), NEW t \in Types
  PROVE  ReadValue(s, t).cnt \in Nat /\ ReadValue(s, t).cnt =< Length(s)
<1>1. Length(s) \in Nat
  BY DEF StreamOf, Length
<1>2. CASE Text(t)
  <2>1. ReadValue(s, t).cnt = TextTaken(s)
    BY <1>2 DEF ReadValue, ReadText
  <2> QED BY <2>1, TakenIsThere
<1>3. CASE ~Text(t) /\ Width(t) > Length(s)
  <2>1. ReadValue(s, t).cnt = 0
    BY <1>3 DEF ReadValue
  <2> QED BY <1>1, <2>1
<1>4. CASE ~Text(t) /\ ~(Width(t) > Length(s))
  <2>1. ReadValue(s, t).cnt = Width(t)
    BY <1>4 DEF ReadValue
  <2> QED BY <1>1, <1>4, <2>1, WidthIs
<1> QED BY <1>2, <1>3, <1>4

\* An item that is Plain is read from its bytes, and all of them are taken.
LEMMA ReadIs ==
  ASSUME NEW s, StreamOf(s, Byte), NEW item \in Items, Plain(item), At(s, item, s.rpos),
         NEW l, l = Len(Enc(item)), s.rpos + l =< s.wpos
  PROVE  ReadValue(s, item[1]).value = AsRead(item) /\ ReadValue(s, item[1]).cnt = l
<1>1. PICK t \in Types : t = item[1]
  BY CodecAssumption
<1>2. PICK v \in Values(t) : v = item[2]
  BY <1>1, CodecAssumption
<1>3. PICK e \in Seq(Byte) : e = Enc(item)
  BY EncodingIs
<1>4. l \in Nat /\ l =< Length(s)
  BY <1>3 DEF StreamOf, Length
<1>5. e = Encoding(t, v) /\ Len(e) = l /\ \A k \in 1..l : s.data[s.rpos + k] = e[k]
  BY <1>1, <1>2, <1>3 DEF Enc, At
<1>6. t \notin {"u64", "i64"}
  BY <1>1 DEF Plain
<1>7. CASE Text(t)
  <2>1. v \in Seq(Byte)
    BY <1>7, TextBytes
  <2>2. e = Append(v, 0)
    BY <1>5, <1>7 DEF Encoding
  <2>3. l = Len(v) + 1
    BY <1>5, <2>1, <2>2, AppendProperties
  <2>4. \A k \in 1..Len(v) : ~EndsText(v[k])
    BY <1>1, <1>2, <1>7, <2>1 DEF Plain
  <2>5. /\ ReadText(s, t).cnt = Len(v) + 1
        /\ ReadText(s, t).value = IF t = "string" THEN Append(v, 0) ELSE v
    <3>1. Len(v) + 1 =< Length(s)
      BY <1>4, <2>3
    <3>2. \A k \in 1..Len(v) + 1 : s.data[s.rpos + k] = Append(v, 0)[k]
      BY <1>5, <2>2, <2>3
    <3> QED BY <2>1, <2>4, <3>1, <3>2, TextIs
  <2>6. ReadValue(s, t) = ReadText(s, t)
    BY <1>7 DEF ReadValue
  <2> QED BY <1>1, <1>2, <2>3, <2>5, <2>6 DEF AsRead
<1>8. CASE ~Text(t)
  <2>1. l = Width(t) /\ Number(t, e) = v
    BY <1>5, <1>6, <1>8, NumberIs
  <2>2. Peek(s, l) = e
    <3>1. PICK p : p = Peek(s, l)
      OBVIOUS
    <3>2. p \in Seq(Byte) /\ Len(p) = l /\ \A k \in 1..l : p[k] = s.data[s.rpos + k]
      BY <1>4, <3>1, PeekIs
    <3>3. \A k \in 1..Len(p) : p[k] = e[k]
      BY <1>5, <3>2
    <3> QED BY <1>5, <3>1, <3>2, <3>3, SeqEqual
  <2>3. Length(s) \in Nat
    BY DEF StreamOf, Length
  <2>4. ~(Width(t) > Length(s))
    BY <1>4, <2>1, <2>3
  <2>5. ReadValue(s, t) = [value |-> v, cnt |-> l]
    BY <1>8, <2>1, <2>2, <2>4 DEF ReadValue
  <2>6. AsRead(item) = v
    BY <1>1, <1>2, <1>8 DEF AsRead, Text
  <2> QED BY <1>1, <2>5, <2>6
<1> QED BY <1>7, <1>8

-----------------------------------------------------------------------------
(* The invariant *)

\* The indexes are in order, and unless something was skewed the unread bytes
\* are those of the unread items.
Inv ==
  /\ StreamOf(stream, Byte)
  /\ pending \in Seq(Items)
  /\ skewed \in BOOLEAN
  /\ skewed \/ Laid(stream, pending)
  /\ ReadsBack

\* It holds at the start ...
LEMMA InitInv == Init => Inv
<1> SUFFICES ASSUME Init PROVE Inv
  OBVIOUS
<1>1. PICK s : s = EmptyStream
  OBVIOUS
<1>2. StreamOf(s, Byte) /\ s.rpos = s.wpos
  BY <1>1 DEF EmptyStream, StreamOf
<1>3. Laid(s, <<>>)
  BY <1>2, LaidNone
<1>4. <<>> \in Seq(Items)
  OBVIOUS
<1>5. ReadsBack
  BY DEF Init, ReadsBack
<1> QED BY <1>1, <1>2, <1>3, <1>4, <1>5 DEF Init, Inv

\* ... and every step keeps it.
LEMMA StepInv == Inv /\ [Next]_vars => Inv'
<1> SUFFICES ASSUME Inv, [Next]_vars PROVE Inv'
  OBVIOUS
<1>1. StreamOf(stream, Byte) /\ pending \in Seq(Items) /\ (skewed \/ Laid(stream, pending)) /\ ReadsBack
  BY DEF Inv
<1>2. PICK s : s = stream
  OBVIOUS
<1>3. /\ s \in [data : Seq(Byte), rpos : Nat, wpos : Nat] /\ s.data \in Seq(Byte) /\ Len(s.data) \in Nat
      /\ s.rpos \in Nat /\ s.wpos \in Nat /\ s.rpos =< s.wpos /\ s.wpos =< Len(s.data)
  BY <1>1, <1>2 DEF StreamOf
<1>4. ASSUME NEW item \in Items, Write(item) PROVE Inv'
  <2>1. PICK r : r = AppendBytes(s, Enc(item))
    OBVIOUS
  <2>2. stream' = r /\ pending' = Append(pending, item) /\ got' = got /\ skewed' = skewed
    BY <1>2, <1>4, <2>1 DEF Write, Enc
  <2>3. Appended(r, s, Enc(item), Byte)
    <3>1. 0 \in Byte
      BY CodecAssumption DEF Byte
    <3> QED BY <1>3, <2>1, <3>1, EncodingIs, AppendBytesIs
  <2>4. StreamOf(r, Byte)
    <3>1. PICK l \in Nat : l = Len(Enc(item))
      BY EncodingIs
    <3> QED BY <1>3, <2>3, <3>1 DEF Appended, StreamOf
  <2>5. pending' \in Seq(Items)
    BY <1>1, <2>2
  <2>6. skewed' \/ Laid(stream', pending')
    BY <1>1, <1>2, <2>2, <2>3, LaidWrite
  <2>7. ReadsBack'
    BY <1>1, <2>2 DEF ReadsBack
  <2> QED BY <2>2, <2>4, <2>5, <2>6, <2>7 DEF Inv
<1>5. ASSUME Read PROVE Inv'
  <2>1. pending # <<>> /\ pending' = Tail(pending)
    BY <1>5 DEF Read
  <2>2. PICK item \in Items : item = Head(pending)
    BY <1>1, <2>1
  <2>3. PICK t \in Types : t = item[1]
    BY CodecAssumption
  <2>4. PICK c \in Nat : c = ReadValue(s, t).cnt /\ c =< Length(s)
    BY <1>1, <1>2, ReadTakes
  <2>5. PICK r : r = ReadSkip(s, c)
    OBVIOUS
  <2>6. /\ stream' = r /\ got' = [item |-> item, value |-> ReadValue(s, t).value]
        /\ skewed' = (skewed \/ ~Plain(item))
    BY <1>2, <1>5, <2>2, <2>3, <2>4, <2>5 DEF Read
  <2>7. StreamOf(r, Byte)
    <3>1. s.rpos + c =< s.wpos
      BY <1>3, <2>4 DEF Length
    <3> QED BY <1>3, <2>5, <3>1 DEF ReadSkip, StreamOf
  <2>8. pending' \in Seq(Items)
    BY <1>1, <2>1
  <2>9. skewed' \/ (Laid(r, pending') /\ got'.value = AsRead(got'.item))
    <3>1. SUFFICES ASSUME ~skewed' PROVE Laid(r, pending') /\ got'.value = AsRead(got'.item)
      OBVIOUS
    <3>2. ~skewed /\ Plain(item)
      BY <2>6, <3>1
    <3>3. Laid(s, pending)
      BY <1>1, <1>2, <3>2
    <3>4. PICK l : l = Len(Enc(item))
      OBVIOUS
    <3>5. s.rpos + l =< s.wpos /\ At(s, item, s.rpos) /\ Laid(ReadSkip(s, l), Tail(pending))
      BY <1>1, <1>2, <2>1, <2>2, <3>3, <3>4, LaidRead
    <3>6. ReadValue(s, t).value = AsRead(item) /\ c = l
      BY <1>1, <1>2, <2>3, <2>4, <3>2, <3>4, <3>5, ReadIs
    <3> QED BY <2>1, <2>5, <2>6, <3>5, <3>6
  <2>10. ReadsBack' /\ (skewed' \/ Laid(stream', pending')) /\ skewed' \in BOOLEAN
    BY <2>6, <2>9 DEF ReadsBack
  <2> QED BY <2>6, <2>7, <2>8, <2>10 DEF Inv
<1>6. ASSUME NEW clearData \in BOOLEAN, ClearStream(clearData) PROVE Inv'
  <2>1. PICK r : r = Clear(s, clearData)
    OBVIOUS
  <2>2. stream' = r /\ pending' = <<>> /\ got' = Nothing /\ skewed' = FALSE
    BY <1>2, <1>6, <2>1 DEF ClearStream
  <2>3. StreamOf(r, Byte) /\ r.rpos = r.wpos
    <3>1. PICK d \in Seq(Byte) : d = IF clearData THEN <<>> ELSE s.data
      <4>1. (IF clearData THEN <<>> ELSE s.data) \in Seq(Byte)
        <5>1. CASE clearData
          BY <5>1
        <5>2. CASE ~clearData
          BY <1>3, <5>2
        <5> QED BY <5>1, <5>2
      <4> QED BY <4>1
    <3>2. r = [data |-> d, rpos |-> 0, wpos |-> 0]
      BY <2>1, <3>1 DEF Clear
    <3> QED BY <3>2 DEF StreamOf
  <2>4. Laid(r, <<>>)
    BY <2>3, LaidNone
  <2>5. <<>> \in Seq(Items)
    OBVIOUS
  <2>6. ReadsBack'
    BY <2>2 DEF ReadsBack
  <2> QED BY <2>2, <2>3, <2>4, <2>5, <2>6 DEF Inv
<1>7. ASSUME Done PROVE Inv'
  <2>1. PICK r : r = ReadSkip(s, Length(s))
    OBVIOUS
  <2>2. stream' = r /\ pending' = <<>> /\ got' = Nothing /\ skewed' = FALSE
    BY <1>2, <1>7, <2>1 DEF Done
  <2>3. StreamOf(r, Byte) /\ r.rpos = r.wpos
    <3>1. s.rpos + Length(s) = s.wpos
      BY <1>3 DEF Length
    <3> QED BY <1>3, <2>1, <3>1 DEF ReadSkip, StreamOf
  <2>4. Laid(r, <<>>)
    BY <2>3, LaidNone
  <2>5. <<>> \in Seq(Items)
    OBVIOUS
  <2>6. ReadsBack'
    BY <2>2 DEF ReadsBack
  <2> QED BY <2>2, <2>3, <2>4, <2>5, <2>6 DEF Inv
<1>8. ASSUME UNCHANGED vars PROVE Inv'
  <2>1. stream' = stream /\ pending' = pending /\ got' = got /\ skewed' = skewed
    BY <1>8 DEF vars
  <2> QED BY <2>1 DEF Inv, ReadsBack
<1> QED BY <1>4, <1>5, <1>6, <1>7, <1>8 DEF Next

\* It holds in every state.
LEMMA Invariant == Spec => []Inv
BY InitInv, StepInv, PTL DEF Spec

\* Whatever is written, read and cleared before, a value comes back as it was
\* written, unless a 64 bit integer or a text with an end inside was read since
\* the stream was last emptied.
THEOREM ReadsBackThm == Spec => []ReadsBack
<1>1. Inv => ReadsBack
  BY DEF Inv
<1> QED BY <1>1, Invariant, PTL

\* The indexes stay in order and within the vector, and the stream has unread
\* bytes exactly while values are unread.
THEOREM IndexesThm == Spec => []IndexesAgree
<1>1. Inv => IndexesAgree
  <2> SUFFICES ASSUME Inv PROVE IndexesAgree
    OBVIOUS
  <2>1. stream.rpos =< stream.wpos /\ stream.wpos =< Size(stream)
    BY DEF Inv, StreamOf, Size
  <2>2. skewed \/ (pending = <<>>) = (Length(stream) = 0)
    BY LaidSome DEF Inv
  <2> QED BY <2>1, <2>2 DEF IndexesAgree
<1> QED BY <1>1, Invariant, PTL
=============================================================================
