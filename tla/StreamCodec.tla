---------------------------- MODULE StreamCodec -----------------------------
(***************************************************************************)
(* libs/common/memorystream: the overloads of << and >>.  A program writes *)
(* values of several types into one MemoryStream, reads them back in the   *)
(* order it wrote them, and clears the stream between uses.                *)
(*                                                                         *)
(* A byte has Base values (256), so an integer of w bytes is in            *)
(* 0..Base^w - 1, a signed one in two's complement.  float and double      *)
(* travel as their bits.  Base and the character range shrink together:    *)
(* the ASCII characters are the bytes up to AsciiMax, 0 ends a string.     *)
(***************************************************************************)
EXTENDS MemoryStream

CONSTANTS
  Base, AsciiMax,
  Items,       \* the values a program writes: pairs <<type, value>>
  MaxItems     \* bound: values written

Types == {"u8", "i8", "bool", "u16", "i16", "u32", "i32", "float", "u64", "i64", "double",
          "string", "char*"}
Width(t) ==
  CASE t \in {"u8", "i8", "bool"}         -> 1
    [] t \in {"u16", "i16"}               -> 2
    [] t \in {"u32", "i32", "float"}      -> 4
    [] t \in {"u64", "i64", "double"}     -> 8
Signed(t) == t \in {"i8", "i16", "i32", "i64"}
Text(t)   == t \in {"string", "char*"}

\* the values of a type; a char* ends at its first 0, a string may have one inside
Values(t) ==
  LET all == Power(Base, Width(t))
  IN  IF t = "bool" THEN {0, 1}
      ELSE IF t = "string" THEN Seq(0..Base - 1)
      ELSE IF t = "char*" THEN Seq(1..Base - 1)
      ELSE IF Signed(t) THEN {v \in -all..all : -all =< 2 * v /\ 2 * v < all}
      ELSE 0..all - 1

ASSUME CodecAssumption ==
  /\ Base \in Nat \ {0, 1} /\ AsciiMax \in 0..Base - 1
  /\ MaxItems \in Nat
  /\ \A item \in Items : item = <<item[1], item[2]>> /\ item[1] \in Types /\ item[2] \in Values(item[1])

VARIABLES
  stream,      \* the MemoryStream
  pending,     \* the items written and not yet read
  got,         \* the last value read, with the item it was read for
  writes,      \* values written so far
  skewed       \* history: an item that is not Plain was read, and the stream not emptied since

vars == <<stream, pending, got, writes, skewed>>

Nothing == [item |-> <<>>, value |-> <<>>]
Thrown  == "out_of_range"

\* characters that end a text
EndsText(c) == c = 0 \/ c > AsciiMax

\* items that leave the stream as long as they entered it: all but the 64 bit
\* integers and the texts that a character inside ends
Plain(item) ==
  /\ item[1] \notin {"u64", "i64"}
  /\ Text(item[1]) => \A k \in DOMAIN item[2] : ~EndsText(item[2][k])

Init == stream = EmptyStream /\ pending = <<>> /\ got = Nothing /\ writes = 0 /\ skewed = FALSE

-----------------------------------------------------------------------------
(* operator<< *)

\* the bits of a number: reinterpreted as unsigned
Bits(t, v) == v % Power(Base, Width(t))

\* what << appends: big endian, except that the 64 bit integers pass through an
\* uint32_t, which keeps the first four bytes on a little endian machine
Encoding(t, v) ==
  IF Text(t) THEN Append(v, 0)
  ELSE IF t \in {"u64", "i64"} THEN SubSeq(BigEndian(Bits(t, v), 8, Base), 1, 4)
  ELSE BigEndian(Bits(t, v), Width(t), Base)

Write(item) ==
  /\ writes < MaxItems /\ writes' = writes + 1
  /\ stream' = AppendBytes(stream, Encoding(item[1], item[2]))
  /\ pending' = Append(pending, item)
  /\ UNCHANGED <<got, skewed>>

-----------------------------------------------------------------------------
(* operator>> *)

Number(t, bytes) ==
  LET n == FromBigEndian(bytes, Base)
  IN  IF t = "bool" THEN IF n = 1 THEN 1 ELSE 0
      ELSE IF Signed(t) /\ 2 * n >= Power(Base, Width(t)) THEN n - Power(Base, Width(t))
      ELSE n

\* mutant: the end of the text is not taken from the stream
TextTakenShort(s) ==
  LET n == Length(s)
      ends == {k \in 1..n : EndsText(Peek(s, n)[k])}
  IN  IF ends = {} THEN n ELSE (CHOOSE k \in ends : \A j \in ends : k =< j) - 1
\* how many bytes >> takes for a text, its end included
TextTaken(s) ==
  LET n == Length(s)
      ends == {k \in 1..n : EndsText(Peek(s, n)[k])}
  IN  IF ends = {} THEN n ELSE CHOOSE k \in ends : \A j \in ends : k =< j

ReadText(s, t) ==
  LET taken == Peek(s, TextTaken(s))
      chars == IF taken # <<>> /\ EndsText(taken[Len(taken)])
               THEN SubSeq(taken, 1, Len(taken) - 1) ELSE taken
  IN  [value |-> IF t = "string" THEN Append(chars, 0) ELSE chars, cnt |-> TextTaken(s)]

\* >> of a type: what it returns and how far the read index goes; a number throws
\* when too few bytes are left
ReadValue(s, t) ==
  IF Text(t) THEN ReadText(s, t)
  ELSE IF Width(t) > Length(s) THEN [value |-> Thrown, cnt |-> 0]
  ELSE [value |-> Number(t, Peek(s, Width(t))), cnt |-> Width(t)]

\* >> of the type that was written
Read ==
  /\ pending # <<>> /\ pending' = Tail(pending)
  /\ LET r == ReadValue(stream, Head(pending)[1])
     IN  /\ got' = [item |-> Head(pending), value |-> r.value]
         /\ stream' = ReadSkip(stream, r.cnt)
  /\ skewed' = (skewed \/ ~Plain(Head(pending)))
  /\ UNCHANGED writes

-----------------------------------------------------------------------------
\* clear(clearData)
ClearStream(clearData) ==
  /\ stream' = Clear(stream, clearData)
  /\ pending' = <<>> /\ got' = Nothing /\ skewed' = FALSE /\ UNCHANGED writes

\* done(): the rest is skipped
Done ==
  /\ pending' = <<>> /\ got' = Nothing /\ skewed' = FALSE
  /\ stream' = ReadSkip(stream, Length(stream))
  /\ UNCHANGED writes

Next ==
  \/ \E item \in Items : Write(item)
  \/ Read \/ Done \/ \E clearData \in BOOLEAN : ClearStream(clearData)

Spec == Init /\ [][Next]_vars

-----------------------------------------------------------------------------
\* A std::string comes back with a 0 at its end (memorystream.cpp:223).
AsRead(item) == IF item[1] = "string" THEN Append(item[2], 0) ELSE item[2]

\* Every value comes back as it was written, whatever was written, read and
\* cleared before: no value is cut, shifted, or mixed with bytes of an earlier
\* use of the stream.  Only an item that is not Plain is read as something else,
\* and only what is read behind it is wrong then.
ReadsBack == skewed \/ got = Nothing \/ got.value = AsRead(got.item)

\* The unread bytes are those of the unread values: none are left when all were read.
IndexesAgree ==
  /\ stream.rpos =< stream.wpos /\ stream.wpos =< Size(stream)
  /\ skewed \/ (pending = <<>>) = (Length(stream) = 0)
=============================================================================
