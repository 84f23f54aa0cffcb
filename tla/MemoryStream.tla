---------------------------- MODULE MemoryStream ----------------------------
(***************************************************************************)
(* libs/common/memorystream: a byte buffer with a read and a write index.  *)
(* A stream is a record                                                    *)
(*   data        the bytes of the vector data_ (its size(), not what it    *)
(*               reserved)                                                 *)
(*   rpos, wpos  the two indexes, from 0                                   *)
(* and each method is an operator that returns the stream it leaves.       *)
(* A byte is a number below Base (256 in the program).                     *)
(***************************************************************************)
EXTENDS Integers, Sequences

\* MemoryStream(res): res only reserves
EmptyStream == [data |-> <<>>, rpos |-> 0, wpos |-> 0]

Size(s)   == Len(s.data)
Length(s) == IF s.rpos >= s.wpos THEN 0 ELSE s.wpos - s.rpos
Space(s)  == IF s.wpos >= Size(s) THEN 0 ELSE Size(s) - s.wpos

\* std::vector::resize: new bytes are 0
VectorResize(data, n) == [i \in 1..n |-> IF i =< Len(data) THEN data[i] ELSE 0]

\* clear(clearData)
Clear(s, clearData) ==
  [data |-> IF clearData THEN <<>> ELSE s.data, rpos |-> 0, wpos |-> 0]

\* data_resize(n): the read index stays
DataResize(s, n) ==
  [s EXCEPT !.data = VectorResize(s.data, n), !.wpos = IF @ > n THEN n ELSE @]

\* memcpy to data() + pos: what falls behind size() is not part of the vector
\* (the vector's reserve is written, and a later resize sets it to 0)
Memcpy(data, pos, bytes) ==
  [i \in 1..Len(data) |-> IF i > pos /\ i =< pos + Len(bytes) THEN bytes[i - pos] ELSE data[i]]

\* mutant: append always writes at the end of the vector
AppendAtEnd(s, bytes) ==
  [s EXCEPT !.data = @ \o bytes, !.wpos = @ + Len(bytes)]

\* append(value, cnt)
AppendBytes(s, bytes) ==
  LET end  == s.wpos + Len(bytes)
      room == IF Size(s) < end THEN VectorResize(s.data, end) ELSE s.data
  IN  [s EXCEPT !.data = Memcpy(room, s.wpos, bytes), !.wpos = end]

\* read(value, cnt) and read_skip(cnt): they throw when cnt > Length(s)
Peek(s, cnt) == SubSeq(s.data, s.rpos + 1, s.rpos + cnt)
ReadSkip(s, cnt) == [s EXCEPT !.rpos = @ + cnt]

\* htobe and betoh: the w bytes of a number, most significant first
Power(base, e) == LET p[k \in 0..e] == IF k = 0 THEN 1 ELSE base * p[k - 1] IN p[e]
BigEndian(n, w, base) == [i \in 1..w |-> (n \div Power(base, w - i)) % base]
FromBigEndian(bytes, base) ==
  LET v[k \in 0..Len(bytes)] == IF k = 0 THEN 0 ELSE base * v[k - 1] + bytes[k]
  IN  v[Len(bytes)]
=============================================================================
