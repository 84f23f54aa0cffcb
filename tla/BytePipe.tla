------------------------------ MODULE BytePipe ------------------------------
(***************************************************************************)
(* What one direction of a connection promises to those at its two ends:   *)
(* the bytes that went in come out in the same order, each at most once    *)
(* and none left out, until the pipe is closed; then nothing goes in and   *)
(* nothing comes out any more.  Bytes are numbered in the order in which   *)
(* they went in.                                                           *)
(*                                                                         *)
(* Channel implements this specification twice: from send() to the wire,   *)
(* and from recv() to the reader of messages.                              *)
(***************************************************************************)
EXTENDS Naturals, Sequences

VARIABLES
  in,       \* how many bytes went in
  out,      \* the bytes that came out
  closed

vars == <<in, out, closed>>

\* the bytes 1, 2, ... n
First(n) == [k \in 1..n |-> k]

Init == in = 0 /\ out = <<>> /\ closed = FALSE

Write ==
  /\ ~closed
  /\ in' \in Nat /\ in' >= in
  /\ UNCHANGED out

Deliver ==
  /\ ~closed
  /\ \E n \in Len(out)..in : out' = First(n)
  /\ UNCHANGED in

\* closing may come with the last bytes
MayClose == closed' \in BOOLEAN /\ (closed => closed')

Next == (Write \/ Deliver \/ UNCHANGED <<in, out>>) /\ MayClose

Spec == Init /\ [][Next]_vars
=============================================================================
