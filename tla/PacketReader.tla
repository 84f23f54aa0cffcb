---------------------------- MODULE PacketReader ----------------------------
(***************************************************************************)
(* libs/network/packet_reader: cuts the bytes of a TCP connection back     *)
(* into messages.  A message is a two byte length, which counts itself,    *)
(* and a body.  The network hands the bytes over in packets that begin and *)
(* end anywhere; each round of processMessages's loop is a step.           *)
(*                                                                         *)
(* Base is the number of values of a byte (256), so that lengths up to     *)
(* Base^2 - 1 exist and both bytes of a length count.                      *)
(***************************************************************************)
EXTENDS MemoryStream, SequencesExt

CONSTANTS
  Base,         \* values of a byte
  PacketSize,   \* 200: size of a fresh Packet
  Bodies,       \* bodies the peer sends
  MaxMessages   \* bound: messages the peer sends

ASSUME ReaderAssumption ==
  /\ Base \in Nat \ {0, 1} /\ PacketSize \in Nat \ {0} /\ MaxMessages \in Nat
  /\ \A b \in Bodies : b \in Seq(0..Base - 1) /\ Len(b) + 2 < Base * Base

VARIABLES
  sent,         \* history: the bodies the peer sent
  wire,         \* bytes on their way
  pPacket,      \* the unread bytes of the packet being processed
  currPacket,   \* a stream: the message being put together
  fragmentDatasFlag_,
  busy,         \* processMessages runs
  cut,          \* history: the messages with a packet's end between the bytes of their length
  handled       \* history: what each call of handle could read

vars == <<sent, wire, pPacket, currPacket, fragmentDatasFlag_, busy, cut, handled>>

Init ==
  /\ sent = <<>> /\ wire = <<>> /\ pPacket = <<>> /\ handled = <<>> /\ busy = FALSE /\ cut = {}
  /\ currPacket = [EmptyStream EXCEPT !.data = VectorResize(<<>>, PacketSize)]
  /\ fragmentDatasFlag_ = "UNKNOW"

\* the peer writes a message
Encode(b) == BigEndian(Len(b) + 2, 2, Base) \o b

PeerSends(b) ==
  /\ Len(sent) < MaxMessages
  /\ sent' = Append(sent, b)
  /\ wire' = wire \o Encode(b)
  /\ UNCHANGED <<pPacket, currPacket, fragmentDatasFlag_, busy, cut, handled>>

\* where the bytes of each message end in the stream
Ends(messages) ==
  LET end[n \in 0..Len(messages)] == IF n = 0 THEN 0 ELSE end[n - 1] + 2 + Len(messages[n])
  IN  end
EndOf(n) == Ends(sent)[n]
Taken == EndOf(Len(sent)) - Len(wire)

\* a packet with the next n bytes arrives and processMessages is called
Receive(n) ==
  /\ ~busy /\ n =< Len(wire)
  /\ pPacket' = SubSeq(wire, 1, n)
  /\ wire' = SubSeq(wire, n + 1, Len(wire))
  /\ busy' = TRUE
  /\ cut' = cut \cup {m \in DOMAIN sent : Taken + n = EndOf(m - 1) + 1}
  /\ UNCHANGED <<sent, currPacket, fragmentDatasFlag_, handled>>

-----------------------------------------------------------------------------
\* the stream that writeFragmentMessage leaves: n bytes copied from packet p
WriteFragment(s, p, n) ==
  [s EXCEPT !.data = Memcpy(@, s.wpos, SubSeq(p, 1, n)), !.wpos = @ + n]

Drop(p, n) == SubSeq(p, n + 1, Len(p))

\* the size that a length announces, an uint16_t, and the room made for it
\* mutant: the length's own two bytes are counted as body
BodySizeWhole(bytes) == FromBigEndian(bytes, Base)
BodySize(bytes) == (FromBigEndian(bytes, Base) - 2) % (Base * Base)

MakeRoom(s, bytes) == [DataResize(s, BodySize(bytes)) EXCEPT !.wpos = 0]

\* mutant: a body that ends with its packet is taken for incomplete
FinishLate(s, p) ==
  IF Len(p) =< Space(s)
  THEN /\ currPacket' = WriteFragment(s, p, Len(p))
       /\ fragmentDatasFlag_' = "BODY"
       /\ pPacket' = <<>> /\ busy' = FALSE /\ UNCHANGED handled
  ELSE LET m == WriteFragment(s, p, Space(s))
       IN  /\ handled' = Append(handled, Peek(m, Length(m)))
           /\ currPacket' = Clear(m, FALSE) /\ fragmentDatasFlag_' = "UNKNOW"
           /\ pPacket' = Drop(p, Space(s))
           /\ UNCHANGED busy

\* mutant: a body that is not complete is handed over
FinishEarly(s, p) ==
  LET n == IF Len(p) < Space(s) THEN Len(p) ELSE Space(s)
      m == WriteFragment(s, p, n)
  IN  /\ handled' = Append(handled, Peek(m, Length(m)))
      /\ currPacket' = Clear(m, FALSE) /\ fragmentDatasFlag_' = "UNKNOW"
      /\ pPacket' = Drop(p, n)
      /\ UNCHANGED busy

\* the second half of the loop's body: wait for more, or handle the message and
\* reset()
Finish(s, p) ==
  IF Len(p) < Space(s)
  THEN /\ currPacket' = WriteFragment(s, p, Len(p))
       /\ fragmentDatasFlag_' = "BODY"
       /\ pPacket' = <<>> /\ busy' = FALSE /\ UNCHANGED handled
  ELSE LET m == WriteFragment(s, p, Space(s))
       IN  /\ handled' = Append(handled, Peek(m, Length(m)))
           /\ currPacket' = Clear(m, FALSE) /\ fragmentDatasFlag_' = "UNKNOW"
           /\ pPacket' = Drop(p, Space(s))
           /\ UNCHANGED busy

Round == busy /\ pPacket # <<>> /\ UNCHANGED <<sent, wire, cut>>

\* mutant: the flag is not set, so the next packet is read as a new length
LengthSplitForgotten ==
  /\ Round /\ fragmentDatasFlag_ = "UNKNOW" /\ Len(pPacket) < 2
  /\ currPacket' = WriteFragment(currPacket, pPacket, Len(pPacket))
  /\ pPacket' = <<>> /\ busy' = FALSE /\ UNCHANGED <<fragmentDatasFlag_, handled>>

\* only one byte of the length is there
LengthSplit ==
  /\ Round /\ fragmentDatasFlag_ = "UNKNOW" /\ Len(pPacket) < 2
  /\ currPacket' = WriteFragment(currPacket, pPacket, Len(pPacket))
  /\ fragmentDatasFlag_' = "LENGTH"
  /\ pPacket' = <<>> /\ busy' = FALSE /\ UNCHANGED handled

LengthRead ==
  /\ Round /\ fragmentDatasFlag_ = "UNKNOW" /\ Len(pPacket) >= 2
  /\ Finish(MakeRoom(currPacket, SubSeq(pPacket, 1, 2)), Drop(pPacket, 2))

\* the second byte: append and read the length from currPacket, whose read index
\* is not reset
LengthCompleted ==
  /\ Round /\ fragmentDatasFlag_ = "LENGTH"
  /\ LET s == AppendBytes(currPacket, SubSeq(pPacket, 1, 1))
     IN  Finish(MakeRoom(ReadSkip(s, 2), Peek(s, 2)), Drop(pPacket, 1))

BodyContinued ==
  /\ Round /\ fragmentDatasFlag_ = "BODY"
  /\ Finish(currPacket, pPacket)

\* the packet is used up
Return ==
  /\ busy /\ pPacket = <<>> /\ busy' = FALSE
  /\ UNCHANGED <<sent, wire, pPacket, currPacket, fragmentDatasFlag_, cut, handled>>

processMessages == LengthSplit \/ LengthRead \/ LengthCompleted \/ BodyContinued \/ Return

Next ==
  \/ \E b \in Bodies : PeerSends(b)
  \/ \E n \in 1..Len(wire) : Receive(n)
  \/ processMessages

Spec == Init /\ [][Next]_vars

\* the loop of processMessages runs; the network delivers what was sent
FairSpec == Spec /\ WF_vars(processMessages) /\ WF_vars(\E n \in 1..Len(wire) : Receive(n))

-----------------------------------------------------------------------------
\* Types; the write index passes the end of the bytes only by the first byte of a
\* length, after an empty message.
TypeOK ==
  /\ fragmentDatasFlag_ \in {"UNKNOW", "LENGTH", "BODY"} /\ busy \in BOOLEAN
  /\ cut \subseteq DOMAIN sent
  /\ currPacket.rpos \in 0..2 /\ currPacket.wpos \in Nat
  /\ Range(pPacket) \cup Range(currPacket.data) \subseteq 0..Base - 1
  /\ currPacket.wpos > Size(currPacket) =>
       currPacket.wpos = 1 /\ fragmentDatasFlag_ = "LENGTH"

\* The messages whose last byte processMessages has taken.
Complete == {n \in 1..Len(sent) : EndOf(n) =< Taken - Len(pPacket)}

\* After an empty message currPacket has no bytes, so the first byte of a length that
\* is cut is written behind its end and read back as 0 (packet_reader.cpp:87): when
\* it was not 0 the reader has lost its place for good.
PlaceLost == \E n \in cut : n > 1 /\ sent[n - 1] = <<>> /\ Encode(sent[n])[1] # 0

\* Each message is handled as soon as its last byte was taken, and nothing else is,
\* however the stream is cut: the reader keeps its place, but for PlaceLost.
FramingKept == PlaceLost \/ Len(handled) = Cardinality(Complete)

\* Messages are handled in the order sent, each from its first byte to its last,
\* except that one whose length was cut is handed over with its read index behind
\* its first two bytes (packet_reader.cpp:53).
HandledFromIndex ==
  PlaceLost \/ \A n \in DOMAIN handled :
    /\ n \in DOMAIN sent
    /\ handled[n] = IF n \in cut THEN SubSeq(sent[n], 3, Len(sent[n])) ELSE sent[n]

\* What is sent is handled, as long as the reader keeps its place.
AllHandled ==
  \A n \in 1..MaxMessages : Len(sent) >= n ~> (Len(handled) >= n \/ PlaceLost)

(* What the sources say and the code does not do *)

\* packet_reader.h:17: the packets are put together into whole messages, which are
\* handled: each body, in the order sent.
WholeMessages == IsPrefix(handled, sent)
=============================================================================
