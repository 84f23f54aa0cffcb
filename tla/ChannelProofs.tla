--------------------------- MODULE ChannelProofs ---------------------------
(***************************************************************************)
(* Theorems about Channel, for packets of any lengths, any thresholds and  *)
(* any number of bytes from the peer: both directions implement BytePipe.  *)
(***************************************************************************)
EXTENDS Channel, TLAPS, SequenceTheorems

Bundle == [at : Nat, len : Nat, sent : Nat]

QueueTyped == bundles_ \in Seq(Bundle) /\ \A k \in 1..Len(bundles_) : bundles_[k].sent =< bundles_[k].len

Typing ==
  /\ flags_ \subseteq Flags /\ endPoint \in BOOLEAN
  /\ QueueTyped
  /\ accepted \in Nat /\ sends \in Nat
  /\ lastTickBytesSent_ \in Nat /\ lastTickBytesReceived_ \in Nat /\ sendfailCount_ \in Nat
  /\ index \in Nat \ {0}
  /\ bufferedReceives_ \in Seq(Nat \X Nat)
  /\ nread \in Nat /\ inbox \in Nat /\ served \in Nat \ {0}
  /\ nread + inbox =< PeerBytes /\ eof \in BOOLEAN
  /\ pc \in {"new", "loop", "send", "recv", "tick", "handler"}
  /\ caller \in {"loop", "handler"}
  /\ fault \in {"none", "null", "assert"}

\* At first nothing is open, sent or queued.
LEMMA InitTyped == Init => Typing
<1> SUFFICES ASSUME Init PROVE Typing
  OBVIOUS
<1>1. bundles_ = <<>> /\ bufferedReceives_ = <<>> BY DEF Init
<1>2. QueueTyped BY <1>1 DEF QueueTyped
<1>3. bufferedReceives_ \in Seq(Nat \X Nat) BY <1>1
<1>4. nread = 0 /\ inbox = 0 /\ eof = FALSE BY DEF Init
<1>5. nread + inbox =< PeerBytes BY <1>4, ChannelAssumption
<1>6. flags_ \subseteq Flags /\ endPoint \in BOOLEAN /\ eof \in BOOLEAN BY DEF Init
<1> QED BY <1>2, <1>3, <1>4, <1>5, <1>6 DEF Init, Typing

\* Condemning adds FLAG_CONDEMN and takes nothing away.
LEMMA CondemnedIs ==
  ASSUME NEW f \in SUBSET Flags, NEW c
  PROVE  /\ Condemned(f, c) \in SUBSET Flags
         /\ "CONDEMN" \in f => "CONDEMN" \in Condemned(f, c)
         /\ c => "CONDEMN" \in Condemned(f, c)
BY DEF Condemned, Flags

\* What clearState leaves of the flags.
LEMMA StopsAre ==
  ASSUME NEW f \in SUBSET Flags, NEW e
  PROVE  /\ StopSend(f, e).flags \in SUBSET Flags
         /\ "CONDEMN" \in f <=> "CONDEMN" \in StopSend(f, e).flags
         /\ StopRecv(f, e).flags \in SUBSET Flags
         /\ "CONDEMN" \in f <=> "CONDEMN" \in StopRecv(f, e).flags
BY DEF StopSend, StopRecv, Flags

\* The rest of a queue of packets is one.
LEMMA RestTyped ==
  ASSUME NEW q \in Seq(Bundle), index \in Nat \ {0}, index =< Len(q),
         \A k \in 1..Len(q) : q[k].sent =< q[k].len
  PROVE  /\ Rest(q) \in Seq(Bundle) /\ Len(Rest(q)) = Len(q) - index + 1
         /\ \A k \in 1..Len(Rest(q)) : Rest(q)[k] = q[k + index - 1]
         /\ \A k \in 1..Len(Rest(q)) : Rest(q)[k].sent =< Rest(q)[k].len
<1>1. Rest(q) \in Seq(Bundle) /\ Len(Rest(q)) = Len(q) - index + 1
  BY SubSeqProperties DEF Rest
<1>2. ASSUME NEW k \in 1..Len(Rest(q))
      PROVE  Rest(q)[k] = q[k + index - 1] /\ k + index - 1 \in 1..Len(q)
  BY <1>1 DEF Rest
<1> QED BY <1>1, <1>2

\* Sending n more bytes of packet `index' keeps the queue one of packets.
LEMMA AdvancedTyped ==
  ASSUME QueueTyped, index \in Nat \ {0}, index =< Len(bundles_),
         NEW n \in Nat, n =< bundles_[index].len - bundles_[index].sent
  PROVE  /\ Advanced(n) \in Seq(Bundle) /\ Len(Advanced(n)) = Len(bundles_)
         /\ \A k \in 1..Len(bundles_) : k # index => Advanced(n)[k] = bundles_[k]
         /\ Advanced(n)[index].at = bundles_[index].at
         /\ Advanced(n)[index].len = bundles_[index].len
         /\ Advanced(n)[index].sent = bundles_[index].sent + n
         /\ \A k \in 1..Len(bundles_) : Advanced(n)[k].sent =< Advanced(n)[k].len
<1>1. bundles_ \in Seq(Bundle) /\ index \in 1..Len(bundles_) BY DEF QueueTyped
<1>2. bundles_[index] \in Bundle BY <1>1
<1>3. PICK b : b = [bundles_[index] EXCEPT !.sent = @ + n] OBVIOUS
<1>4. /\ b \in Bundle /\ b.at = bundles_[index].at /\ b.len = bundles_[index].len
      /\ b.sent = bundles_[index].sent + n
  BY <1>2, <1>3 DEF Bundle
<1>5. Advanced(n) = [bundles_ EXCEPT ![index] = b]
  BY <1>3 DEF Advanced
<1>6. /\ Advanced(n) \in Seq(Bundle) /\ Len(Advanced(n)) = Len(bundles_)
      /\ \A k \in 1..Len(bundles_) : Advanced(n)[k] = IF k = index THEN b ELSE bundles_[k]
  BY <1>1, <1>4, <1>5
<1>7. b.sent =< b.len BY <1>2, <1>4 DEF Bundle
<1> QED BY <1>1, <1>4, <1>6, <1>7 DEF QueueTyped

\* Typing is inductive: one step for each action.
LEMMA StepTyped == Typing /\ [Next]_vars => Typing'
<1> SUFFICES ASSUME Typing, [Next]_vars PROVE Typing'
  OBVIOUS
<1> USE DEF txVars, rxVars, ctrl, net
<1>1. ASSUME NEW n \in Lengths, SendPacket(n) PROVE Typing'
  <2>1. n \in Nat BY ChannelAssumption
  <2> DEFINE p == [at |-> accepted, len |-> n, sent |-> 0]
             q == Append(bundles_, p)
  <2>2. p \in Bundle /\ p.sent =< p.len BY <2>1 DEF Typing, Bundle
  <2>3. bundles_ \in Seq(Bundle) BY DEF Typing, QueueTyped
  <2>4. /\ q \in Seq(Bundle) /\ Len(q) = Len(bundles_) + 1
        /\ \A k \in 1..Len(q) : q[k].sent =< q[k].len
    BY <2>2, <2>3 DEF Typing, QueueTyped
  <2>5. Send(q, n) /\ sends' = sends + 1 BY <1>1 DEF SendPacket
  <2> HIDE DEF p, q
  <2>6. QueueTyped' /\ accepted' \in Nat
    <3>1. bundles_' = <<>> \/ bundles_' = q BY <2>5 DEF Send
    <3>2. accepted' = accepted \/ accepted' = accepted + n BY <2>5 DEF Send
    <3>3. CASE bundles_' = <<>> BY <2>1, <3>2, <3>3 DEF QueueTyped, Typing
    <3>4. CASE bundles_' = q BY <2>1, <2>4, <3>2, <3>4 DEF QueueTyped, Typing
    <3> QED BY <3>1, <3>3, <3>4
  <2>7. flags_' \subseteq Flags
    <3>1. flags_' = flags_ \/ flags_' = Condemned(flags_, q # <<>> /\ TooMuchQueued(q))
      BY <2>5 DEF Send
    <3>2. flags_' = flags_ \/ flags_' = flags_ \cup {"CONDEMN"} BY <3>1 DEF Condemned
    <3> QED BY <3>2 DEF Typing, Flags
  <2>8. pc' \in {pc, "send"} /\ index' \in Nat \ {0} /\ caller' \in {"loop", "handler"}
    <3>1. UNCHANGED ctrl \/ (pc' = "send" /\ index' = 1 /\ caller' = pc)
      BY <2>5 DEF Send
    <3>2. pc \in {"loop", "handler"} BY <2>5 DEF Send, User
    <3> QED BY <3>1, <3>2 DEF Typing
  <2> QED BY <2>5, <2>6, <2>7, <2>8 DEF Send, Typing
<1>2. ASSUME Flush PROVE Typing'
  <2>1. Send(bundles_, 0) /\ UNCHANGED sends BY <1>2 DEF Flush
  <2>2. QueueTyped' /\ accepted' \in Nat
    <3>1. bundles_' = <<>> \/ bundles_' = bundles_ BY <2>1 DEF Send
    <3>2. accepted' = accepted \/ accepted' = accepted + 0 BY <2>1 DEF Send
    <3>3. CASE bundles_' = <<>> BY <3>2, <3>3 DEF QueueTyped, Typing
    <3>4. CASE bundles_' = bundles_ BY <3>2, <3>4 DEF QueueTyped, Typing
    <3> QED BY <3>1, <3>3, <3>4
  <2>3. flags_' \subseteq Flags
    <3>1. \/ flags_' = flags_
          \/ flags_' = Condemned(flags_, bundles_ # <<>> /\ TooMuchQueued(bundles_))
      BY <2>1 DEF Send
    <3>2. flags_' = flags_ \/ flags_' = flags_ \cup {"CONDEMN"} BY <3>1 DEF Condemned
    <3> QED BY <3>2 DEF Typing, Flags
  <2>4. pc' \in {pc, "send"} /\ index' \in Nat \ {0} /\ caller' \in {"loop", "handler"}
    <3>1. UNCHANGED ctrl \/ (pc' = "send" /\ index' = 1 /\ caller' = pc)
      BY <2>1 DEF Send
    <3>2. pc \in {"loop", "handler"} BY <2>1 DEF Send, User
    <3> QED BY <3>1, <3>2 DEF Typing
  <2> QED BY <2>1, <2>2, <2>3, <2>4 DEF Send, Typing
<1>3. ASSUME DoSendAll PROVE Typing'
  <2> DEFINE n == bundles_[index].len - bundles_[index].sent
  <2>1. bundles_[index] \in Bundle /\ bundles_[index].sent =< bundles_[index].len
    BY <1>3 DEF DoSendAll, Typing, QueueTyped
  <2>2. n \in Nat /\ n =< bundles_[index].len - bundles_[index].sent BY <2>1 DEF Bundle
  <2>a. index \in Nat \ {0} /\ index =< Len(bundles_) /\ QueueTyped
    BY <1>3 DEF DoSendAll, Typing
  <2>b. bundles_' = Advanced(n) /\ Wrote(n) BY <1>3 DEF DoSendAll
  <2> HIDE DEF n
  <2>3. /\ Advanced(n) \in Seq(Bundle) /\ Len(Advanced(n)) = Len(bundles_)
        /\ \A k \in 1..Len(bundles_) : Advanced(n)[k].sent =< Advanced(n)[k].len
    BY <2>2, <2>a, AdvancedTyped
  <2>4. QueueTyped' BY <2>b, <2>3 DEF QueueTyped
  <2>5. lastTickBytesSent_' \in Nat
    BY <2>b, <2>2 DEF Wrote, Typing
  <2>6. flags_' \subseteq Flags
    <3>1. flags_' = Condemned(flags_, TickSentOverflow) BY <1>3 DEF DoSendAll
    <3>2. flags_' = flags_ \/ flags_' = flags_ \cup {"CONDEMN"} BY <3>1 DEF Condemned
    <3> QED BY <3>2 DEF Typing, Flags
  <2> QED BY <1>3, <2>4, <2>5, <2>6 DEF DoSendAll, Typing
<1>4. ASSUME NEW n \in Nat, NEW ok, DoSendPart(n, ok) PROVE Typing'
  <2>1. bundles_[index] \in Bundle BY <1>4 DEF DoSendPart, Typing, QueueTyped
  <2>2. n =< bundles_[index].len - bundles_[index].sent BY <1>4, <2>1 DEF DoSendPart, Bundle
  <2>3. /\ Advanced(n) \in Seq(Bundle) /\ Len(Advanced(n)) = Len(bundles_)
        /\ \A k \in 1..Len(bundles_) : Advanced(n)[k].sent =< Advanced(n)[k].len
    BY <1>4, <2>2, AdvancedTyped DEF DoSendPart, Typing
  <2> DEFINE q == Rest(Advanced(n))
  <2>4. q \in Seq(Bundle) /\ \A k \in 1..Len(q) : q[k].sent =< q[k].len
    BY <1>4, <2>3, RestTyped DEF DoSendPart, Typing
  <2>5. bundles_' = q BY <1>4 DEF DoSendPart, ReturnFalse
  <2> HIDE DEF q
  <2>6. QueueTyped' BY <2>4, <2>5 DEF QueueTyped
  <2> DEFINE c == TickSentOverflow \/ sendfailCount_' >= SendFailLimit
             f == Condemned(flags_, c)
  <2>7. f \in SUBSET Flags BY CondemnedIs DEF Typing
  <2>8. flags_' = IF AsksCallback(bundles_', f) THEN MarkSending(f) ELSE f
    BY <1>4, <2>5 DEF DoSendPart, ReturnFalse, q
  <2> HIDE DEF f
  <2>9. flags_' \subseteq Flags BY <2>7, <2>8 DEF MarkSending, Flags
  <2>10. lastTickBytesSent_' \in Nat /\ sendfailCount_' \in Nat
    BY <1>4 DEF DoSendPart, Wrote, FailCount, Typing
  <2>11. pc' = caller /\ index' = 1 /\ caller' = "loop"
    BY <1>4 DEF DoSendPart, ReturnFalse, SendReturns
  <2> QED BY <1>4, <2>6, <2>9, <2>10, <2>11 DEF DoSendPart, Typing
<1>5. ASSUME DoSendError PROVE Typing'
  <2> DEFINE q == Rest(bundles_)
             f == flags_ \cup {"CONDEMN"}
  <2>1. q \in Seq(Bundle) /\ \A k \in 1..Len(q) : q[k].sent =< q[k].len
    BY <1>5, RestTyped DEF DoSendError, Typing, QueueTyped
  <2>2. bundles_' = q /\ flags_' = f
    BY <1>5 DEF DoSendError, ReturnFalse, AsksCallback
  <2> HIDE DEF q
  <2>3. QueueTyped' BY <2>1, <2>2 DEF QueueTyped
  <2>4. flags_' \subseteq Flags BY <2>2 DEF Typing, Flags
  <2>5. pc' = caller /\ index' = 1 /\ caller' = "loop"
    BY <1>5 DEF DoSendError, ReturnFalse, SendReturns
  <2> QED BY <1>5, <2>3, <2>4, <2>5 DEF DoSendError, Typing
<1>6. ASSUME ProcessSendEnd PROVE Typing'
  <2>1. bundles_' = <<>> BY <1>6 DEF ProcessSendEnd
  <2>2. QueueTyped' BY <2>1 DEF QueueTyped
  <2>3. flags_' \subseteq Flags BY <1>6 DEF ProcessSendEnd, StopSend, Typing
  <2>4. pc' = caller /\ index' = 1 /\ caller' = "loop"
    BY <1>6 DEF ProcessSendEnd, SendReturns
  <2>5. fault' \in {"none", "null", "assert"} BY <1>6 DEF ProcessSendEnd, Typing
  <2> QED BY <1>6, <2>2, <2>3, <2>4, <2>5 DEF ProcessSendEnd, Typing
<1>7. ASSUME NEW n \in 1..RecvMax, ProcessRecv(n) PROVE Typing'
  <2>1. n \in Nat BY ChannelAssumption
  <2>2. bufferedReceives_' \in Seq(Nat \X Nat)
    BY <1>7, <2>1 DEF ProcessRecv, Typing
  <2>3. flags_' \subseteq Flags BY <1>7 DEF ProcessRecv, Condemned, Typing, Flags
  <2>4. /\ nread' \in Nat /\ inbox' \in Nat /\ lastTickBytesReceived_' \in Nat
        /\ nread' + inbox' = nread + inbox
    BY <1>7, <2>1 DEF ProcessRecv, Typing
  <2>5. QueueTyped' BY <1>7 DEF ProcessRecv, Typing, QueueTyped
  <2> QED BY <1>7, <2>2, <2>3, <2>4, <2>5 DEF ProcessRecv, Typing
<1>8. ASSUME NEW error, ProcessRecvEnd(error) PROVE Typing'
  <2>1. flags_' \subseteq Flags BY <1>8 DEF ProcessRecvEnd, Condemned, Typing, Flags
  <2> QED BY <1>8, <2>1 DEF ProcessRecvEnd, Typing, QueueTyped
<1>9. ASSUME NEW b, ReadPacket(b) PROVE Typing'
  <2>1. served' \in Nat \ {0} BY <1>9 DEF ReadPacket, Typing
  <2> QED BY <1>9, <2>1 DEF ReadPacket, Typing, QueueTyped
<1>10. ASSUME NEW b, HandlerReturns(b) PROVE Typing'
  <2>1. pc' \in {pc, "tick"} /\ fault' \in {fault, "null"} BY <1>10 DEF HandlerReturns
  <2> QED BY <1>10, <2>1 DEF HandlerReturns, Typing, QueueTyped
<1>11. ASSUME HandlerThrows PROVE Typing'
  <2>1. /\ flags_' \in {flags_, flags_ \cup {"CONDEMN"}}
        /\ bufferedReceives_' = bufferedReceives_ \/ bufferedReceives_' = <<>>
        /\ pc' \in {pc, "loop"} /\ fault' \in {fault, "null"}
    BY <1>11 DEF HandlerThrows, EmptyReceives
  <2>2. flags_' \subseteq Flags BY <2>1 DEF Typing, Flags
  <2>3. bufferedReceives_' \in Seq(Nat \X Nat)
    <3>1. CASE bufferedReceives_' = <<>> BY <3>1
    <3>2. CASE bufferedReceives_' = bufferedReceives_ BY <3>2 DEF Typing
    <3> QED BY <2>1, <3>1, <3>2
  <2> QED BY <1>11, <2>1, <2>2, <2>3 DEF HandlerThrows, Typing, QueueTyped
<1>12. ASSUME ProcessPacketsEnd PROVE Typing'
  BY <1>12 DEF ProcessPacketsEnd, EmptyReceives, Typing, QueueTyped
<1>13. ASSUME NEW ok, Initialize(ok) PROVE Typing'
  <2>1. flags_' \subseteq Flags BY <1>13 DEF Initialize, Typing, Flags
  <2> QED BY <1>13, <2>1 DEF Initialize, Typing, QueueTyped
<1>14. ASSUME ProcessPackets PROVE Typing'
  BY <1>14 DEF ProcessPackets, Typing, QueueTyped
<1>15. ASSUME Destroy PROVE Typing'
  <2>1. flags_' \subseteq Flags
    <3>1. StopSend(flags_, entry).flags \in SUBSET Flags BY StopsAre DEF Typing
    <3> QED BY <1>15, <3>1, StopsAre DEF Destroy, ClearState, Flags
  <2>2. bundles_' = <<>> /\ bufferedReceives_' = <<>> BY <1>15 DEF Destroy
  <2>3. QueueTyped' /\ bufferedReceives_' \in Seq(Nat \X Nat) BY <2>2 DEF QueueTyped
  <2> QED BY <1>15, <2>1, <2>3 DEF Destroy, Typing
<1>16. ASSUME Condemn PROVE Typing'
  BY <1>16 DEF Condemn, Typing, QueueTyped, Flags
<1>17. ASSUME Readable \/ Writable PROVE Typing'
  <2>1. UNCHANGED ctrl \/ (pc' = "send" /\ index' = 1 /\ caller' = "loop")
        \/ (pc' = "recv" /\ UNCHANGED <<index, caller>>)
    BY <1>17 DEF Readable, Writable
  <2>2. fault' \in {fault, "assert"} BY <1>17 DEF Readable, Writable
  <2>3. pc' \in {pc, "send", "recv"} /\ index' \in {index, 1} /\ caller' \in {caller, "loop"}
    BY <2>1
  <2>4. UNCHANGED <<flags_, endPoint, txVars, rxVars, net>> BY <1>17 DEF Readable, Writable
  <2> QED BY <2>2, <2>3, <2>4 DEF Typing, QueueTyped
<1>18. ASSUME NullEndPoint \/ PeerCloses \/ PeerReads PROVE Typing'
  BY <1>18 DEF NullEndPoint, PeerCloses, PeerReads, Typing, QueueTyped
<1>19. ASSUME PeerSends PROVE Typing'
  BY <1>19, ChannelAssumption DEF PeerSends, Typing, QueueTyped
<1>20. ASSUME UNCHANGED vars PROVE Typing'
  BY <1>20 DEF vars, Typing, QueueTyped
<1>21. ASSUME SendLoop PROVE Typing'
  <2>1. ASSUME NEW len \in Lengths, NEW ok \in BOOLEAN, NEW n \in 0..len, DoSendPart(n, ok)
        PROVE  Typing'
    BY <1>4, <2>1, ChannelAssumption
  <2> QED BY <1>3, <1>5, <1>6, <1>21, <2>1 DEF SendLoop
<1> QED
  BY <1>1, <1>2, <1>7, <1>8, <1>9, <1>10, <1>11, <1>12, <1>13, <1>14, <1>15, <1>16, <1>17,
     <1>18, <1>19, <1>20, <1>21 DEF Next, RecvLoop, TickLoop

-----------------------------------------------------------------------------
(* The invariants.  What is queued follows what is on the wire, and what is *)
(* buffered follows what was handled: they are one interval of bytes, cut   *)
(* into packets, up to the last byte that was queued or received.           *)

QueueFollows ==
  /\ \A k \in 1..Len(bundles_) :
       /\ bundles_[k].at + bundles_[k].len =< accepted
       /\ bundles_[k].at + bundles_[k].len =
            IF k = Len(bundles_) THEN accepted ELSE bundles_[k + 1].at
       /\ k > index => bundles_[k].sent = 0
  /\ Len(wire) = IF index > Len(bundles_) THEN accepted
                 ELSE bundles_[index].at + bundles_[index].sent

SendInv ==
  /\ pc # "send" => index = 1
  /\ wire \in Seq(Nat) /\ \A k \in 1..Len(wire) : wire[k] = k
  /\ Len(wire) =< accepted
  /\ ~Closed => QueueFollows

\* the next packet for the reader
Position == IF Ticking THEN served ELSE 1

BufferFollows ==
  /\ \A k \in 1..Len(bufferedReceives_) :
       /\ bufferedReceives_[k][1] =< bufferedReceives_[k][2]
       /\ bufferedReceives_[k][1] > 0 /\ bufferedReceives_[k][2] =< nread
       /\ bufferedReceives_[k][2] = IF k = Len(bufferedReceives_) THEN nread
                                    ELSE bufferedReceives_[k + 1][1] - 1
  /\ Len(handled) = IF Position > Len(bufferedReceives_) THEN nread
                    ELSE bufferedReceives_[Position][1] - 1

\* the reader may still be given what is buffered
Open == endPoint /\ (~isCondemn \/ Ticking)

RecvInv ==
  /\ handled \in Seq(Nat) /\ \A k \in 1..Len(handled) : handled[k] = k
  /\ Len(handled) =< nread
  /\ ~endPoint => bufferedReceives_ = <<>>
  /\ Open => BufferFollows

-----------------------------------------------------------------------------
(* The poller.  An entry is sound if epoll watches what the handlers want.  *)

Sound(e) == e \in [rd : BOOLEAN, wr : BOOLEAN, ctl : SUBSET {"IN", "OUT", "absent"}]
            /\ e.ctl = Wanted(e)

\* The events of an entry are those of its two handlers.
LEMMA WantedIs ==
  ASSUME NEW e
  PROVE  /\ e.rd = TRUE /\ e.wr = TRUE => Wanted(e) = {"IN", "OUT"}
         /\ e.rd = TRUE /\ e.wr = FALSE => Wanted(e) = {"IN"}
         /\ e.rd = FALSE /\ e.wr = TRUE => Wanted(e) = {"OUT"}
         /\ e.rd = FALSE /\ e.wr = FALSE => Wanted(e) = Absent
<1>1. e.rd = TRUE /\ e.wr = TRUE => Wanted(e) = {"IN", "OUT"} BY DEF Wanted
<1>2. e.rd = TRUE /\ e.wr = FALSE => Wanted(e) = {"IN"} BY DEF Wanted
<1>3. e.rd = FALSE /\ e.wr = TRUE => Wanted(e) = {"OUT"} BY DEF Wanted
<1>4. e.rd = FALSE /\ e.wr = FALSE => Wanted(e) = Absent BY DEF Wanted
<1> QED BY <1>1, <1>2, <1>3, <1>4

\* The fields of epoll_ctl's result.
LEMMA Fields ==
  ASSUME NEW x, NEW a, NEW b, x = [done |-> a, ctl |-> b]
  PROVE  x.done = a /\ x.ctl = b
OBVIOUS

\* epoll_ctl ADD of a descriptor it does not know.
LEMMA AddDone ==
  ASSUME NEW e, NEW events, NEW ok, e.ctl = Absent, ok
  PROVE  EpollCtl(e, "ADD", events, ok) = [done |-> TRUE, ctl |-> events]
BY DEF EpollCtl

\* epoll_ctl ADD that fails leaves the kernel's entry alone.
LEMMA AddFails ==
  ASSUME NEW e, NEW events, NEW ok, ~(e.ctl = Absent /\ ok)
  PROVE  EpollCtl(e, "ADD", events, ok) = [done |-> FALSE, ctl |-> e.ctl]
BY DEF EpollCtl

\* epoll_ctl MOD of a descriptor it knows.
LEMMA ModDone ==
  ASSUME NEW e, NEW events, NEW ok, e.ctl # Absent
  PROVE  EpollCtl(e, "MOD", events, ok) = [done |-> TRUE, ctl |-> events]
BY DEF EpollCtl

\* epoll_ctl DEL leaves no entry.
LEMMA DelDone ==
  ASSUME NEW e, NEW events, NEW ok
  PROVE  EpollCtl(e, "DEL", events, ok).ctl = Absent
BY DEF EpollCtl

\* A registration that epoll accepts, and only such a one, puts the handler into the map.
LEMMA ReadIs ==
  ASSUME NEW e, NEW ok, NEW d, DoRegister(e, TRUE, TRUE, ok) = d
  PROVE  RegisterForRead(e, ok) = [done |-> d.done, entry |-> IF d.done THEN [e EXCEPT !.rd = TRUE, !.ctl = d.ctl] ELSE e]
BY DEF RegisterForRead

\* The first registration for reading, when ADD is what it asks epoll.
LEMMA ReadAdds ==
  ASSUME NEW e, NEW ok, e.ctl = Absent,
         DoRegister(e, TRUE, TRUE, ok) = EpollCtl(e, "ADD", {"IN"}, ok)
  PROVE  \/ RegisterForRead(e, ok).done = FALSE /\ RegisterForRead(e, ok).entry = e
         \/ /\ RegisterForRead(e, ok).done = TRUE
            /\ RegisterForRead(e, ok).entry = [e EXCEPT !.rd = TRUE, !.ctl = {"IN"}]
<1>1. PICK d : d = EpollCtl(e, "ADD", {"IN"}, ok) OBVIOUS
<1>2. PICK r : r = RegisterForRead(e, ok) OBVIOUS
<1>3. r = [done |-> d.done, entry |-> IF d.done THEN [e EXCEPT !.rd = TRUE, !.ctl = d.ctl] ELSE e]
  BY <1>1, <1>2, ReadIs
<1>4. (d.done = TRUE /\ d.ctl = {"IN"}) \/ d.done = FALSE
  <2>1. CASE ok
    <3>1. d = [done |-> TRUE, ctl |-> {"IN"}] BY <1>1, <2>1, AddDone
    <3> QED BY <3>1
  <2>2. CASE ~ok
    <3>1. d = [done |-> FALSE, ctl |-> e.ctl] BY <1>1, <2>2, AddFails
    <3> QED BY <3>1
  <2> QED BY <2>1, <2>2
<1>5. \/ r.done = FALSE /\ r.entry = e
      \/ r.done = TRUE /\ r.entry = [e EXCEPT !.rd = TRUE, !.ctl = {"IN"}]
  BY <1>3, <1>4
<1> QED BY <1>2, <1>5

\* registerForWrite when epoll accepts ...
LEMMA WriteDone ==
  ASSUME NEW e, NEW ok, NEW c, DoRegister(e, FALSE, TRUE, ok) = [done |-> TRUE, ctl |-> c]
  PROVE  RegisterForWrite(e, ok).entry = [e EXCEPT !.wr = TRUE, !.ctl = c]
<1> DEFINE d == DoRegister(e, FALSE, TRUE, ok)
<1>1. d.done = TRUE /\ d.ctl = c BY Fields
<1> HIDE DEF d
<1>2. RegisterForWrite(e, ok) =
        [done |-> d.done, entry |-> IF d.done THEN [e EXCEPT !.wr = TRUE, !.ctl = d.ctl] ELSE e]
  BY DEF RegisterForWrite, d
<1> QED BY <1>1, <1>2

\* ... and when it refuses.
LEMMA WriteFails ==
  ASSUME NEW e, NEW ok, DoRegister(e, FALSE, TRUE, ok).done = FALSE
  PROVE  RegisterForWrite(e, ok).entry = e
<1> DEFINE d == DoRegister(e, FALSE, TRUE, ok)
<1>1. d.done = FALSE OBVIOUS
<1> HIDE DEF d
<1>2. RegisterForWrite(e, ok) =
        [done |-> d.done, entry |-> IF d.done THEN [e EXCEPT !.wr = TRUE, !.ctl = d.ctl] ELSE e]
  BY DEF RegisterForWrite, d
<1> QED BY <1>1, <1>2

\* A descriptor nobody registered is sound.
LEMMA NoEntryIs == Sound(NoEntry) /\ NoEntry.rd = FALSE /\ NoEntry.wr = FALSE
<1> DEFINE e == NoEntry
<1>1. /\ e.rd = FALSE /\ e.wr = FALSE /\ e.ctl = Absent
      /\ e \in [rd : BOOLEAN, wr : BOOLEAN, ctl : SUBSET {"IN", "OUT", "absent"}]
  BY DEF NoEntry, Absent
<1> QED BY <1>1, WantedIs DEF Sound

\* registerForRead of a new descriptor keeps the entry sound.
LEMMA RegisterReadSound ==
  ASSUME NEW ok, NEW e, Sound(e), e.rd = FALSE, e.wr = FALSE
  PROVE  \/ RegisterForRead(e, ok).done = FALSE /\ RegisterForRead(e, ok).entry = e
         \/ /\ RegisterForRead(e, ok).done = TRUE
            /\ Sound(RegisterForRead(e, ok).entry)
            /\ RegisterForRead(e, ok).entry.rd = TRUE
            /\ RegisterForRead(e, ok).entry.wr = FALSE
<1>1. e.ctl = Absent BY WantedIs DEF Sound
<1>2. DoRegister(e, TRUE, TRUE, ok) = EpollCtl(e, "ADD", {"IN"}, ok)
  BY DEF DoRegister, IsRegistered
<1>3. \/ RegisterForRead(e, ok).done = FALSE /\ RegisterForRead(e, ok).entry = e
      \/ /\ RegisterForRead(e, ok).done = TRUE
         /\ RegisterForRead(e, ok).entry = [e EXCEPT !.rd = TRUE, !.ctl = {"IN"}]
  BY <1>1, <1>2, ReadAdds
<1> DEFINE m == [e EXCEPT !.rd = TRUE, !.ctl = {"IN"}]
<1>4. m.rd = TRUE /\ m.wr = FALSE /\ m.ctl = {"IN"}
      /\ m \in [rd : BOOLEAN, wr : BOOLEAN, ctl : SUBSET {"IN", "OUT", "absent"}]
  BY DEF Sound
<1>5. CASE RegisterForRead(e, ok).done = TRUE /\ RegisterForRead(e, ok).entry = m
  <2> HIDE DEF m
  <2>1. Sound(m) BY <1>4, WantedIs DEF Sound
  <2> QED BY <1>4, <1>5, <2>1
<1> QED BY <1>3, <1>5

\* registerForWrite keeps the entry sound and the reader where it is.
LEMMA RegisterWriteSound ==
  ASSUME NEW ok \in BOOLEAN, NEW e, Sound(e), NEW n, n = RegisterForWrite(e, ok).entry
  PROVE  /\ Sound(n) /\ n.rd = e.rd
         /\ e.rd => n.wr
         /\ e.wr => n.wr
<1>1. CASE e.rd = TRUE
  <2> DEFINE c == {"OUT"} \cup {"IN"}
  <2>1. e.ctl # Absent BY <1>1, WantedIs DEF Sound, Absent
  <2>2. DoRegister(e, FALSE, TRUE, ok) = EpollCtl(e, "MOD", c, ok)
    BY <1>1 DEF DoRegister, IsRegistered
  <2>3. c = {"IN", "OUT"} OBVIOUS
  <2> HIDE DEF c
  <2>4. EpollCtl(e, "MOD", c, ok) = [done |-> TRUE, ctl |-> c] BY <2>1, ModDone
  <2>7. DoRegister(e, FALSE, TRUE, ok) = [done |-> TRUE, ctl |-> c] BY <2>2, <2>4
  <2>5. n = [e EXCEPT !.wr = TRUE, !.ctl = c] BY <2>7, WriteDone
  <2>6. n.rd = TRUE /\ n.wr = TRUE /\ n.ctl = {"IN", "OUT"}
        /\ n \in [rd : BOOLEAN, wr : BOOLEAN, ctl : SUBSET {"IN", "OUT", "absent"}]
    BY <1>1, <2>3, <2>5 DEF Sound
  <2> QED BY <1>1, <2>6, WantedIs DEF Sound
<1>2. CASE e.rd = FALSE
  <2>1. DoRegister(e, FALSE, TRUE, ok) = EpollCtl(e, "ADD", {"OUT"}, ok)
    BY <1>2 DEF DoRegister, IsRegistered
  <2>2. CASE e.ctl = Absent /\ ok
    <3>1. EpollCtl(e, "ADD", {"OUT"}, ok) = [done |-> TRUE, ctl |-> {"OUT"}]
      BY <2>2, AddDone
    <3>4. DoRegister(e, FALSE, TRUE, ok) = [done |-> TRUE, ctl |-> {"OUT"}] BY <2>1, <3>1
    <3>2. n = [e EXCEPT !.wr = TRUE, !.ctl = {"OUT"}] BY <3>4, WriteDone
    <3>3. n.rd = FALSE /\ n.wr = TRUE /\ n.ctl = {"OUT"}
          /\ n \in [rd : BOOLEAN, wr : BOOLEAN, ctl : SUBSET {"IN", "OUT", "absent"}]
      BY <1>2, <3>2 DEF Sound
    <3> QED BY <1>2, <3>3, WantedIs DEF Sound
  <2>3. CASE ~(e.ctl = Absent /\ ok)
    <3>1. EpollCtl(e, "ADD", {"OUT"}, ok) = [done |-> FALSE, ctl |-> e.ctl]
      BY <2>3, AddFails
    <3>2. DoRegister(e, FALSE, TRUE, ok).done = FALSE BY <2>1, <3>1, Fields
    <3>3. n = e BY <3>2, WriteFails
    <3> QED BY <1>2, <3>3
  <2> QED BY <2>2, <2>3
<1> QED BY <1>1, <1>2 DEF Sound

\* deregisterForRead keeps the entry sound and the writer where it is.
LEMMA DeregisterReadSound ==
  ASSUME NEW e, Sound(e), NEW n, n = DeregisterForRead(e)
  PROVE  Sound(n) /\ n.rd = FALSE /\ n.wr = e.wr
<1> DEFINE f == [e EXCEPT !.rd = FALSE]
           d == DoRegister(f, TRUE, FALSE, TRUE)
<1>1. /\ f.rd = FALSE /\ f.wr = e.wr /\ f.ctl = e.ctl
      /\ f \in [rd : BOOLEAN, wr : BOOLEAN, ctl : SUBSET {"IN", "OUT", "absent"}]
  BY DEF Sound
<1>2. n = [f EXCEPT !.ctl = d.ctl] BY DEF DeregisterForRead
<1> HIDE DEF f
<1>3. CASE e.wr = TRUE
  <2>1. f.ctl # Absent BY <1>1, <1>3, WantedIs DEF Sound, Absent
  <2>2. d = EpollCtl(f, "MOD", {"OUT"}, TRUE)
    BY <1>1, <1>3 DEF DoRegister, IsRegistered
  <2>3. EpollCtl(f, "MOD", {"OUT"}, TRUE) = [done |-> TRUE, ctl |-> {"OUT"}] BY <2>1, ModDone
  <2>4. d.ctl = {"OUT"} BY <2>2, <2>3, Fields
  <2> HIDE DEF d
  <2>5. n.rd = FALSE /\ n.wr = TRUE /\ n.ctl = {"OUT"}
        /\ n \in [rd : BOOLEAN, wr : BOOLEAN, ctl : SUBSET {"IN", "OUT", "absent"}]
    BY <1>1, <1>2, <1>3, <2>4
  <2> QED BY <1>3, <2>5, WantedIs DEF Sound
<1>4. CASE e.wr = FALSE
  <2>1. d = EpollCtl(f, "DEL", {"IN"}, TRUE)
    BY <1>1, <1>4 DEF DoRegister, IsRegistered
  <2>2. d.ctl = Absent BY <2>1, DelDone
  <2> HIDE DEF d
  <2>3. n.rd = FALSE /\ n.wr = FALSE /\ n.ctl = Absent
        /\ n \in [rd : BOOLEAN, wr : BOOLEAN, ctl : SUBSET {"IN", "OUT", "absent"}]
    BY <1>1, <1>2, <1>4, <2>2 DEF Absent
  <2> QED BY <1>4, <2>3, WantedIs DEF Sound
<1> QED BY <1>3, <1>4 DEF Sound

\* deregisterForWrite keeps the entry sound and the reader where it is.
LEMMA DeregisterWriteSound ==
  ASSUME NEW e, Sound(e), NEW n, n = DeregisterForWrite(e)
  PROVE  Sound(n) /\ n.wr = FALSE /\ n.rd = e.rd
<1> DEFINE f == [e EXCEPT !.wr = FALSE]
           d == DoRegister(f, FALSE, FALSE, TRUE)
<1>1. /\ f.wr = FALSE /\ f.rd = e.rd /\ f.ctl = e.ctl
      /\ f \in [rd : BOOLEAN, wr : BOOLEAN, ctl : SUBSET {"IN", "OUT", "absent"}]
  BY DEF Sound
<1>2. n = [f EXCEPT !.ctl = d.ctl] BY DEF DeregisterForWrite
<1> HIDE DEF f
<1>3. CASE e.rd = TRUE
  <2>1. f.ctl # Absent BY <1>1, <1>3, WantedIs DEF Sound, Absent
  <2>2. d = EpollCtl(f, "MOD", {"IN"}, TRUE)
    BY <1>1, <1>3 DEF DoRegister, IsRegistered
  <2>3. EpollCtl(f, "MOD", {"IN"}, TRUE) = [done |-> TRUE, ctl |-> {"IN"}] BY <2>1, ModDone
  <2>4. d.ctl = {"IN"} BY <2>2, <2>3, Fields
  <2> HIDE DEF d
  <2>5. n.wr = FALSE /\ n.rd = TRUE /\ n.ctl = {"IN"}
        /\ n \in [rd : BOOLEAN, wr : BOOLEAN, ctl : SUBSET {"IN", "OUT", "absent"}]
    BY <1>1, <1>2, <1>3, <2>4
  <2> QED BY <1>3, <2>5, WantedIs DEF Sound
<1>4. CASE e.rd = FALSE
  <2>1. d = EpollCtl(f, "DEL", {"OUT"}, TRUE)
    BY <1>1, <1>4 DEF DoRegister, IsRegistered
  <2>2. d.ctl = Absent BY <2>1, DelDone
  <2> HIDE DEF d
  <2>3. n.rd = FALSE /\ n.wr = FALSE /\ n.ctl = Absent
        /\ n \in [rd : BOOLEAN, wr : BOOLEAN, ctl : SUBSET {"IN", "OUT", "absent"}]
    BY <1>1, <1>2, <1>4, <2>2 DEF Absent
  <2> QED BY <1>4, <2>3, WantedIs DEF Sound
<1> QED BY <1>3, <1>4 DEF Sound

-----------------------------------------------------------------------------
(* Flags, handlers, queue and program counter agree.                        *)

PollerInv ==
  /\ Sound(entry)
  /\ pc = "new" => flags_ = {} /\ bundles_ = <<>> /\ endPoint
  /\ entry.rd <=> recving
  /\ entry.wr => sending
  /\ recving /\ sending => entry.wr
  /\ ~endPoint => ~recving /\ ~sending
  /\ "DESTROYED" \in flags_ => ~endPoint
  /\ pc = "send" => endPoint
  /\ pc = "recv" /\ fault = "none" => endPoint
  /\ pc = "send" /\ isEpoll => sending
  /\ fault # "assert"
  /\ pc # "send" /\ bundles_ # <<>> /\ ~isCondemn /\ recving => sending

USE DEF isCondemn, sending, recving

\* At first no descriptor is registered.
LEMMA InitPoller == Init => PollerInv
<1> SUFFICES ASSUME Init PROVE PollerInv
  OBVIOUS
<1>1. entry = NoEntry /\ flags_ = {} /\ bundles_ = <<>> /\ endPoint /\ pc = "new"
      /\ fault = "none"
  BY DEF Init
<1> QED BY <1>1, NoEntryIs DEF PollerInv

\* processSend gives up: whoever is not the poller asks it to call back.
LEMMA PollerReturnFalse ==
  ASSUME PollerInv, pc = "send", NEW rest, NEW f, NEW ok \in BOOLEAN,
         f = flags_ \/ f = flags_ \cup {"CONDEMN"}, ReturnFalse(rest, f, ok),
         caller \in {"loop", "handler"}, UNCHANGED <<endPoint, fault>>
  PROVE  PollerInv'
<1>1. pc' # "new" /\ pc' # "send" BY DEF ReturnFalse, SendReturns
<1>2. CASE AsksCallback(rest, f)
  <2> DEFINE n == RegisterForWrite(entry, ok).entry
  <2>1. flags_' = f \cup {"SENDING"} /\ entry' = n
    BY <1>2 DEF ReturnFalse, MarkSending
  <2>2. Sound(n) /\ n.rd = entry.rd /\ (entry.rd => n.wr)
    BY RegisterWriteSound DEF PollerInv
  <2> HIDE DEF n
  <2> QED BY <1>1, <2>1, <2>2 DEF PollerInv
<1>3. CASE ~AsksCallback(rest, f)
  <2>1. flags_' = f /\ entry' = entry /\ bundles_' = rest BY <1>3 DEF ReturnFalse
  <2>2. isEpoll \/ rest = <<>> \/ "CONDEMN" \in f \/ "DESTROYED" \in f
    BY <1>3 DEF AsksCallback
  <2>3. bundles_' # <<>> /\ ~isCondemn' /\ recving => sending
    BY <2>1, <2>2 DEF PollerInv
  <2> QED BY <1>1, <2>1, <2>3 DEF PollerInv
<1> QED BY <1>2, <1>3

\* stopSend and stopRecv.
LEMMA StopSendSound ==
  ASSUME NEW f, NEW e, Sound(e), "SENDING" \notin f => e.wr = FALSE
  PROVE  /\ Sound(StopSend(f, e).entry)
         /\ StopSend(f, e).entry.wr = FALSE /\ StopSend(f, e).entry.rd = e.rd
         /\ StopSend(f, e).flags = f \ {"SENDING"}
<1>1. CASE "SENDING" \in f
  <2>1. StopSend(f, e).entry = DeregisterForWrite(e) BY <1>1 DEF StopSend
  <2>2. StopSend(f, e).flags = f \ {"SENDING"} BY <1>1 DEF StopSend
  <2>3. PICK n : n = DeregisterForWrite(e) OBVIOUS
  <2>4. Sound(n) /\ n.wr = FALSE /\ n.rd = e.rd BY <2>3, DeregisterWriteSound
  <2> QED BY <2>1, <2>2, <2>3, <2>4
<1>2. CASE "SENDING" \notin f
  <2>1. StopSend(f, e).entry = e /\ StopSend(f, e).flags = f BY <1>2 DEF StopSend
  <2>2. f = f \ {"SENDING"} BY <1>2
  <2> QED BY <1>2, <2>1, <2>2
<1> QED BY <1>1, <1>2

\* stopRecv deregisters the reader and nothing else.
LEMMA StopRecvSound ==
  ASSUME NEW f, NEW e, Sound(e), "RECVING" \notin f => e.rd = FALSE
  PROVE  /\ Sound(StopRecv(f, e).entry)
         /\ StopRecv(f, e).entry.rd = FALSE /\ StopRecv(f, e).entry.wr = e.wr
         /\ StopRecv(f, e).flags = f \ {"RECVING"}
<1>1. CASE "RECVING" \in f
  <2>1. StopRecv(f, e).entry = DeregisterForRead(e) BY <1>1 DEF StopRecv
  <2>2. StopRecv(f, e).flags = f \ {"RECVING"} BY <1>1 DEF StopRecv
  <2>3. PICK n : n = DeregisterForRead(e) OBVIOUS
  <2>4. Sound(n) /\ n.rd = FALSE /\ n.wr = e.wr BY <2>3, DeregisterReadSound
  <2> QED BY <2>1, <2>2, <2>3, <2>4
<1>2. CASE "RECVING" \notin f
  <2>1. StopRecv(f, e).entry = e /\ StopRecv(f, e).flags = f BY <1>2 DEF StopRecv
  <2>2. f = f \ {"RECVING"} BY <1>2
  <2> QED BY <1>2, <2>1, <2>2
<1> QED BY <1>1, <1>2

\* Every step keeps the poller's entry in step with epoll.
LEMMA StepPoller == Typing /\ PollerInv /\ [Next]_vars => PollerInv'
<1> SUFFICES ASSUME Typing, PollerInv, [Next]_vars PROVE PollerInv'
  OBVIOUS
<1> USE DEF txVars, rxVars, ctrl, net
<1>1. ASSUME NEW ok \in BOOLEAN, Initialize(ok) PROVE PollerInv'
  <2> DEFINE r == RegisterForRead(entry, ok)
  <2>1. /\ flags_ = {} /\ bundles_ = <<>> /\ endPoint
        /\ Sound(entry) /\ entry.rd = FALSE /\ entry.wr = FALSE
    BY <1>1 DEF Initialize, PollerInv, Sound
  <2>2. \/ r.done = FALSE /\ r.entry = entry
        \/ r.done = TRUE /\ Sound(r.entry) /\ r.entry.rd = TRUE /\ r.entry.wr = FALSE
    BY <2>1, RegisterReadSound
  <2>3. /\ entry' = r.entry /\ flags_' = IF r.done THEN flags_ \cup {"RECVING"} ELSE flags_
        /\ pc' = "loop" /\ UNCHANGED <<endPoint, bundles_, fault>>
    BY <1>1 DEF Initialize
  <2> HIDE DEF r
  <2> QED BY <2>1, <2>2, <2>3 DEF PollerInv
<1>2. ASSUME NEW q, NEW n, Send(q, n) PROVE PollerInv'
  <2>1. pc # "new" /\ pc # "send" /\ endPoint BY <1>2 DEF Send, User
  <2>2. flags_' = flags_ \/ flags_' = Condemned(flags_, q # <<>> /\ TooMuchQueued(q))
    BY <1>2 DEF Send
  <2>3. flags_' = flags_ \/ flags_' = flags_ \cup {"CONDEMN"} BY <2>2 DEF Condemned
  <2>4. UNCHANGED <<entry, endPoint, fault>> BY <1>2 DEF Send
  <2>5. CASE isCondemn
    <3>1. bundles_' = <<>> /\ UNCHANGED <<flags_, ctrl>> BY <1>2, <2>5 DEF Send
    <3> QED BY <2>1, <2>4, <3>1 DEF PollerInv
  <2>6. CASE ~isCondemn
    <3>1. bundles_' = q /\ IF q # <<>> /\ ~sending /\ "CONDEMN" \notin flags_'
                           THEN pc' = "send" /\ isEpoll' = FALSE
                           ELSE UNCHANGED ctrl
      BY <1>2, <2>6 DEF Send
    <3>2. CASE q # <<>> /\ ~sending /\ "CONDEMN" \notin flags_'
      BY <2>1, <2>3, <2>4, <3>1, <3>2 DEF PollerInv
    <3>3. CASE ~(q # <<>> /\ ~sending /\ "CONDEMN" \notin flags_')
      <4>1. UNCHANGED ctrl BY <3>1, <3>3
      <4> QED BY <2>1, <2>3, <2>4, <3>1, <3>3, <4>1 DEF PollerInv
    <3> QED BY <3>2, <3>3
  <2> QED BY <2>5, <2>6
<1>3. ASSUME SendLoop PROVE PollerInv'
  <2>1. CASE DoSendAll
    <3>1. flags_' = Condemned(flags_, TickSentOverflow) BY <2>1 DEF DoSendAll
    <3>2. flags_' = flags_ \/ flags_' = flags_ \cup {"CONDEMN"} BY <3>1 DEF Condemned
    <3>3. pc = "send" /\ UNCHANGED <<entry, endPoint, pc, isEpoll, fault>> BY <2>1 DEF DoSendAll
    <3> QED BY <3>2, <3>3 DEF PollerInv
  <2>2. CASE DoSendError
    <3>1. pc = "send" /\ UNCHANGED <<endPoint, fault>>
          /\ ReturnFalse(Rest(bundles_), flags_ \cup {"CONDEMN"}, TRUE)
      BY <2>2 DEF DoSendError
    <3> QED BY <3>1, PollerReturnFalse DEF Typing
  <2>3. CASE ProcessSendEnd
    <3>1. pc = "send" /\ pc' # "send" /\ pc' # "new" /\ bundles_' = <<>> /\ UNCHANGED endPoint
      BY <2>3 DEF ProcessSendEnd, SendReturns, Typing
    <3>2. CASE isEpoll
      <4> DEFINE t == StopSend(flags_, entry)
      <4>1. flags_' = t.flags /\ entry' = t.entry /\ (sending => fault' = fault)
        BY <2>3, <3>2 DEF ProcessSendEnd
      <4>2. t.flags = flags_ \ {"SENDING"} /\ Sound(t.entry)
            /\ t.entry.wr = FALSE /\ t.entry.rd = entry.rd
        <5>1. Sound(entry) /\ ("SENDING" \notin flags_ => entry.wr = FALSE)
          BY DEF PollerInv, Sound
        <5> QED BY <5>1, StopSendSound
      <4> HIDE DEF t
      <4> QED BY <3>1, <3>2, <4>1, <4>2 DEF PollerInv
    <3>3. CASE ~isEpoll
      <4>1. UNCHANGED <<flags_, entry, fault>> BY <2>3, <3>3 DEF ProcessSendEnd
      <4> QED BY <3>1, <4>1 DEF PollerInv
    <3> QED BY <3>2, <3>3
  <2>4. ASSUME NEW n, NEW ok \in BOOLEAN, DoSendPart(n, ok) PROVE PollerInv'
    <3> DEFINE f == Condemned(flags_, TickSentOverflow \/ sendfailCount_' >= SendFailLimit)
    <3>1. pc = "send" /\ UNCHANGED <<endPoint, fault>> /\ ReturnFalse(Rest(Advanced(n)), f, ok)
      BY <2>4 DEF DoSendPart
    <3>2. f = flags_ \/ f = flags_ \cup {"CONDEMN"} BY DEF Condemned
    <3> HIDE DEF f
    <3> QED BY <3>1, <3>2, PollerReturnFalse DEF Typing
  <2> QED BY <1>3, <2>1, <2>2, <2>3, <2>4 DEF SendLoop
<1>4. ASSUME Writable PROVE PollerInv'
  <2>1. UNCHANGED <<flags_, endPoint, entry, bundles_, fault>> /\ pc = "loop" /\ entry.wr
    BY <1>4 DEF Writable, Idle
  <2>2. UNCHANGED ctrl \/ (pc' = "send" /\ isEpoll' = TRUE) BY <1>4 DEF Writable
  <2> QED BY <2>1, <2>2 DEF PollerInv
<1>5. ASSUME Readable PROVE PollerInv'
  BY <1>5 DEF Readable, Idle, PollerInv
<1>6. ASSUME RecvLoop PROVE PollerInv'
  <2>1. ASSUME NEW n, ProcessRecv(n) PROVE PollerInv'
    <3>1. flags_' = Condemned(flags_, TickReceivedOverflow \/ ReceiveWindowFull(Len(bufferedReceives_')))
      BY <2>1 DEF ProcessRecv
    <3>2. flags_' = flags_ \/ flags_' = flags_ \cup {"CONDEMN"} BY <3>1 DEF Condemned
    <3>3. pc = "recv" /\ UNCHANGED <<entry, endPoint, bundles_, pc, isEpoll, fault>>
      BY <2>1 DEF ProcessRecv
    <3> QED BY <3>2, <3>3 DEF PollerInv
  <2>2. ASSUME NEW error, ProcessRecvEnd(error) PROVE PollerInv'
    <3>1. flags_' = Condemned(flags_, error \/ (inbox = 0 /\ eof)) BY <2>2 DEF ProcessRecvEnd
    <3>2. flags_' = flags_ \/ flags_' = flags_ \cup {"CONDEMN"} BY <3>1 DEF Condemned
    <3>3. pc = "recv" /\ pc' = "loop" /\ UNCHANGED <<entry, endPoint, bundles_, isEpoll, fault>>
      BY <2>2 DEF ProcessRecvEnd
    <3> QED BY <3>2, <3>3 DEF PollerInv
  <2> QED BY <1>6, <2>1, <2>2 DEF RecvLoop
<1>7. ASSUME TickLoop PROVE PollerInv'
  <2>1. /\ pc \in {"tick", "handler"} /\ pc' \in {"tick", "handler", "loop"}
        /\ UNCHANGED <<entry, endPoint, bundles_, isEpoll>>
    BY <1>7 DEF TickLoop, ReadPacket, HandlerReturns, HandlerThrows, ProcessPacketsEnd
  <2>2. flags_' = flags_ \/ flags_' = flags_ \cup {"CONDEMN"}
    BY <1>7 DEF TickLoop, ReadPacket, HandlerReturns, HandlerThrows, ProcessPacketsEnd
  <2>3. fault' = fault \/ fault' = "null"
    BY <1>7 DEF TickLoop, ReadPacket, HandlerReturns, HandlerThrows, ProcessPacketsEnd
  <2> QED BY <2>1, <2>2, <2>3 DEF PollerInv
<1>8. ASSUME ProcessPackets PROVE PollerInv'
  BY <1>8 DEF ProcessPackets, Idle, PollerInv
<1>9. ASSUME Destroy PROVE PollerInv'
  <2> DEFINE t == StopSend(flags_, entry)
             r == StopRecv(t.flags, t.entry)
  <2>1. pc \in {"loop", "handler"} /\ UNCHANGED <<pc, isEpoll, fault>> /\ bundles_' = <<>>
        /\ endPoint' = FALSE
    BY <1>9 DEF Destroy, User
  <2>2. flags_' = r.flags \cup {"DESTROYED"} /\ entry' = r.entry
    BY <1>9 DEF Destroy, ClearState
  <2>3. t.flags = flags_ \ {"SENDING"} /\ Sound(t.entry)
        /\ t.entry.wr = FALSE /\ t.entry.rd = entry.rd
    <3>1. Sound(entry) /\ ("SENDING" \notin flags_ => entry.wr = FALSE)
      BY DEF PollerInv, Sound
    <3> QED BY <3>1, StopSendSound
  <2>4. "RECVING" \notin t.flags => t.entry.rd = FALSE
    BY <2>3 DEF PollerInv, Sound
  <2> HIDE DEF t
  <2>5. r.flags = t.flags \ {"RECVING"} /\ Sound(r.entry)
        /\ r.entry.rd = FALSE /\ r.entry.wr = t.entry.wr
    BY <2>3, <2>4, StopRecvSound
  <2> HIDE DEF r
  <2> QED BY <2>1, <2>2, <2>3, <2>5 DEF PollerInv
<1>10. ASSUME Condemn PROVE PollerInv'
  BY <1>10 DEF Condemn, User, PollerInv
<1>11. ASSUME NullEndPoint PROVE PollerInv'
  BY <1>11 DEF NullEndPoint, User, PollerInv
<1>12. ASSUME PeerSends \/ PeerCloses \/ PeerReads \/ UNCHANGED vars PROVE PollerInv'
  <2>1. UNCHANGED <<flags_, endPoint, bundles_, entry, pc, isEpoll, fault>>
    BY <1>12 DEF PeerSends, PeerCloses, PeerReads, vars
  <2> QED BY <2>1 DEF PollerInv
<1> QED
  BY <1>1, <1>2, <1>3, <1>4, <1>5, <1>6, <1>7, <1>8, <1>9, <1>10, <1>11, <1>12
  DEF Next, SendPacket, Flush

-----------------------------------------------------------------------------
(* From send() to the wire                                                  *)

\* What a step may do that sends and queues nothing.
LEMMA SendFrame ==
  ASSUME SendInv, UNCHANGED <<bundles_, accepted, wire, index>>, pc' # "send" => index = 1,
         Closed => Closed'
  PROVE  SendInv'
<1>1. ~Closed' => QueueFollows' BY DEF SendInv, QueueFollows
<1> QED BY <1>1 DEF SendInv

\* n more bytes of packet `index' are the n bytes that follow those on the wire.
LEMMA WroteFollows ==
  ASSUME Typing, SendInv, QueueFollows, index =< Len(bundles_), NEW n \in Nat,
         n =< bundles_[index].len - bundles_[index].sent, Wrote(n)
  PROVE  /\ wire' \in Seq(Nat) /\ \A k \in 1..Len(wire') : wire'[k] = k
         /\ Len(wire') = Len(wire) + n /\ Len(wire') =< accepted
<1> DEFINE b == Bytes(bundles_[index].at + bundles_[index].sent, n)
<1>1. index \in 1..Len(bundles_) /\ bundles_[index] \in Bundle
  BY DEF Typing, QueueTyped
<1>2. bundles_[index].at + bundles_[index].sent = Len(wire) /\ wire \in Seq(Nat)
      /\ \A k \in 1..Len(wire) : wire[k] = k
  BY <1>1 DEF QueueFollows, SendInv
<1>3. b = [k \in 1..n |-> Len(wire) + k] BY <1>2 DEF Bytes
<1>4. wire' = wire \o b BY DEF Wrote
<1> HIDE DEF b
<1>5. b \in Seq(Nat) /\ Len(b) = n /\ \A k \in 1..n : b[k] = Len(wire) + k
  BY <1>2, <1>3
<1>6. /\ wire' \in Seq(Nat) /\ Len(wire') = Len(wire) + n
      /\ \A k \in 1..Len(wire) + n : wire'[k] = IF k =< Len(wire) THEN wire[k] ELSE b[k - Len(wire)]
  BY <1>2, <1>4, <1>5, ConcatProperties
<1>10. Len(wire) \in Nat BY <1>2
<1>7. ASSUME NEW k \in 1..Len(wire') PROVE wire'[k] = k
  <2>1. CASE k =< Len(wire) BY <1>2, <1>6, <1>10, <2>1
  <2>2. CASE k > Len(wire)
    <3>1. k - Len(wire) \in 1..n BY <1>2, <1>6, <2>2
    <3>2. b[k - Len(wire)] = Len(wire) + (k - Len(wire)) BY <1>5, <3>1
    <3> QED BY <1>2, <1>6, <2>2, <3>2
  <2> QED BY <1>2, <2>1, <2>2
<1>8. bundles_[index].at + bundles_[index].len =< accepted BY <1>1 DEF QueueFollows
<1>9. Len(wire) + n =< accepted BY <1>1, <1>2, <1>8 DEF Bundle, Typing
<1> QED BY <1>6, <1>7, <1>9

\* Every step keeps what is sent, queued and accepted in order.
LEMMA StepSend == Typing /\ PollerInv /\ SendInv /\ [Next]_vars => SendInv'
<1> SUFFICES ASSUME Typing, PollerInv, SendInv, [Next]_vars PROVE SendInv'
  OBVIOUS
<1> USE DEF txVars, rxVars, ctrl, net
<1>1. ASSUME NEW n \in Lengths, SendPacket(n) PROVE SendInv'
  <2> DEFINE p == [at |-> accepted, len |-> n, sent |-> 0]
             q == Append(bundles_, p)
  <2>1. n \in Nat /\ accepted \in Nat BY ChannelAssumption DEF Typing
  <2>2. p \in Bundle /\ p.at = accepted /\ p.len = n /\ p.sent = 0 BY <2>1 DEF Bundle
  <2>3. bundles_ \in Seq(Bundle) /\ Len(bundles_) \in Nat BY DEF Typing, QueueTyped
  <2>4. Send(q, n) BY <1>1 DEF SendPacket
  <2> HIDE DEF p
  <2>5. /\ Len(q) = Len(bundles_) + 1 /\ q[Len(bundles_) + 1] = p
        /\ \A k \in 1..Len(bundles_) : q[k] = bundles_[k]
    BY <2>2, <2>3
  <2> HIDE DEF q
  <2>6. pc # "send" /\ index = 1 /\ wire' = wire /\ endPoint' = endPoint
    BY <2>4 DEF Send, User, SendInv
  <2>7. index' = 1
    BY <2>4, <2>6 DEF Send
  <2>8. CASE isCondemn
    <3>1. UNCHANGED <<flags_, accepted>> BY <2>4, <2>8 DEF Send
    <3> QED BY <2>6, <2>7, <2>8, <3>1 DEF SendInv, Closed
  <2>9. CASE ~isCondemn
    <3>1. bundles_' = q /\ accepted' = accepted + n BY <2>4, <2>9 DEF Send
    <3>2. endPoint BY <2>4 DEF Send
    <3>3. QueueFollows BY <2>9, <3>2 DEF SendInv, Closed
    <3>4. ASSUME NEW k \in 1..Len(q)
          PROVE  /\ q[k].at + q[k].len =< accepted + n
                 /\ q[k].at + q[k].len = IF k = Len(q) THEN accepted + n ELSE q[k + 1].at
                 /\ k > 1 => q[k].sent = 0
      <4>1. CASE k = Len(q) BY <2>1, <2>2, <2>3, <2>5, <4>1
      <4>2. CASE k < Len(q)
        <5>1. k \in 1..Len(bundles_) /\ q[k] = bundles_[k] /\ bundles_[k] \in Bundle
          BY <2>3, <2>5, <4>2
        <5>2. /\ q[k].at + q[k].len =< accepted
              /\ q[k].at + q[k].len = IF k = Len(bundles_) THEN accepted ELSE bundles_[k + 1].at
              /\ k > 1 => q[k].sent = 0
          BY <2>6, <3>3, <5>1 DEF QueueFollows
        <5>3. q[k + 1] = IF k = Len(bundles_) THEN p ELSE bundles_[k + 1]
          BY <2>3, <2>5, <5>1
        <5>4. q[k].at + q[k].len =< accepted + n BY <2>1, <5>1, <5>2 DEF Bundle
        <5> QED BY <2>2, <2>3, <2>5, <4>2, <5>2, <5>3, <5>4
      <4> QED BY <2>3, <2>5, <4>1, <4>2
    <3>5. Len(wire) = q[1].at + q[1].sent
      <4>1. CASE Len(bundles_) = 0
        BY <2>1, <2>2, <2>5, <2>6, <3>3, <4>1 DEF QueueFollows
      <4>2. CASE Len(bundles_) > 0
        BY <2>3, <2>5, <2>6, <3>3, <4>2 DEF QueueFollows
      <4> QED BY <2>3, <4>1, <4>2
    <3>6. QueueFollows'
      BY <2>3, <2>5, <2>6, <2>7, <3>1, <3>4, <3>5 DEF QueueFollows
    <3>7. Len(wire) =< accepted + n BY <2>1 DEF SendInv
    <3> QED BY <2>6, <2>7, <3>1, <3>6, <3>7 DEF SendInv
  <2> QED BY <2>8, <2>9
<1>2. ASSUME Flush PROVE SendInv'
  <2>1. Send(bundles_, 0) BY <1>2 DEF Flush
  <2>2. pc # "send" /\ index = 1 /\ wire' = wire /\ endPoint' = endPoint
    BY <2>1 DEF Send, User, SendInv
  <2>3. index' = 1 BY <2>1, <2>2 DEF Send
  <2>4. CASE isCondemn
    <3>1. UNCHANGED <<flags_, accepted>> BY <2>1, <2>4 DEF Send
    <3> QED BY <2>2, <2>3, <2>4, <3>1 DEF SendInv, Closed
  <2>5. CASE ~isCondemn
    <3>1. bundles_' = bundles_ /\ accepted' = accepted + 0 BY <2>1, <2>5 DEF Send
    <3>2. accepted' = accepted BY <3>1 DEF Typing
    <3>3. Closed => Closed' BY <2>1, <2>2, <2>5 DEF Closed, Send
    <3> QED BY <2>2, <2>3, <3>1, <3>2, <3>3, SendFrame
  <2> QED BY <2>4, <2>5
<1>3. ASSUME DoSendAll PROVE SendInv'
  <2> DEFINE n == bundles_[index].len - bundles_[index].sent
  <2>1. /\ index \in 1..Len(bundles_) /\ bundles_[index] \in Bundle
        /\ bundles_[index].sent =< bundles_[index].len
        /\ QueueTyped /\ index \in Nat \ {0} /\ Len(bundles_) \in Nat
    BY <1>3 DEF DoSendAll, Typing, QueueTyped
  <2>2. n \in Nat /\ n =< bundles_[index].len - bundles_[index].sent
        /\ bundles_[index].sent + n = bundles_[index].len
    BY <2>1 DEF Bundle
  <2>3. bundles_' = Advanced(n) /\ Wrote(n) BY <1>3 DEF DoSendAll
  <2> HIDE DEF n
  <2>4. /\ index' = index + 1 /\ pc = "send" /\ pc' = pc /\ accepted' = accepted
        /\ endPoint' = endPoint /\ ~isCondemn
    BY <1>3 DEF DoSendAll
  <2>5. QueueFollows BY <2>4 DEF SendInv, Closed, PollerInv
  <2>6. /\ wire' \in Seq(Nat) /\ \A k \in 1..Len(wire') : wire'[k] = k
        /\ Len(wire') = Len(wire) + n /\ Len(wire') =< accepted
    BY <2>1, <2>2, <2>3, <2>5, WroteFollows
  <2>7. /\ Len(bundles_') = Len(bundles_)
        /\ \A k \in 1..Len(bundles_) : k # index => bundles_'[k] = bundles_[k]
        /\ bundles_'[index].at = bundles_[index].at
        /\ bundles_'[index].len = bundles_[index].len
    BY <2>1, <2>2, <2>3, AdvancedTyped
  <2>8. ASSUME NEW k \in 1..Len(bundles_')
        PROVE  /\ bundles_'[k].at + bundles_'[k].len =< accepted
               /\ bundles_'[k].at + bundles_'[k].len =
                    IF k = Len(bundles_') THEN accepted ELSE bundles_'[k + 1].at
               /\ k > index + 1 => bundles_'[k].sent = 0
    <3>1. k \in 1..Len(bundles_) BY <2>7
    <3>2. bundles_'[k].at = bundles_[k].at /\ bundles_'[k].len = bundles_[k].len
      BY <2>7, <3>1
    <3>3. k # Len(bundles_) => bundles_'[k + 1].at = bundles_[k + 1].at
      BY <2>1, <2>7, <3>1
    <3>4. k > index + 1 => k > index /\ bundles_'[k] = bundles_[k]
      BY <2>1, <2>7, <3>1
    <3> QED BY <2>5, <2>7, <3>1, <3>2, <3>3, <3>4 DEF QueueFollows
  <2>9. Len(wire') = bundles_[index].at + bundles_[index].len
    BY <2>1, <2>2, <2>5, <2>6 DEF QueueFollows, Bundle
  <2>10. Len(wire') = IF index + 1 > Len(bundles_') THEN accepted
                      ELSE bundles_'[index + 1].at + bundles_'[index + 1].sent
    <3>1. CASE index = Len(bundles_) BY <2>1, <2>5, <2>7, <2>9, <3>1 DEF QueueFollows
    <3>2. CASE index < Len(bundles_)
      <4>1. index + 1 \in 1..Len(bundles_) /\ bundles_'[index + 1] = bundles_[index + 1]
            /\ bundles_[index + 1] \in Bundle
        BY <2>1, <2>7, <3>2 DEF QueueTyped
      <4>2. bundles_[index + 1].sent = 0
            /\ bundles_[index].at + bundles_[index].len = bundles_[index + 1].at
        BY <2>1, <2>5, <3>2, <4>1 DEF QueueFollows
      <4> QED BY <2>1, <2>7, <2>9, <3>2, <4>1, <4>2 DEF Bundle
    <3> QED BY <2>1, <3>1, <3>2
  <2>11. QueueFollows' BY <2>4, <2>7, <2>8, <2>10 DEF QueueFollows
  <2> QED BY <2>4, <2>6, <2>11 DEF SendInv
<1>4. ASSUME NEW n \in Nat, NEW ok, DoSendPart(n, ok) PROVE SendInv'
  <2> DEFINE a == Advanced(n)
             r == Rest(a)
  <2>1. /\ index \in 1..Len(bundles_) /\ bundles_[index] \in Bundle
        /\ QueueTyped /\ index \in Nat \ {0} /\ Len(bundles_) \in Nat
    BY <1>4 DEF DoSendPart, Typing, QueueTyped
  <2>2. n =< bundles_[index].len - bundles_[index].sent BY <1>4, <2>1 DEF DoSendPart, Bundle
  <2>3. /\ ~isCondemn /\ accepted' = accepted /\ endPoint' = endPoint /\ pc = "send"
        /\ Wrote(n) /\ bundles_' = r /\ index' = 1
    BY <1>4 DEF DoSendPart, ReturnFalse, SendReturns
  <2>4. QueueFollows BY <2>3 DEF SendInv, Closed, PollerInv
  <2>5. /\ wire' \in Seq(Nat) /\ \A k \in 1..Len(wire') : wire'[k] = k
        /\ Len(wire') = Len(wire) + n /\ Len(wire') =< accepted
    BY <2>1, <2>2, <2>3, <2>4, WroteFollows
  <2>6. /\ a \in Seq(Bundle) /\ Len(a) = Len(bundles_)
        /\ \A k \in 1..Len(bundles_) : k # index => a[k] = bundles_[k]
        /\ a[index].at = bundles_[index].at
        /\ a[index].len = bundles_[index].len
        /\ a[index].sent = bundles_[index].sent + n
        /\ \A k \in 1..Len(a) : a[k].sent =< a[k].len
    BY <2>1, <2>2, AdvancedTyped
  <2> HIDE DEF a
  <2>7. /\ Len(r) = Len(a) - index + 1 /\ Len(r) > 0
        /\ \A k \in 1..Len(r) : r[k] = a[k + index - 1]
    <3>1. /\ a \in Seq(Bundle) /\ index \in Nat \ {0} /\ index =< Len(a) /\ Len(a) \in Nat
          /\ \A k \in 1..Len(a) : a[k].sent =< a[k].len
      BY <2>1, <2>6
    <3>2. /\ Len(r) = Len(a) - index + 1
          /\ \A k \in 1..Len(r) : r[k] = a[k + index - 1]
      BY <3>1, RestTyped
    <3> HIDE DEF r
    <3> QED BY <3>1, <3>2
  <2> HIDE DEF r
  <2>8. ASSUME NEW k \in 1..Len(r)
        PROVE  /\ r[k].at + r[k].len =< accepted
               /\ r[k].at + r[k].len = IF k = Len(r) THEN accepted ELSE r[k + 1].at
               /\ k > 1 => r[k].sent = 0
    <3> DEFINE j == k + index - 1
    <3>1. j \in 1..Len(bundles_) /\ r[k] = a[j] /\ (k > 1 => j > index)
          /\ (k = Len(r) <=> j = Len(bundles_))
      BY <2>1, <2>6, <2>7
    <3>2. ASSUME k # Len(r)
          PROVE  r[k + 1] = a[j + 1] /\ j + 1 \in 1..Len(bundles_) /\ j + 1 # index
      <4>3. Len(r) \in Nat /\ k \in Nat BY <2>1, <2>6, <2>7
      <4>1. k + 1 \in 1..Len(r) /\ k + 1 + index - 1 = j + 1 BY <2>1, <3>2, <4>3
      <4>2. r[k + 1] = a[k + 1 + index - 1] BY <2>7, <4>1
      <4> QED BY <2>1, <2>6, <2>7, <3>1, <4>1, <4>2
    <3> HIDE DEF j
    <3>3. a[j].at = bundles_[j].at /\ a[j].len = bundles_[j].len BY <2>6, <3>1
    <3>4. k # Len(r) => r[k + 1].at = bundles_[j + 1].at BY <2>6, <3>2
    <3>5. k > 1 => r[k].sent = bundles_[j].sent /\ bundles_[j].sent = 0
      BY <2>1, <2>4, <2>6, <3>1 DEF QueueFollows
    <3> QED BY <2>4, <3>1, <3>3, <3>4, <3>5 DEF QueueFollows
  <2>9. Len(wire') = r[1].at + r[1].sent
    <3>1. r[1] = a[index] BY <2>1, <2>7
    <3>2. Len(wire) = bundles_[index].at + bundles_[index].sent
      BY <2>1, <2>4 DEF QueueFollows
    <3>3. bundles_[index].at \in Nat /\ bundles_[index].sent \in Nat BY <2>1 DEF Bundle
    <3> QED BY <2>5, <2>6, <3>1, <3>2, <3>3
  <2>10. Len(r) \in Nat BY <2>1, <2>6, <2>7
  <2>11. QueueFollows' BY <2>3, <2>7, <2>8, <2>9, <2>10 DEF QueueFollows
  <2> QED BY <2>3, <2>5, <2>11 DEF SendInv
<1>5. ASSUME DoSendError PROVE SendInv'
  <2>1. isCondemn' /\ UNCHANGED <<accepted, wire>> /\ index' = 1
    BY <1>5 DEF DoSendError, ReturnFalse, AsksCallback, SendReturns
  <2> QED BY <2>1 DEF SendInv, Closed
<1>6. ASSUME ProcessSendEnd PROVE SendInv'
  <2>1. /\ bundles_' = <<>> /\ index' = 1 /\ UNCHANGED <<accepted, wire, endPoint>>
        /\ index > Len(bundles_) /\ pc = "send"
    BY <1>6 DEF ProcessSendEnd, SendReturns
  <2>2. isCondemn => isCondemn' BY <1>6, StopsAre DEF ProcessSendEnd, StopSend
  <2>3. ~Closed' => Len(wire) = accepted BY <2>1, <2>2 DEF SendInv, QueueFollows, Closed
  <2>4. ~Closed' => QueueFollows' BY <2>1, <2>3 DEF QueueFollows
  <2> QED BY <2>1, <2>4 DEF SendInv
<1>7. ASSUME SendLoop PROVE SendInv'
  <2>1. ASSUME NEW len \in Lengths, NEW ok \in BOOLEAN, NEW n \in 0..len, DoSendPart(n, ok)
        PROVE  SendInv'
    BY <1>4, <2>1, ChannelAssumption
  <2> QED BY <1>3, <1>5, <1>6, <1>7, <2>1 DEF SendLoop
<1>8. ASSUME RecvLoop PROVE SendInv'
  <2>1. ASSUME NEW n, ProcessRecv(n) PROVE SendInv'
    <3>1. UNCHANGED <<bundles_, accepted, wire, index, endPoint, pc>>
      BY <2>1 DEF ProcessRecv
    <3>2. isCondemn => isCondemn' BY <2>1 DEF ProcessRecv, Condemned
    <3>3. (pc' # "send" => index = 1) /\ (Closed => Closed') BY <3>1, <3>2 DEF SendInv, Closed
    <3> QED BY <3>1, <3>3, SendFrame
  <2>2. ASSUME NEW error, ProcessRecvEnd(error) PROVE SendInv'
    <3>1. UNCHANGED <<bundles_, accepted, wire, index, endPoint>> /\ pc = "recv"
      BY <2>2 DEF ProcessRecvEnd
    <3>2. isCondemn => isCondemn' BY <2>2 DEF ProcessRecvEnd, Condemned
    <3>3. (pc' # "send" => index = 1) /\ (Closed => Closed') BY <3>1, <3>2 DEF SendInv, Closed
    <3> QED BY <3>1, <3>3, SendFrame
  <2> QED BY <1>8, <2>1, <2>2 DEF RecvLoop
<1>9. ASSUME TickLoop PROVE SendInv'
  <2>1. /\ pc \in {"tick", "handler"} /\ UNCHANGED <<bundles_, accepted, wire, index, endPoint>>
        /\ (isCondemn => isCondemn')
    BY <1>9 DEF TickLoop, ReadPacket, HandlerReturns, HandlerThrows, ProcessPacketsEnd
  <2>2. (pc' # "send" => index = 1) /\ (Closed => Closed') BY <2>1 DEF SendInv, Closed
  <2> QED BY <2>1, <2>2, SendFrame
<1>10. ASSUME Destroy PROVE SendInv'
  <2>1. pc \in {"loop", "handler"} /\ UNCHANGED <<pc, index, accepted, wire>> /\ Closed'
    BY <1>10 DEF Destroy, User, Closed
  <2> QED BY <2>1 DEF SendInv
<1>11. ASSUME Writable PROVE SendInv'
  <2>1. UNCHANGED <<bundles_, accepted, wire, flags_, endPoint>> /\ pc = "loop" /\ index' = index
        BY <1>11 DEF Writable, Idle, SendInv
  <2>2. index = 1 /\ (Closed => Closed') BY <2>1 DEF SendInv, Closed
  <2> QED BY <2>1, <2>2, SendFrame
<1>12. ASSUME Readable \/ ProcessPackets \/ Condemn \/ NullEndPoint \/ PeerSends \/ PeerCloses
              \/ PeerReads
              \/ UNCHANGED vars \/ \E ok \in BOOLEAN : Initialize(ok)
       PROVE  SendInv'
  <2>1. UNCHANGED <<bundles_, accepted, wire, index, endPoint>> /\ (isCondemn => isCondemn')
    BY <1>12 DEF Readable, ProcessPackets, Condemn, NullEndPoint, PeerSends, PeerCloses,
                 PeerReads, vars, Initialize
  <2>2. pc' # "send" => pc # "send"
    BY <1>12 DEF Readable, ProcessPackets, Condemn, NullEndPoint, PeerSends, PeerCloses,
                 PeerReads, vars, Initialize, User, Idle
  <2>3. (pc' # "send" => index = 1) /\ (Closed => Closed')
    BY <2>1, <2>2 DEF SendInv, Closed
  <2> QED BY <2>1, <2>3, SendFrame
<1> QED BY <1>1, <1>2, <1>7, <1>8, <1>9, <1>10, <1>11, <1>12 DEF Next

-----------------------------------------------------------------------------
(* From recv() to the reader                                                *)

\* What a step may do that neither receives nor handles anything.
LEMMA RecvFrame ==
  ASSUME RecvInv, UNCHANGED <<handled, nread, bufferedReceives_>>, endPoint' => endPoint,
         ~endPoint' => ~endPoint, Open' => Open /\ Position' = Position
  PROVE  RecvInv'
<1>1. Open' => BufferFollows' BY DEF RecvInv, BufferFollows
<1> QED BY <1>1 DEF RecvInv

\* The components of a pair of numbers.
LEMMA PairIs == ASSUME NEW x \in Nat \X Nat PROVE x[1] \in Nat /\ x[2] \in Nat
OBVIOUS

\* Every step keeps what is received in order.
LEMMA StepRecv == Typing /\ PollerInv /\ RecvInv /\ [Next]_vars => RecvInv'
<1> SUFFICES ASSUME Typing, PollerInv, RecvInv, [Next]_vars PROVE RecvInv'
  OBVIOUS
<1> USE DEF txVars, rxVars, ctrl, net
<1>1. ASSUME NEW q, NEW n, Send(q, n) PROVE RecvInv'
  <2>1. /\ UNCHANGED <<handled, nread, bufferedReceives_, endPoint, served>>
        /\ pc \in {"loop", "handler"}
        /\ UNCHANGED <<pc, caller>> \/ (pc' = "send" /\ caller' = pc)
    BY <1>1 DEF Send, User
  <2>2. isCondemn => isCondemn' BY <1>1 DEF Send
  <2>3. Ticking' <=> Ticking BY <2>1 DEF Ticking
  <2> QED BY <2>1, <2>2, <2>3, RecvFrame DEF Open, Position
<1>2. ASSUME SendLoop PROVE RecvInv'
  <2>1. /\ UNCHANGED <<handled, nread, bufferedReceives_, endPoint, served>> /\ pc = "send"
        /\ UNCHANGED <<pc, caller>> \/ pc' = caller
    BY <1>2 DEF SendLoop, DoSendAll, DoSendError, ProcessSendEnd, DoSendPart, ReturnFalse,
                SendReturns
  <2>2. isCondemn => isCondemn'
    <3>1. DoSendAll \/ DoSendPart(0, TRUE) => ~isCondemn BY DEF DoSendAll, DoSendPart
    <3>2. ASSUME NEW n, NEW ok, DoSendPart(n, ok) PROVE ~isCondemn BY <3>2 DEF DoSendPart
    <3>3. DoSendError => isCondemn' BY DEF DoSendError, ReturnFalse, AsksCallback
    <3>4. ProcessSendEnd /\ isCondemn => isCondemn' BY DEF ProcessSendEnd, StopSend
    <3> QED BY <1>2, <3>1, <3>2, <3>3, <3>4 DEF SendLoop
  <2>3. Ticking' <=> Ticking BY <2>1 DEF Ticking, Typing
  <2> QED BY <2>1, <2>2, <2>3, RecvFrame DEF Open, Position
<1>3. ASSUME NEW n \in 1..RecvMax, ProcessRecv(n) PROVE RecvInv'
  <2> DEFINE b == bufferedReceives_
             p == <<nread + 1, nread + n>>
  <2>1. /\ pc = "recv" /\ ~isCondemn /\ endPoint /\ pc' = pc /\ endPoint' = endPoint
        /\ handled' = handled /\ nread' = nread + n /\ bufferedReceives_' = Append(b, p)
        /\ n \in Nat /\ n > 0 /\ nread \in Nat /\ b \in Seq(Nat \X Nat)
    BY <1>3, ChannelAssumption DEF ProcessRecv, PollerInv, Typing
  <2>2. ~Ticking /\ ~Ticking' /\ Position = 1 /\ Position' = 1 BY <2>1 DEF Ticking, Position
  <2>3. BufferFollows BY <2>1 DEF RecvInv, Open
  <2>4. p \in Nat \X Nat /\ p[1] = nread + 1 /\ p[2] = nread + n BY <2>1
  <2> HIDE DEF p
  <2> DEFINE c == Append(b, p)
  <2>5. /\ Len(c) = Len(b) + 1 /\ c[Len(b) + 1] = p /\ Len(b) \in Nat
        /\ \A k \in 1..Len(b) : c[k] = b[k]
    BY <2>1, <2>4
  <2>6. bufferedReceives_' = c BY <2>1
  <2> HIDE DEF c
  <2>7. ASSUME NEW k \in 1..Len(c)
        PROVE  /\ c[k][1] =< c[k][2] /\ c[k][1] > 0 /\ c[k][2] =< nread + n
               /\ c[k][2] = IF k = Len(c) THEN nread + n ELSE c[k + 1][1] - 1
    <3>1. CASE k = Len(c) BY <2>1, <2>4, <2>5, <3>1
    <3>2. CASE k < Len(c)
      <4>1. k \in 1..Len(b) /\ c[k] = b[k] BY <2>5, <3>2
      <4>2. b[k] \in Nat \X Nat BY <2>1, <4>1
      <4>3. /\ b[k][1] =< b[k][2] /\ b[k][1] > 0 /\ b[k][2] =< nread
            /\ b[k][2] = IF k = Len(b) THEN nread ELSE b[k + 1][1] - 1
        BY <2>3, <4>1 DEF BufferFollows
      <4>4. c[k + 1] = IF k = Len(b) THEN p ELSE b[k + 1] BY <2>5, <4>1
      <4>7. b[k][2] \in Nat BY <4>2, PairIs
      <4>8. nread \in Nat /\ n \in Nat /\ b[k][2] =< nread BY <2>1, <4>3
      <4> HIDE DEF b
      <4>5. b[k][2] =< nread + n BY <4>7, <4>8
      <4>6. c[k][2] = c[k + 1][1] - 1
        <5>1. CASE k = Len(b) BY <2>1, <2>4, <4>1, <4>3, <4>4, <5>1
        <5>2. CASE k # Len(b) BY <4>1, <4>3, <4>4, <5>2
        <5> QED BY <5>1, <5>2
      <4> QED BY <3>2, <4>1, <4>3, <4>5, <4>6
    <3> QED BY <2>5, <3>1, <3>2
  <2>8. Len(handled) = c[1][1] - 1
    <3>1. CASE Len(b) = 0 BY <2>1, <2>2, <2>3, <2>4, <2>5, <3>1 DEF BufferFollows
    <3>2. CASE Len(b) > 0 BY <2>2, <2>3, <2>5, <3>2 DEF BufferFollows
    <3> QED BY <2>5, <3>1, <3>2
  <2>9. BufferFollows'
    <3>1. Len(c) >= 1 /\ nread' = nread + n /\ handled' = handled BY <2>1, <2>5
    <3>2. Len(handled)' = IF Position' > Len(c) THEN nread' ELSE c[Position'][1] - 1
      BY <2>2, <2>8, <3>1
    <3> QED BY <2>6, <2>7, <3>1, <3>2 DEF BufferFollows
  <2>10. Len(handled) =< nread + n BY <2>1 DEF RecvInv
  <2> QED BY <2>1, <2>9, <2>10 DEF RecvInv
<1>4. ASSUME NEW error, ProcessRecvEnd(error) PROVE RecvInv'
  <2>1. /\ UNCHANGED <<handled, nread, bufferedReceives_, endPoint, served>>
        /\ pc = "recv" /\ pc' = "loop" /\ (isCondemn => isCondemn')
    BY <1>4 DEF ProcessRecvEnd, Condemned
  <2>2. ~Ticking /\ ~Ticking' BY <2>1 DEF Ticking
  <2> QED BY <2>1, <2>2, RecvFrame DEF Open, Position
<1>5. ASSUME NEW complete, ReadPacket(complete) PROVE RecvInv'
  <2> DEFINE b == bufferedReceives_
             from == b[served][1]
             to == b[served][2]
             y == Bytes(from - 1, to - from + 1)
  <2>1. /\ pc = "tick" /\ pc' \in {"tick", "handler"} /\ served =< Len(b) /\ served \in Nat \ {0}
        /\ served' = served + 1 /\ handled' = handled \o y
        /\ UNCHANGED <<flags_, endPoint, bufferedReceives_, nread>>
        /\ b \in Seq(Nat \X Nat) /\ nread \in Nat
    BY <1>5 DEF ReadPacket, Typing
  <2>2. served \in 1..Len(b) /\ Len(b) \in Nat /\ from \in Nat /\ to \in Nat BY <2>1
  <2>3. endPoint BY <2>1, <2>2 DEF RecvInv
  <2>4. Ticking /\ Ticking' BY <2>1 DEF Ticking
  <2>5. BufferFollows /\ Position = served /\ Position' = served + 1
    BY <2>1, <2>3, <2>4 DEF RecvInv, Open, Position
  <2>6. /\ from =< to /\ from > 0 /\ to =< nread /\ Len(handled) = from - 1
        /\ to = IF served = Len(b) THEN nread ELSE b[served + 1][1] - 1
    BY <2>2, <2>5 DEF BufferFollows
  <2>7. handled \in Seq(Nat) /\ Len(handled) \in Nat
        /\ \A k \in 1..Len(handled) : handled[k] = k
    BY DEF RecvInv
  <2>8. y = [k \in 1..(to - from + 1) |-> from - 1 + k] BY DEF Bytes
  <2> HIDE DEF from, to, y
  <2>9. y \in Seq(Nat) /\ Len(y) = to - from + 1
        /\ \A k \in 1..(to - from + 1) : y[k] = from - 1 + k
    BY SMTT(30), <2>2, <2>6, <2>8
  <2>10. /\ handled' \in Seq(Nat) /\ Len(handled') = Len(handled) + Len(y)
         /\ \A k \in 1..Len(handled) + Len(y) :
              handled'[k] = IF k =< Len(handled) THEN handled[k] ELSE y[k - Len(handled)]
    BY <2>1, <2>7, <2>9, ConcatProperties
  <2>11. Len(handled') = to BY <2>2, <2>6, <2>9, <2>10
  <2>12. ASSUME NEW k \in 1..Len(handled') PROVE handled'[k] = k
    <3>1. CASE k =< Len(handled) BY <2>7, <2>10, <3>1
    <3>2. CASE k > Len(handled)
      <4>1. k - Len(handled) \in 1..(to - from + 1) BY <2>2, <2>6, <2>7, <2>11, <3>2
      <4>2. y[k - Len(handled)] = from - 1 + (k - Len(handled)) BY <2>9, <4>1
      <4> QED BY SMTT(30), <2>2, <2>6, <2>7, <2>10, <3>2, <4>2
    <3> QED BY <2>7, <3>1, <3>2
  <2>13. Len(handled') = IF served + 1 > Len(b) THEN nread ELSE b[served + 1][1] - 1
    BY <2>2, <2>6, <2>11
  <2>14. BufferFollows' BY <2>1, <2>5, <2>13 DEF BufferFollows
  <2> QED BY <2>1, <2>3, <2>6, <2>10, <2>11, <2>12, <2>14 DEF RecvInv
<1>6. ASSUME NEW more, HandlerReturns(more) PROVE RecvInv'
  <2>1. /\ UNCHANGED <<handled, nread, bufferedReceives_, endPoint, served, flags_>>
        /\ pc = "handler" /\ pc' \in {"handler", "tick"}
    BY <1>6 DEF HandlerReturns
  <2>2. Ticking /\ Ticking' BY <2>1 DEF Ticking
  <2> QED BY <2>1, <2>2, RecvFrame DEF Open, Position
<1>7. ASSUME HandlerThrows PROVE RecvInv'
  <2>1. UNCHANGED <<handled, nread, endPoint, served>> /\ pc = "handler"
    BY <1>7 DEF HandlerThrows
  <2>2. CASE endPoint
    <3>1. isCondemn' /\ pc' = "loop" BY <1>7, <2>2 DEF HandlerThrows
    <3>2. ~Open' BY <3>1 DEF Open, Ticking
    <3> QED BY <2>1, <2>2, <3>2 DEF RecvInv
  <2>3. CASE ~endPoint
    <3>1. UNCHANGED <<flags_, bufferedReceives_, pc>> BY <1>7, <2>3 DEF HandlerThrows
    <3>2. ~Open' BY <2>1, <2>3 DEF Open
    <3> QED BY <2>1, <3>1, <3>2, RecvFrame
  <2> QED BY <2>2, <2>3
<1>8. ASSUME ProcessPacketsEnd PROVE RecvInv'
  <2>1. /\ UNCHANGED <<handled, nread, endPoint, flags_>> /\ bufferedReceives_' = <<>>
        /\ pc = "tick" /\ pc' = "loop" /\ served > Len(bufferedReceives_)
    BY <1>8 DEF ProcessPacketsEnd, EmptyReceives
  <2>2. Ticking /\ ~Ticking' BY <2>1 DEF Ticking
  <2>3. Position' = 1 /\ Position = served BY <2>2 DEF Position
  <2>4. Open' => Len(handled) = nread
    BY <2>1, <2>2, <2>3 DEF Open, RecvInv, BufferFollows
  <2>5. Open' => BufferFollows' BY <2>1, <2>3, <2>4 DEF BufferFollows
  <2> QED BY <2>1, <2>5 DEF RecvInv
<1>9. ASSUME Destroy PROVE RecvInv'
  <2>1. UNCHANGED <<handled, nread>> /\ endPoint' = FALSE /\ bufferedReceives_' = <<>>
    BY <1>9 DEF Destroy
  <2>2. ~Open' BY <2>1 DEF Open
  <2> QED BY <2>1, <2>2 DEF RecvInv
<1>10. ASSUME ProcessPackets PROVE RecvInv'
  <2>1. UNCHANGED <<handled, nread, bufferedReceives_, endPoint, flags_>> /\ pc = "loop"
        /\ (pc' = "loop" \/ (~isCondemn /\ pc' = "tick" /\ served' = 1))
    BY <1>10 DEF ProcessPackets, Idle
  <2>2. Position = 1 /\ Position' = 1 /\ (Open' => Open)
    BY <2>1 DEF Position, Ticking, Open
  <2> QED BY <2>1, <2>2, RecvFrame
<1>11. ASSUME Condemn \/ NullEndPoint \/ PeerSends \/ PeerCloses \/ PeerReads \/ UNCHANGED vars PROVE RecvInv'
  <2>1. UNCHANGED <<handled, nread, bufferedReceives_, endPoint, served, pc, caller>>
        /\ (isCondemn => isCondemn')
    BY <1>11 DEF Condemn, NullEndPoint, PeerSends, PeerCloses, PeerReads, vars
  <2> QED BY <2>1, RecvFrame DEF Open, Position, Ticking
<1>12. ASSUME Readable \/ Writable \/ \E ok \in BOOLEAN : Initialize(ok) PROVE RecvInv'
  <2>1. /\ UNCHANGED <<handled, nread, bufferedReceives_, endPoint, served>>
        /\ (isCondemn => isCondemn') /\ pc \in {"loop", "new"}
        /\ pc' \in {"loop", "recv"} \/ (pc' = "send" /\ caller' = "loop")
    BY <1>12 DEF Readable, Writable, Initialize, Idle
  <2>2. ~Ticking /\ ~Ticking' BY <2>1 DEF Ticking
  <2> QED BY <2>1, <2>2, RecvFrame DEF Open, Position
<1>13. ASSUME RecvLoop PROVE RecvInv'
  BY <1>3, <1>4, <1>13 DEF RecvLoop
<1>14. ASSUME TickLoop PROVE RecvInv'
  BY <1>5, <1>6, <1>7, <1>8, <1>14 DEF TickLoop
<1> QED
  BY <1>1, <1>2, <1>9, <1>10, <1>11, <1>12, <1>13, <1>14 DEF Next, SendPacket, Flush

-----------------------------------------------------------------------------
(* The theorems                                                             *)

ChannelInv == Typing /\ PollerInv /\ SendInv /\ RecvInv

\* The channel's invariant at first.
LEMMA InitChannel == Init => ChannelInv
<1> SUFFICES ASSUME Init PROVE ChannelInv
  OBVIOUS
<1>1. /\ bundles_ = <<>> /\ wire = <<>> /\ handled = <<>> /\ bufferedReceives_ = <<>>
      /\ accepted = 0 /\ nread = 0 /\ index = 1 /\ pc = "new" /\ endPoint
  BY DEF Init
<1>2. QueueFollows BY <1>1 DEF QueueFollows
<1>3. SendInv BY <1>1, <1>2 DEF SendInv
<1>4. Position = 1 BY <1>1 DEF Position, Ticking
<1>5. BufferFollows BY <1>1, <1>4 DEF BufferFollows
<1>6. RecvInv BY <1>1, <1>5 DEF RecvInv
<1> QED BY <1>3, <1>6, InitTyped, InitPoller DEF ChannelInv

\* ChannelInv is invariant.
LEMMA ChannelInvHolds == Spec => []ChannelInv
<1>1. ChannelInv /\ [Next]_vars => ChannelInv'
  BY StepTyped, StepPoller, StepSend, StepRecv DEF ChannelInv
<1> QED BY <1>1, InitChannel, PTL DEF Spec

\* Types; no packet counts more bytes as sent than it has.
THEOREM Types == Spec => []TypeOK
<1>1. ChannelInv => TypeOK
  <2> SUFFICES ASSUME Typing PROVE TypeOK
    BY DEF ChannelInv
  <2>1. nread \in 0..PeerBytes /\ inbox \in 0..PeerBytes
    BY ChannelAssumption DEF Typing
  <2>2. \A k \in DOMAIN bundles_ : bundles_[k].sent =< bundles_[k].len
    <3>1. DOMAIN bundles_ = 1..Len(bundles_) BY DEF Typing, QueueTyped
    <3> QED BY <3>1 DEF Typing, QueueTyped
  <2> QED BY <2>1, <2>2 DEF TypeOK, Typing
<1> QED BY <1>1, ChannelInvHolds, PTL

\* The asserts of onSendCompleted and handleInputNotification never fail.
THEOREM Asserts == Spec => []AssertsHold
<1>1. ChannelInv => AssertsHold BY DEF ChannelInv, PollerInv, AssertsHold
<1> QED BY <1>1, ChannelInvHolds, PTL

\* Flags, handler maps and epoll's interest list agree between any two steps.
THEOREM Poller == Spec => []PollerAgrees
<1>1. ChannelInv => PollerAgrees
  <2> SUFFICES ASSUME PollerInv PROVE PollerAgrees
    BY DEF ChannelInv
  <2>1. entry.ctl = Wanted(entry) /\ entry.rd \in BOOLEAN /\ entry.wr \in BOOLEAN
    BY DEF PollerInv, Sound
  <2>2. ASSUME ~endPoint PROVE entry = NoEntry
    <3>1. entry.rd = FALSE /\ entry.wr = FALSE BY <2>1, <2>2 DEF PollerInv
    <3>2. entry.ctl = Absent BY <2>1, <3>1, WantedIs
    <3>3. entry \in [rd : BOOLEAN, wr : BOOLEAN, ctl : SUBSET {"IN", "OUT", "absent"}]
      BY DEF PollerInv, Sound
    <3> QED BY <3>1, <3>2, <3>3 DEF NoEntry
  <2>3. entry.rd = recving BY <2>1 DEF PollerInv
  <2> QED BY <2>1, <2>2, <2>3 DEF PollerInv, PollerAgrees
<1> QED BY <1>1, ChannelInvHolds, PTL

\* What a healthy channel has not put on the wire is queued.
THEOREM Nothing == Spec => []NothingLost
<1>1. ChannelInv => NothingLost
  <2> SUFFICES ASSUME ChannelInv, ~Closed PROVE NothingLost
    BY DEF NothingLost
  <2>1. DOMAIN bundles_ = 1..Len(bundles_) BY DEF ChannelInv, Typing, QueueTyped
  <2>2. QueueFollows BY DEF ChannelInv, SendInv
  <2> QED BY <2>1, <2>2 DEF QueueFollows, NothingLost
<1> QED BY <1>1, ChannelInvHolds, PTL

\* A healthy channel with queued packets waits for the poller's call.
THEOREM Queued == Spec => []QueuedMeansSending
<1>1. ChannelInv => QueuedMeansSending
  <2> SUFFICES ASSUME PollerInv, pc # "send", bundles_ # <<>>, ~isCondemn, recving
               PROVE  sending /\ "OUT" \in entry.ctl
    BY DEF ChannelInv, QueuedMeansSending
  <2>1. sending BY DEF PollerInv
  <2>2. entry.wr = TRUE /\ entry.rd = TRUE /\ entry.ctl = Wanted(entry)
    BY <2>1 DEF PollerInv, Sound
  <2> QED BY <2>1, <2>2, WantedIs
<1> QED BY <1>1, ChannelInvHolds, PTL

\* A sequence of the numbers 1, 2, ... is the pipe's.
LEMMA FirstIs ==
  ASSUME NEW s \in Seq(Nat), \A k \in 1..Len(s) : s[k] = k
  PROVE  s = [k \in 1..Len(s) |-> k]
OBVIOUS

\* Closed pipes stay closed.
LEMMA StaysClosed ==
  ChannelInv /\ [Next]_vars => (Closed => Closed') /\ (Closed /\ ~Ticking => Closed' /\ ~Ticking')
<1> SUFFICES ASSUME ChannelInv, [Next]_vars, Closed
             PROVE  Closed' /\ (~Ticking => ~Ticking')
  OBVIOUS
<1> USE DEF txVars, rxVars, ctrl, net
<1>1. Typing BY DEF ChannelInv
<1>2. ASSUME NEW q, NEW n, Send(q, n) PROVE Closed' /\ (~Ticking => ~Ticking')
  BY <1>2 DEF Send, User, Closed, Ticking
<1>3. ASSUME SendLoop PROVE Closed' /\ (~Ticking => ~Ticking')
  <2>1. UNCHANGED <<pc, caller>> \/ (pc' = caller /\ pc = "send")
    BY <1>3 DEF SendLoop, DoSendAll, DoSendError, ProcessSendEnd, DoSendPart, ReturnFalse,
                SendReturns
  <2>2. isCondemn => isCondemn'
    <3>1. ASSUME NEW n, NEW ok, DoSendPart(n, ok) PROVE ~isCondemn BY <3>1 DEF DoSendPart
    <3>2. DoSendAll => ~isCondemn BY DEF DoSendAll
    <3>3. DoSendError => isCondemn' BY DEF DoSendError, ReturnFalse, AsksCallback
    <3>4. ProcessSendEnd /\ isCondemn => isCondemn' BY DEF ProcessSendEnd, StopSend
    <3> QED BY <1>3, <3>1, <3>2, <3>3, <3>4 DEF SendLoop
  <2>3. endPoint' = endPoint
    BY <1>3 DEF SendLoop, DoSendAll, DoSendError, ProcessSendEnd, DoSendPart
  <2> QED BY <1>1, <2>1, <2>2, <2>3 DEF Closed, Ticking, Typing
<1>4. ASSUME RecvLoop PROVE Closed' /\ (~Ticking => ~Ticking')
  <2>1. endPoint' = endPoint /\ pc = "recv" /\ pc' \in {"recv", "loop"}
    BY <1>4 DEF RecvLoop, ProcessRecv, ProcessRecvEnd
  <2>2. isCondemn => isCondemn' BY <1>4 DEF RecvLoop, ProcessRecv, ProcessRecvEnd, Condemned
  <2> QED BY <2>1, <2>2 DEF Closed, Ticking
<1>5. ASSUME TickLoop PROVE Closed' /\ (~Ticking => ~Ticking')
  <2>1. endPoint' = endPoint /\ (isCondemn => isCondemn') /\ pc \in {"tick", "handler"}
    BY <1>5 DEF TickLoop, ReadPacket, HandlerReturns, HandlerThrows, ProcessPacketsEnd
  <2> QED BY <2>1 DEF Closed, Ticking
<1>6. ASSUME ProcessPackets PROVE Closed' /\ (~Ticking => ~Ticking')
  BY <1>6 DEF ProcessPackets, Idle, Closed, Ticking
<1>7. ASSUME Destroy PROVE Closed' /\ (~Ticking => ~Ticking')
  BY <1>7 DEF Destroy, Closed, Ticking
<1>8. ASSUME Readable \/ Writable \/ \E ok \in BOOLEAN : Initialize(ok)
      PROVE  Closed' /\ (~Ticking => ~Ticking')
  BY <1>8 DEF Readable, Writable, Initialize, Idle, Closed, Ticking
<1>9. ASSUME Condemn \/ NullEndPoint \/ PeerSends \/ PeerCloses \/ PeerReads \/ UNCHANGED vars
      PROVE  Closed' /\ (~Ticking => ~Ticking')
  BY <1>9 DEF Condemn, NullEndPoint, PeerSends, PeerCloses, PeerReads, vars, Closed, Ticking
<1> QED
  BY <1>2, <1>3, <1>4, <1>5, <1>6, <1>7, <1>8, <1>9 DEF Next, SendPacket, Flush

\* Every step writes to the send pipe, delivers from it or does neither.
LEMMA SendSteps ==
  ChannelInv /\ [Next]_vars =>
    \/ UNCHANGED <<accepted, wire>>
    \/ ~Closed /\ accepted' \in Nat /\ accepted' >= accepted /\ wire' = wire
    \/ ~Closed /\ accepted' = accepted /\ Len(wire) =< Len(wire')
<1> SUFFICES ASSUME ChannelInv, [Next]_vars
             PROVE  \/ UNCHANGED <<accepted, wire>>
                    \/ ~Closed /\ accepted' \in Nat /\ accepted' >= accepted /\ wire' = wire
                    \/ ~Closed /\ accepted' = accepted /\ Len(wire) =< Len(wire')
  OBVIOUS
<1> USE DEF txVars, rxVars, ctrl, net
<1>1. Typing /\ PollerInv /\ SendInv BY DEF ChannelInv
<1>2. ASSUME NEW q, NEW n \in Nat, Send(q, n)
      PROVE  \/ UNCHANGED <<accepted, wire>>
             \/ ~Closed /\ accepted' \in Nat /\ accepted' >= accepted /\ wire' = wire
  <2>1. endPoint /\ wire' = wire BY <1>2 DEF Send
  <2>2. CASE isCondemn BY <1>2, <2>1, <2>2 DEF Send
  <2>3. CASE ~isCondemn
    <3>1. accepted' = accepted + n BY <1>2, <2>3 DEF Send
    <3> QED BY <1>1, <2>1, <2>3, <3>1 DEF Closed, Typing
  <2> QED BY <2>2, <2>3
<1>3. ASSUME NEW n \in Nat, n =< bundles_[index].len - bundles_[index].sent,
             index =< Len(bundles_), pc = "send", ~isCondemn, Wrote(n)
      PROVE  ~Closed /\ Len(wire) =< Len(wire')
  <2>1. ~Closed BY <1>1, <1>3 DEF PollerInv, Closed
  <2>2. QueueFollows BY <1>1, <2>1 DEF SendInv
  <2>3. Len(wire') = Len(wire) + n BY <1>1, <1>3, <2>2, WroteFollows
  <2>4. Len(wire) \in Nat BY <1>1 DEF SendInv
  <2> QED BY <2>1, <2>3, <2>4
<1>4. ASSUME SendLoop
      PROVE  \/ UNCHANGED <<accepted, wire>>
             \/ ~Closed /\ accepted' = accepted /\ Len(wire) =< Len(wire')
  <2>1. CASE DoSendAll
    <3> DEFINE n == bundles_[index].len - bundles_[index].sent
    <3>1. bundles_[index] \in Bundle /\ bundles_[index].sent =< bundles_[index].len
      BY <1>1, <2>1 DEF DoSendAll, Typing, QueueTyped
    <3>2. n \in Nat /\ n =< bundles_[index].len - bundles_[index].sent BY <3>1 DEF Bundle
    <3>3. Wrote(n) /\ index =< Len(bundles_) /\ pc = "send" /\ ~isCondemn /\ accepted' = accepted
      BY <2>1 DEF DoSendAll
    <3> HIDE DEF n
    <3> QED BY <1>3, <3>2, <3>3
  <2>2. ASSUME NEW len \in Lengths, NEW ok \in BOOLEAN, NEW n \in 0..len, DoSendPart(n, ok)
        PROVE  ~Closed /\ accepted' = accepted /\ Len(wire) =< Len(wire')
    <3>1. n \in Nat /\ bundles_[index] \in Bundle
      BY <1>1, <2>2, ChannelAssumption DEF DoSendPart, Typing, QueueTyped
    <3>2. n =< bundles_[index].len - bundles_[index].sent BY <2>2, <3>1 DEF DoSendPart, Bundle
    <3>3. Wrote(n) /\ index =< Len(bundles_) /\ pc = "send" /\ ~isCondemn /\ accepted' = accepted
      BY <2>2 DEF DoSendPart
    <3> QED BY <1>3, <3>1, <3>2, <3>3
  <2>3. CASE DoSendError \/ ProcessSendEnd BY <2>3 DEF DoSendError, ProcessSendEnd
  <2> QED BY <1>4, <2>1, <2>2, <2>3 DEF SendLoop
<1>5. ASSUME RecvLoop \/ TickLoop PROVE UNCHANGED <<accepted, wire>>
  BY <1>5 DEF RecvLoop, ProcessRecv, ProcessRecvEnd, TickLoop, ReadPacket, HandlerReturns,
              HandlerThrows, ProcessPacketsEnd
<1>6. ASSUME Readable \/ Writable \/ ProcessPackets \/ Destroy \/ \E ok \in BOOLEAN : Initialize(ok)
      PROVE  UNCHANGED <<accepted, wire>>
  BY <1>6 DEF Readable, Writable, ProcessPackets, Destroy, Initialize
<1>7. ASSUME Condemn \/ NullEndPoint \/ PeerSends \/ PeerCloses \/ PeerReads \/ UNCHANGED vars
      PROVE  UNCHANGED <<accepted, wire>>
  BY <1>7 DEF Condemn, NullEndPoint, PeerSends, PeerCloses, PeerReads, vars
<1> QED
  BY <1>2, <1>4, <1>5, <1>6, <1>7, ChannelAssumption DEF Next, SendPacket, Flush

\* The peer receives the accepted bytes in order, each at most once, and none that
\* leaves after the channel was condemned or destroyed.
THEOREM SendRefines == Spec => ImplementsSendPipe
<1>1. Init => SendPipe!Init
  BY DEF Init, SendPipe!Init, Closed
<1>2. ChannelInv /\ ChannelInv' /\ [Next]_vars => [SendPipe!Next]_(SendPipe!vars)
  <2> SUFFICES ASSUME ChannelInv, ChannelInv', [Next]_vars PROVE SendPipe!Next
    OBVIOUS
  <2>1. SendPipe!MayClose BY StaysClosed DEF SendPipe!MayClose, Closed
  <2>2. wire' = SendPipe!First(Len(wire')) /\ Len(wire') =< accepted'
    BY FirstIs DEF ChannelInv, SendInv, SendPipe!First
  <2>3. CASE ~Closed /\ accepted' = accepted /\ Len(wire) =< Len(wire')
    <3>1. Len(wire') \in Len(wire)..accepted
      BY <2>2, <2>3 DEF ChannelInv, SendInv, Typing
    <3> QED BY <2>1, <2>2, <2>3, <3>1 DEF SendPipe!Next, SendPipe!Deliver
  <2>4. CASE ~Closed /\ accepted' \in Nat /\ accepted' >= accepted /\ wire' = wire
    BY <2>1, <2>4 DEF SendPipe!Next, SendPipe!Write
  <2>5. CASE UNCHANGED <<accepted, wire>> BY <2>1, <2>5 DEF SendPipe!Next
  <2> QED BY <2>3, <2>4, <2>5, SendSteps
<1> QED
  BY <1>1, <1>2, ChannelInvHolds, PTL DEF ImplementsSendPipe, SendPipe!Spec, Spec

\* Every step writes to the receive pipe, delivers from it or does neither.
LEMMA RecvSteps ==
  ChannelInv /\ [Next]_vars =>
    \/ UNCHANGED <<nread, handled>>
    \/ ~Closed /\ nread' \in Nat /\ nread' >= nread /\ handled' = handled
    \/ Ticking /\ nread' = nread /\ Len(handled) =< Len(handled')
<1> SUFFICES ASSUME ChannelInv, [Next]_vars
             PROVE  \/ UNCHANGED <<nread, handled>>
                    \/ ~Closed /\ nread' \in Nat /\ nread' >= nread /\ handled' = handled
                    \/ Ticking /\ nread' = nread /\ Len(handled) =< Len(handled')
  OBVIOUS
<1> USE DEF txVars, rxVars, ctrl, net
<1>1. ASSUME NEW n \in 1..RecvMax, ProcessRecv(n)
      PROVE  ~Closed /\ nread' \in Nat /\ nread' >= nread /\ handled' = handled
  <2>1. n \in Nat /\ nread \in Nat BY ChannelAssumption DEF ChannelInv, Typing
  <2>2. ~isCondemn /\ endPoint BY <1>1 DEF ProcessRecv, ChannelInv, PollerInv
  <2>3. nread' = nread + n /\ handled' = handled BY <1>1 DEF ProcessRecv
  <2> QED BY <2>1, <2>2, <2>3 DEF Closed
<1>2. ASSUME NEW complete, ReadPacket(complete)
      PROVE  Ticking /\ nread' = nread /\ Len(handled) =< Len(handled')
  <2> DEFINE b == bufferedReceives_
             y == Bytes(b[served][1] - 1, b[served][2] - b[served][1] + 1)
  <2>1. /\ pc = "tick" /\ handled' = handled \o y /\ nread' = nread
        /\ served =< Len(b) /\ served \in Nat \ {0} /\ b \in Seq(Nat \X Nat)
    BY <1>2 DEF ReadPacket, ChannelInv, Typing
  <2>2. Ticking BY <2>1 DEF Ticking
  <2>3. served \in 1..Len(b) /\ b[served] \in Nat \X Nat BY <2>1
  <2>4. b[served][1] \in Nat /\ b[served][2] \in Nat BY <2>3, PairIs
  <2>5. endPoint BY <2>3 DEF ChannelInv, RecvInv
  <2>6. b[served][1] > 0 BY <2>2, <2>3, <2>5 DEF ChannelInv, RecvInv, Open, BufferFollows
  <2>7. y \in Seq(Nat) BY <2>4, <2>6 DEF Bytes
  <2> HIDE DEF y, b
  <2>8. handled \in Seq(Nat) BY DEF ChannelInv, RecvInv
  <2>9. Len(handled') = Len(handled) + Len(y) /\ Len(y) \in Nat /\ Len(handled) \in Nat
    BY <2>1, <2>7, <2>8, ConcatProperties
  <2> QED BY <2>1, <2>2, <2>9
<1>3. ASSUME SendLoop PROVE UNCHANGED <<nread, handled>>
  BY <1>3 DEF SendLoop, DoSendAll, DoSendError, DoSendPart, ProcessSendEnd
<1>4. ASSUME NEW q, NEW n, Send(q, n) PROVE UNCHANGED <<nread, handled>>
  BY <1>4 DEF Send
<1>5. ASSUME NEW b, ProcessRecvEnd(b) \/ HandlerReturns(b) \/ HandlerThrows \/ ProcessPacketsEnd
      PROVE  UNCHANGED <<nread, handled>>
  BY <1>5 DEF ProcessRecvEnd, HandlerReturns, HandlerThrows, ProcessPacketsEnd
<1>6. ASSUME Readable \/ Writable \/ ProcessPackets \/ Destroy \/ \E ok \in BOOLEAN : Initialize(ok)
      PROVE  UNCHANGED <<nread, handled>>
  BY <1>6 DEF Readable, Writable, ProcessPackets, Destroy, Initialize
<1>7. ASSUME Condemn \/ NullEndPoint \/ PeerSends \/ PeerCloses \/ PeerReads \/ UNCHANGED vars
      PROVE  UNCHANGED <<nread, handled>>
  BY <1>7 DEF Condemn, NullEndPoint, PeerSends, PeerCloses, PeerReads, vars
<1>8. ASSUME TickLoop
      PROVE  \/ UNCHANGED <<nread, handled>>
             \/ Ticking /\ nread' = nread /\ Len(handled) =< Len(handled')
  BY <1>2, <1>5, <1>8 DEF TickLoop
<1>9. ASSUME RecvLoop
      PROVE  \/ UNCHANGED <<nread, handled>>
             \/ ~Closed /\ nread' \in Nat /\ nread' >= nread /\ handled' = handled
  BY <1>1, <1>5, <1>9 DEF RecvLoop
<1> QED
  BY <1>3, <1>4, <1>6, <1>7, <1>8, <1>9 DEF Next, SendPacket, Flush

\* The reader gets the received bytes in order, each at most once, and none after the
\* processPackets in which the channel was condemned or destroyed.
THEOREM RecvRefines == Spec => ImplementsRecvPipe
<1>1. Init => RecvPipe!Init
  BY DEF Init, RecvPipe!Init, Closed
<1>2. ChannelInv /\ ChannelInv' /\ [Next]_vars => [RecvPipe!Next]_(RecvPipe!vars)
  <2> SUFFICES ASSUME ChannelInv, ChannelInv', [Next]_vars PROVE RecvPipe!Next
    OBVIOUS
  <2>1. RecvPipe!MayClose BY StaysClosed DEF RecvPipe!MayClose
  <2>2. handled' = RecvPipe!First(Len(handled')) /\ Len(handled') =< nread'
    BY FirstIs DEF ChannelInv, RecvInv, RecvPipe!First
  <2>3. CASE Ticking /\ nread' = nread /\ Len(handled) =< Len(handled')
    <3>1. Len(handled') \in Len(handled)..nread
      BY <2>2, <2>3 DEF ChannelInv, RecvInv, Typing
    <3> QED BY <2>1, <2>2, <2>3, <3>1 DEF RecvPipe!Next, RecvPipe!Deliver
  <2>4. CASE ~Closed /\ nread' \in Nat /\ nread' >= nread /\ handled' = handled
    BY <2>1, <2>4 DEF RecvPipe!Next, RecvPipe!Write
  <2>5. CASE UNCHANGED <<nread, handled>> BY <2>1, <2>5 DEF RecvPipe!Next
  <2> QED BY <2>3, <2>4, <2>5, RecvSteps
<1> QED
  BY <1>1, <1>2, ChannelInvHolds, PTL DEF ImplementsRecvPipe, RecvPipe!Spec, Spec
=============================================================================
