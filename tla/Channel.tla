------------------------------ MODULE Channel ------------------------------
(***************************************************************************)
(* libs/network: one TCP Channel with its TCPPacketSender, its             *)
(* TCPPacketReceiver, its EndPoint and its entry in the EventPoller.       *)
(*                                                                         *)
(* The program is one thread: a callback of the poller or a call of the    *)
(* user runs to its end before the next one (pc = "loop").  The loops of   *)
(* processSend and of handleInputNotification are stepped, one send() or   *)
(* recv() at a time, because the peer and the kernel act meanwhile and     *)
(* each call may answer in several ways.  The loop of processPackets is    *)
(* stepped too, because the message handler it calls is user code, which   *)
(* may send, condemn or destroy the channel it was called for, or throw.   *)
(*                                                                         *)
(* Bytes are numbered: the outgoing ones in the order of send(), so that   *)
(* [at, len, sent] is the packet of the bytes at + 1 to at + len, of which *)
(* sent are sent (at is there for the properties); the incoming ones in    *)
(* the order of recv(), so that <<first, last>> is a packet received.      *)
(***************************************************************************)
EXTENDS Integers, Sequences, SequencesExt, EventPoller

CONSTANTS
  Lengths,       \* lengths of outgoing packets
  MaxPackets,    \* bound: how many packets the user sends
  PeerBytes,     \* bound: how many bytes the peer sends
  RecvMax,       \* PACKET_MAX_SIZE_TCP: most bytes one recv() takes
  SendFailLimit, \* 10 in TCPPacketSender::processSend
  SendMessagesCritical, SendMessagesOverflow, SendBytesOverflow,
  RecvMessagesCritical, RecvMessagesOverflow, RecvBytesOverflow

ASSUME ChannelAssumption ==
  /\ PeerBytes \in Nat /\ RecvMax \in Nat \ {0} /\ SendFailLimit \in Nat
  /\ SendMessagesCritical \in Nat /\ SendMessagesOverflow \in Nat
  /\ SendBytesOverflow \in Nat
  /\ RecvMessagesCritical \in Nat /\ RecvMessagesOverflow \in Nat
  /\ RecvBytesOverflow \in Nat
  /\ Lengths \subseteq Nat /\ MaxPackets \in Nat

VARIABLES
  flags_,        \* the set of FLAG_... bits
  endPoint,      \* pEndPoint_ # NULL
  bundles_, sendfailCount_, lastTickBytesSent_,
  bufferedReceives_, lastTickBytesReceived_,
  entry,         \* the fd's entry in the poller
  pc,            \* "loop", the loop of "recv", "send" or "tick" (processPackets)
                 \* that runs, or the message "handler"
  index, isEpoll,\* processSend's i and parameter
  caller,        \* who called send: "loop" or "handler"
  served,        \* processPackets's i
  fault,         \* a failed assert or a NULL dereference stopped the process
  inbox, eof,    \* bytes in the kernel's receive buffer; the peer closed
  writable,      \* kernel: epoll reports EPOLLOUT: the send buffer has room
  nread,         \* bytes recv() returned so far
  sends,         \* how many packets the user sent
  accepted, wire,\* history: how many bytes send() queued; the bytes sent
  handled        \* history: received bytes given to the PacketReader

txVars == <<bundles_, sendfailCount_, lastTickBytesSent_, sends, accepted, wire>>
rxVars == <<bufferedReceives_, lastTickBytesReceived_, nread, handled, served>>
ctrl   == <<pc, index, isEpoll, caller>>
net    == <<inbox, eof, writable>>
vars   == <<flags_, endPoint, txVars, rxVars, entry, ctrl, fault, net>>

Flags == {"SENDING", "RECVING", "DESTROYED", "CONDEMN"}
isCondemn   == "CONDEMN" \in flags_
sending     == "SENDING" \in flags_
recving     == "RECVING" \in flags_

\* the n bytes that follow byte number i
Bytes(i, n) == [k \in 1..n |-> i + k]
BundlesLength(b) == FoldSeq(LAMBDA q, n : n + q.len, 0, b)

Init ==
  /\ flags_ = {} /\ endPoint = TRUE
  /\ bundles_ = <<>> /\ sendfailCount_ = 0 /\ lastTickBytesSent_ = 0
  /\ bufferedReceives_ = <<>> /\ lastTickBytesReceived_ = 0
  /\ entry = NoEntry
  /\ pc = "new" /\ index = 1 /\ isEpoll = FALSE /\ caller = "loop" /\ served = 1
  /\ fault = "none"
  /\ inbox = 0 /\ eof = FALSE /\ writable = TRUE /\ nread = 0
  /\ sends = 0 /\ accepted = 0 /\ wire = <<>> /\ handled = <<>>

Idle == pc = "loop" /\ fault = "none"

\* user code runs, outside or inside of a message handler
User == pc \in {"loop", "handler"} /\ fault = "none"

\* every entry point logs c_str(), which dereferences pEndPoint_
NullEndPoint ==
  /\ User /\ ~endPoint
  /\ fault' = "null"
  /\ UNCHANGED <<flags_, endPoint, txVars, rxVars, entry, ctrl, net>>

-----------------------------------------------------------------------------
\* Channel::initialize() of an accepted connection: registers for reading
Initialize(ok) ==
  /\ pc = "new"
  /\ LET r == RegisterForRead(entry, ok)
     IN  /\ entry' = r.entry
         /\ flags_' = IF r.done THEN flags_ \cup {"RECVING"} ELSE flags_
  /\ pc' = "loop"
  /\ UNCHANGED <<endPoint, txVars, rxVars, index, isEpoll, caller, fault, net>>

-----------------------------------------------------------------------------
(* Sending: Channel::send, TCPPacketSender::processSend and doSend          *)

TooMuchQueued(b) ==
  \/ /\ SendMessagesCritical > 0 /\ Len(b) > SendMessagesCritical
     /\ SendMessagesOverflow > 0 /\ Len(b) > SendMessagesOverflow
  \/ SendBytesOverflow > 0 /\ BundlesLength(b) >= SendBytesOverflow

Condemned(f, cond) == IF cond THEN f \cup {"CONDEMN"} ELSE f

\* Channel::send(pPacket), up to the first send(): q is the queue with the new
\* packet of n bytes, if there is one (send() alone only flushes)
Send(q, n) ==
  /\ User /\ endPoint
  /\ IF isCondemn
     THEN /\ bundles_' = <<>>
          /\ UNCHANGED <<flags_, accepted, ctrl>>
     ELSE /\ bundles_' = q
          /\ accepted' = accepted + n
          /\ flags_' = Condemned(flags_, q # <<>> /\ TooMuchQueued(q))
          /\ IF q # <<>> /\ ~sending /\ "CONDEMN" \notin flags_'
             THEN pc' = "send" /\ index' = 1 /\ isEpoll' = FALSE /\ caller' = pc
             ELSE UNCHANGED ctrl
  /\ UNCHANGED <<endPoint, sendfailCount_, lastTickBytesSent_, wire, rxVars, entry, fault, net>>

SendPacket(n) ==
  /\ sends < MaxPackets /\ sends' = sends + 1
  /\ Send(Append(bundles_, [at |-> accepted, len |-> n, sent |-> 0]), n)

Flush == Send(bundles_, 0) /\ UNCHANGED sends

\* the poller's EPOLLOUT callback, handleOutputNotification; an error of the
\* socket comes here only if no reader is registered (triggerError)
Writable ==
  /\ Idle /\ entry.wr /\ entry.ctl # Absent /\ (writable \/ ~entry.rd)
  /\ IF isCondemn THEN UNCHANGED ctrl
     ELSE pc' = "send" /\ index' = 1 /\ isEpoll' = TRUE /\ caller' = "loop"
  /\ UNCHANGED <<flags_, endPoint, txVars, rxVars, entry, fault, net>>

NotAdvanced(n) == bundles_  \* mutant: sentSize is not updated
AdvancedTwice(n) == [bundles_ EXCEPT ![index].sent = @ + 2 * n]  \* mutant: updated twice
Advanced(n) == [bundles_ EXCEPT ![index].sent = @ + n]

\* EndPoint::send takes n more bytes of the packet; Channel::onPacketSent
Wrote(n) ==
  /\ lastTickBytesSent_' = lastTickBytesSent_ + n
  /\ wire' = wire \o Bytes(bundles_[index].at + bundles_[index].sent, n)

TickSentOverflow == SendBytesOverflow > 0 /\ lastTickBytesSent_' >= SendBytesOverflow

\* the packet goes out whole: REASON_SUCCESS, on to the next one
DoSendAll ==
  /\ pc = "send" /\ fault = "none" /\ index =< Len(bundles_) /\ ~isCondemn
  /\ LET n == bundles_[index].len - bundles_[index].sent
     IN  Wrote(n) /\ bundles_' = Advanced(n)
  /\ flags_' = Condemned(flags_, TickSentOverflow)
  /\ index' = index + 1
  /\ UNCHANGED <<endPoint, sendfailCount_, sends, accepted, rxVars, entry, pc, isEpoll, caller,
                 fault, net>>

MarkNothing(f) == f         \* mutant: FLAG_SENDING is forgotten
MarkSending(f) == f \cup {"SENDING"}

\* mutant: asks only after some packet went out whole
AsksAfterProgress(rest, f) == ~isEpoll /\ rest # <<>> /\ "CONDEMN" \notin f /\ index > 1
AsksCallback(rest, f) ==
  ~isEpoll /\ rest # <<>> /\ "CONDEMN" \notin f /\ "DESTROYED" \notin f

SendReturns == pc' = caller /\ index' = 1 /\ isEpoll' = FALSE /\ caller' = "loop"

\* processSend returns false after `rest' is left to send; a send() that is not
\* the poller's then asks to be called back (registerForWrite's answer is
\* dropped), unless the channel was condemned
ReturnFalse(rest, f, ok) ==
  /\ bundles_' = rest
  /\ flags_' = IF AsksCallback(rest, f) THEN MarkSending(f) ELSE f
  /\ entry' = IF AsksCallback(rest, f) THEN RegisterForWrite(entry, ok).entry ELSE entry
  /\ SendReturns

\* mutant: the bundle a part of which was sent is erased too
RestAfterPartial(b) == SubSeq(b, index + 1, Len(b))
Rest(b) == SubSeq(b, index, Len(b))

SameCount == sendfailCount_ \* mutant: a partial write is not a failure
FailCount == sendfailCount_ + 1

\* send() fills the kernel's buffer with some of the bytes, or none (EAGAIN):
\* REASON_RESOURCE_UNAVAILABLE
DoSendPart(n, ok) ==
  /\ pc = "send" /\ fault = "none" /\ index =< Len(bundles_) /\ ~isCondemn
  /\ n < bundles_[index].len - bundles_[index].sent
  /\ Wrote(n)
  /\ sendfailCount_' = FailCount
  /\ ReturnFalse(Rest(Advanced(n)),
                 Condemned(flags_, TickSentOverflow \/ sendfailCount_' >= SendFailLimit), ok)
  /\ writable' = FALSE
  /\ UNCHANGED <<endPoint, sends, accepted, rxVars, fault, inbox, eof>>

\* any other errno, or the channel was condemned by the packet before
DoSendError ==
  /\ pc = "send" /\ fault = "none" /\ index =< Len(bundles_)
  /\ bundles_[index].sent < bundles_[index].len \/ isCondemn
  /\ ReturnFalse(Rest(bundles_), flags_ \cup {"CONDEMN"}, TRUE)
  /\ UNCHANGED <<endPoint, sendfailCount_, lastTickBytesSent_, sends, accepted, wire, rxVars,
                 fault, net>>

\* the loop ran through: clear, and for the poller onSendCompleted, which
\* asserts that the channel was sending and stops
StopSend(f, e) ==
  IF "SENDING" \in f THEN [flags |-> f \ {"SENDING"}, entry |-> DeregisterForWrite(e)]
  ELSE [flags |-> f, entry |-> e]

StopRecv(f, e) ==
  IF "RECVING" \in f THEN [flags |-> f \ {"RECVING"}, entry |-> DeregisterForRead(e)]
  ELSE [flags |-> f, entry |-> e]

ProcessSendEnd ==
  /\ pc = "send" /\ fault = "none" /\ index > Len(bundles_)
  /\ bundles_' = <<>> /\ sendfailCount_' = 0
  /\ IF isEpoll
     THEN LET s == StopSend(flags_, entry)
          IN  /\ flags_' = s.flags /\ entry' = s.entry
              /\ fault' = IF sending THEN fault ELSE "assert"
     ELSE UNCHANGED <<flags_, entry, fault>>
  /\ SendReturns
  /\ UNCHANGED <<endPoint, lastTickBytesSent_, sends, accepted, wire, rxVars, net>>

-----------------------------------------------------------------------------
(* Receiving: PacketReceiver::handleInputNotification and processRecv       *)

\* EPOLLIN, or EPOLLHUP / EPOLLERR, which triggerError gives to the reader
Readable ==
  /\ Idle /\ entry.rd /\ entry.ctl # Absent /\ (inbox > 0 \/ eof)
  /\ pc' = "recv"
  /\ fault' = IF endPoint THEN fault ELSE "assert"
  /\ UNCHANGED <<flags_, endPoint, txVars, rxVars, entry, index, isEpoll, caller, net>>

\* addReceiveWindow's thresholds for a buffer of `size' packets
ReceiveWindowFull(size) ==
  /\ RecvMessagesCritical > 0 /\ size > RecvMessagesCritical
  /\ RecvMessagesOverflow > 0 /\ size > RecvMessagesOverflow

\* onPacketReceived's threshold for the bytes since the last processPackets
TickReceivedOverflow == RecvBytesOverflow > 0 /\ lastTickBytesReceived_' >= RecvBytesOverflow

\* recv() returns n bytes: onPacketReceived, then addReceiveWindow
ProcessRecv(n) ==
  /\ pc = "recv" /\ fault = "none" /\ ~isCondemn
  /\ n =< inbox /\ inbox' = inbox - n
  /\ nread' = nread + n
  /\ lastTickBytesReceived_' = lastTickBytesReceived_ + n
  /\ bufferedReceives_' = Append(bufferedReceives_, <<nread + 1, nread + n>>)
  /\ flags_' = Condemned(flags_, TickReceivedOverflow \/ ReceiveWindowFull(Len(bufferedReceives_')))
  /\ UNCHANGED <<endPoint, txVars, handled, served, entry, ctrl, fault, eof, writable>>

\* the loop stops: condemned, EAGAIN, end of file or another error
ProcessRecvEnd(error) ==
  /\ pc = "recv" /\ fault = "none"
  /\ isCondemn \/ inbox = 0 \/ error
  /\ flags_' = Condemned(flags_, error \/ (inbox = 0 /\ eof))
  /\ pc' = "loop"
  /\ UNCHANGED <<endPoint, txVars, rxVars, entry, index, isEpoll, caller, fault, net>>

-----------------------------------------------------------------------------
(* Channel::processPackets: the buffered packets go to the PacketReader,    *)
(* which calls the handler with each message it completes.                  *)

ProcessPackets ==
  /\ Idle /\ endPoint
  /\ lastTickBytesReceived_' = 0 /\ lastTickBytesSent_' = 0
  /\ IF isCondemn THEN UNCHANGED <<pc, served>>
     ELSE pc' = "tick" /\ served' = 1
  /\ UNCHANGED <<flags_, endPoint, bundles_, sendfailCount_, sends, accepted, wire,
                 bufferedReceives_, nread, handled, entry, index, isEpoll, caller, fault, net>>

\* the reader is given a packet: it completes messages, which are handled, or none
ReadPacket(complete) ==
  /\ pc = "tick" /\ fault = "none" /\ served =< Len(bufferedReceives_)
  /\ LET p == bufferedReceives_[served]
     IN  handled' = handled \o Bytes(p[1] - 1, p[2] - p[1] + 1)
  /\ pc' = IF complete THEN "handler" ELSE "tick"
  /\ served' = served + 1
  /\ UNCHANGED <<flags_, endPoint, txVars, bufferedReceives_, lastTickBytesReceived_, nread, entry,
                 index, isEpoll, caller, fault, net>>

\* the handler has returned from the packet's last message; or, on a channel it
\* destroyed, from one with more behind it, for which the reader logs c_str()
HandlerReturns(more) ==
  /\ pc = "handler" /\ fault = "none"
  /\ IF more THEN ~endPoint /\ fault' = "null" /\ UNCHANGED pc
     ELSE pc' = "tick" /\ UNCHANGED fault
  /\ UNCHANGED <<flags_, endPoint, txVars, rxVars, entry, index, isEpoll, caller, net>>

KeepReceives == bufferedReceives_   \* mutant: the receive buffer is not cleared
EmptyReceives == <<>>

\* the handler, or the reader on its behalf, throws: condemn, after c_str()
HandlerThrows ==
  /\ pc = "handler" /\ fault = "none"
  /\ IF endPoint
     THEN /\ flags_' = flags_ \cup {"CONDEMN"} /\ bufferedReceives_' = EmptyReceives
          /\ pc' = "loop" /\ UNCHANGED fault
     ELSE fault' = "null" /\ UNCHANGED <<flags_, bufferedReceives_, pc>>
  /\ UNCHANGED <<endPoint, txVars, lastTickBytesReceived_, nread, handled, served, entry, index,
                 isEpoll, caller, net>>

\* the loop ends: at once, if a handler destroyed the channel and with it the buffer
ProcessPacketsEnd ==
  /\ pc = "tick" /\ fault = "none" /\ served > Len(bufferedReceives_)
  /\ bufferedReceives_' = EmptyReceives
  /\ pc' = "loop"
  /\ UNCHANGED <<flags_, endPoint, txVars, lastTickBytesReceived_, nread, handled, served, entry,
                 index, isEpoll, caller, fault, net>>

-----------------------------------------------------------------------------
\* clearState's stopSend and stopRecv
ClearState ==
  LET s == StopSend(flags_, entry)
      r == StopRecv(s.flags, s.entry)
  IN  flags_' = r.flags \cup {"DESTROYED"} /\ entry' = r.entry

\* Channel::destroy.  On a destroyed channel it is NullEndPoint.
Destroy ==
  /\ User /\ endPoint
  /\ ClearState
  /\ bundles_' = <<>> /\ bufferedReceives_' = <<>>
  /\ lastTickBytesReceived_' = 0 /\ lastTickBytesSent_' = 0
  /\ endPoint' = FALSE
  /\ UNCHANGED <<sendfailCount_, sends, accepted, wire, nread, handled, served, ctrl, fault, net>>

\* Channel::condemn, called by the user
Condemn ==
  /\ User
  /\ flags_' = flags_ \cup {"CONDEMN"}
  /\ UNCHANGED <<endPoint, txVars, rxVars, entry, ctrl, fault, net>>

-----------------------------------------------------------------------------
(* The peer *)

PeerSends ==
  /\ ~eof /\ nread + inbox < PeerBytes /\ inbox' = inbox + 1
  /\ UNCHANGED <<flags_, endPoint, txVars, rxVars, entry, ctrl, fault, eof, writable>>

PeerCloses ==
  /\ ~eof /\ eof' = TRUE
  /\ UNCHANGED <<flags_, endPoint, txVars, rxVars, entry, ctrl, fault, inbox, writable>>

\* the peer takes bytes out of the way, so there is room again; it need not
PeerReads ==
  /\ writable' = TRUE
  /\ UNCHANGED <<flags_, endPoint, txVars, rxVars, entry, ctrl, fault, inbox, eof>>

SendLoop ==
  \/ DoSendAll \/ DoSendError \/ ProcessSendEnd
  \/ \E len \in Lengths, ok \in BOOLEAN : \E n \in 0..len : DoSendPart(n, ok)
RecvLoop ==
  \/ \E n \in 1..RecvMax : ProcessRecv(n)
  \/ \E error \in BOOLEAN : ProcessRecvEnd(error)
TickLoop ==
  \/ \E b \in BOOLEAN : ReadPacket(b) \/ HandlerReturns(b)
  \/ HandlerThrows \/ ProcessPacketsEnd

Next ==
  \/ \E ok \in BOOLEAN : Initialize(ok)
  \/ \E n \in Lengths : SendPacket(n)
  \/ Flush \/ Writable \/ SendLoop \/ Readable \/ RecvLoop \/ ProcessPackets \/ TickLoop
  \/ Condemn \/ Destroy \/ NullEndPoint
  \/ PeerSends \/ PeerCloses \/ PeerReads

Spec == Init /\ [][Next]_vars

(* Fairness.  A running callback goes on, handlers return, and the program  *)
(* keeps polling between its calls of processPackets, as the servers under  *)
(* test/network do: epoll is level-triggered, so a callback that is         *)
(* possible time and again is made (strong fairness).  The peer owes        *)
(* nothing: it may never read, and then writable stays FALSE.               *)
FairSpec == Spec /\ WF_vars(SendLoop) /\ WF_vars(RecvLoop) /\ WF_vars(TickLoop)
                 /\ SF_vars(Writable)

-----------------------------------------------------------------------------
(* Properties *)

\* Types; no packet counts more bytes as sent than it has.
TypeOK ==
  /\ flags_ \subseteq Flags /\ endPoint \in BOOLEAN
  /\ \A k \in DOMAIN bundles_ : bundles_[k].sent =< bundles_[k].len
  /\ sendfailCount_ \in Nat /\ lastTickBytesSent_ \in Nat
  /\ lastTickBytesReceived_ \in Nat
  /\ pc \in {"new", "loop", "send", "recv", "tick", "handler"}
  /\ caller \in {"loop", "handler"}
  /\ fault \in {"none", "null", "assert"}
  /\ inbox \in 0..PeerBytes /\ nread \in 0..PeerBytes /\ eof \in BOOLEAN

\* The asserts of onSendCompleted and handleInputNotification never fail,
\* whatever order of writes, partial writes, errors and destroys.
AssertsHold == fault # "assert"

\* Between callbacks the flags, the handler maps and epoll's interest list agree
\* (an ADD that the kernel refused apart): nobody is called back for a channel
\* that stopped, and a destroyed channel's descriptor is out of the poller.
PollerAgrees ==
  /\ entry.ctl = Wanted(entry)
  /\ pc # "new" => /\ entry.rd = recving
                   /\ entry.wr => sending
                   /\ recving /\ sending => entry.wr
  /\ ~endPoint => entry = NoEntry

\* A channel is two pipes.  A condemned one still hands over what the running
\* processPackets has begun to read; then both are closed.
Closed == isCondemn \/ ~endPoint
Ticking == pc \in {"tick", "handler"} \/ (pc = "send" /\ caller = "handler")
SendPipe == INSTANCE BytePipe WITH in <- accepted, out <- wire, closed <- Closed
RecvPipe == INSTANCE BytePipe WITH
  in <- nread, out <- handled, closed <- Closed /\ ~Ticking

\* The peer receives the bytes of the packets that send() accepted in order, none
\* twice and none left out, across partial writes, retries and sends from inside of
\* handlers; none leaves after the channel was condemned or destroyed, and none is
\* accepted.
ImplementsSendPipe == SendPipe!Spec

\* The reader gets the bytes that recv() returned in order, each once, whatever the
\* handlers do to the channel; a channel that was condemned or destroyed gives it
\* nothing after the processPackets that was running.
ImplementsRecvPipe == RecvPipe!Spec

\* As long as the channel is healthy, what is not on the wire is queued: the
\* packets that are not sent are consecutive and end with the last byte accepted.
NothingLost ==
  ~Closed =>
    /\ \A k \in DOMAIN bundles_ :
         bundles_[k].at + bundles_[k].len =
           IF k = Len(bundles_) THEN accepted ELSE bundles_[k + 1].at
    /\ \A k \in DOMAIN bundles_ :
         k > index => bundles_[k].sent = 0
    /\ Len(wire) = IF index > Len(bundles_) THEN accepted
                   ELSE bundles_[index].at + bundles_[index].sent

\* A healthy channel with queued packets has asked to be called back (unless the
\* kernel refused to add the descriptor): no packet waits for the next send().
QueuedMeansSending ==
  pc \in {"loop", "tick", "handler"} /\ bundles_ # <<>> /\ ~isCondemn /\ recving => sending /\ "OUT" \in entry.ctl

\* If the peer keeps making room, queued packets are sent or the channel is condemned
\* or destroyed: partial writes cannot go on for ever, because each counts as a
\* failure.  (If the peer stops reading, the queue stays: nothing is reported, so
\* nothing fails, and the channel has no timeout.)
QueueDrains ==
  []<>writable => ((recving /\ bundles_ # <<>>) ~> (bundles_ = <<>> \/ isCondemn \/ ~endPoint))
=============================================================================
