-------------------------- MODULE NetworkInterface --------------------------
(***************************************************************************)
(* libs/network: the NetworkInterface with its ListenerReceiver (TCP) or   *)
(* its UDPPacketReceiver, the map from addresses to channels, the file     *)
(* descriptors and the poller's read handlers.  A channel is what the      *)
(* interface sees of it (module Channel has the rest).                     *)
(*                                                                         *)
(* One thread.  pc = "loop" between calls; the loop of accept() and the    *)
(* pass of processChannels are stepped, since connections arrive meanwhile *)
(* and each callback of the pass (a message handler, onChannelDeregister)  *)
(* is user code that may do whatever the user may do between calls, any    *)
(* number of times: pc = "handler".  (Calling processChannels inside of    *)
(* itself is left out.)                                                    *)
(*                                                                         *)
(* Ownership.  A Channel holds its PacketReader (and its PacketReceiver)   *)
(* by shared_ptr and is held by them, so no channel is ever freed: only    *)
(* Channel::destroy closes its descriptor.                                 *)
(***************************************************************************)
EXTENDS Integers, Sequences, FiniteSets, FiniteSetsExt

CONSTANTS
  Addrs,        \* remote addresses: integers, ordered as operator< orders them
  Fds,          \* descriptors left to the process: integers
  MaxChannels,  \* bound: how many channels a behaviour may create
  MaxPending    \* bound: connections or datagrams waiting in the kernel

ASSUME InterfaceAssumption ==
  /\ Addrs \subseteq Nat \ {0} /\ Fds \subseteq Nat
  /\ MaxChannels \in Nat /\ MaxPending \in Nat

VARIABLES
  sock,         \* pEndPoint_: "null", a "tcp" or "udp" socket, "closed" (socket_ = -1)
  watched,      \* it is registered for reading
  pending,      \* kernel: addresses of connections to accept, or of datagrams
  channelMap_,  \* std::map, as a function with Nobody for absent addresses
  ch,           \* the channels made so far, a sequence of records
  owner,        \* kernel: the channel whose EndPoint has the descriptor open
  reader,       \* fdReadHandlers_ without the listener's
  pc,           \* "loop", "accept", "pass" or "handler"
  iter,         \* processChannels' iterator: an address, or End
  todo,         \* history: addresses the pass has yet to visit
  reports,      \* history: the calls of onChannelDeregister
  deaf,         \* the UDP channel that listens is condemned
  fault         \* what stopped the process

vars == <<sock, watched, pending, channelMap_, ch, owner, reader, pc, iter, todo,
          reports, deaf, fault>>

Nobody == 0
End == 0
Made == 1..Len(ch)
InMap == {a \in Addrs : channelMap_[a] # Nobody}
Running == fault = "none"
User == Running /\ pc \in {"loop", "handler"}

Init ==
  /\ sock = "null" /\ watched = FALSE
  /\ pending = <<>>
  /\ channelMap_ = [a \in Addrs |-> Nobody] /\ ch = <<>>
  /\ owner = [f \in Fds |-> Nobody] /\ reader = [f \in Fds |-> Nobody]
  /\ pc = "loop" /\ iter = End /\ todo = {}
  /\ reports = {}
  /\ deaf = FALSE /\ fault = "none"

-----------------------------------------------------------------------------
(* The socket *)

\* NetworkInterface::initialize.  The first call creates the socket (which may
\* fail) and listens, whether or not the poller took it (registerForRead's answer
\* is dropped); a later one closes it and then works on descriptor -1.
Initialize ==
  /\ User
  /\ IF sock = "null"
     THEN \E s \in {"tcp", "closed"} : sock' = s /\ watched' \in {FALSE, s = "tcp"}
     ELSE sock' = "closed" /\ watched' = FALSE
  /\ UNCHANGED <<pending, channelMap_, ch, owner, reader, pc, iter, todo, reports, deaf, fault>>

\* pEndPoint(p): the user brings a UDP socket and registers the channel that
\* listens on it (test/network/udp_server_demo)
SetUdpEndPoint ==
  /\ User /\ sock = "null"
  /\ sock' = "udp" /\ watched' = TRUE
  /\ UNCHANGED <<pending, channelMap_, ch, owner, reader, pc, iter, todo, reports, deaf, fault>>

\* mutant: deregisterForRead is forgotten
CloseOnly == sock' = "closed" /\ UNCHANGED watched

\* the effect of closeSocket on pEndPoint_ (not NULL) and on the poller
CloseSocket == sock' = "closed" /\ watched' = FALSE

\* closeSocket called by the user, or by the destructor after the map is cleared:
\* pEndPoint_->good() without a test for NULL
UserCloseSocket ==
  /\ User
  /\ IF sock = "null" THEN fault' = "nullInterface" /\ UNCHANGED <<sock, watched>>
     ELSE CloseSocket /\ UNCHANGED fault
  /\ UNCHANGED <<pending, channelMap_, ch, owner, reader, pc, iter, todo, reports, deaf>>

\* kernel: a connection or a datagram arrives
Arrive(a) ==
  /\ Running /\ Len(pending) < MaxPending /\ sock \in {"tcp", "udp"}
  /\ pending' = Append(pending, a)
  /\ UNCHANGED <<sock, watched, channelMap_, ch, owner, reader, pc, iter, todo, reports, deaf, fault>>

-----------------------------------------------------------------------------
(* Making channels *)

FreeFds == {f \in Fds : owner[f] = Nobody}

\* a new Channel on the lowest free descriptor; watch: registered for reading.
\* `registered' is history: registerChannel took it
NewChannel(a, watch) ==
  LET f == Min(FreeFds)  c == Len(ch) + 1
  IN  /\ ch' = Append(ch, [addr |-> a, fd |-> f, condemned |-> FALSE, endPoint |-> TRUE,
                           registered |-> channelMap_'[a] = c])
      /\ owner' = [owner EXCEPT ![f] = c]
      /\ reader' = IF watch THEN [reader EXCEPT ![f] = c] ELSE reader

\* mutant: the newer channel takes the address over
RegisterReplace(a) == channelMap_' = [channelMap_ EXCEPT ![a] = Len(ch) + 1]

\* registerChannel: refused when the address is taken
RegisterChannel(a) ==
  channelMap_' = IF channelMap_[a] = Nobody
                 THEN [channelMap_ EXCEPT ![a] = Len(ch) + 1] ELSE channelMap_

\* ListenerReceiver::handleInputNotification
ListenerReadable ==
  /\ Running /\ pc = "loop" /\ sock = "tcp" /\ watched /\ pending # <<>>
  /\ pc' = "accept"
  /\ UNCHANGED <<sock, watched, pending, channelMap_, ch, owner, reader, iter, todo, reports, deaf, fault>>

\* one round of its loop; `added' is epoll_ctl's answer in Channel::initialize.
\* A channel that could not be registered is forgotten, descriptor and all.
Accept(added) ==
  /\ Running /\ pc = "accept" /\ pending # <<>> /\ FreeFds # {} /\ Len(ch) < MaxChannels
  /\ pending' = Tail(pending)
  /\ IF added THEN RegisterChannel(Head(pending)) ELSE UNCHANGED channelMap_
  /\ NewChannel(Head(pending), added)
  /\ UNCHANGED <<sock, watched, pc, iter, todo, reports, deaf, fault>>

\* accept() fails: EAGAIN when nothing is pending; any other error, such as no
\* free descriptor or an aborted connection, closes the listener
AcceptFails ==
  /\ Running /\ pc = "accept" /\ pc' = "loop"
  /\ \/ pending = <<>> /\ UNCHANGED <<sock, watched, pending>>
     \/ pending # <<>> /\ FreeFds = {} /\ CloseSocket /\ UNCHANGED pending
     \/ pending # <<>> /\ CloseSocket /\ pending' = Tail(pending)
  /\ UNCHANGED <<channelMap_, ch, owner, reader, iter, todo, reports, deaf, fault>>

\* UDPPacketReceiver::processRecv of a datagram that is not empty: a channel of
\* its own for the sender, and the datagram into the window of that channel
RecvFrom ==
  /\ Running /\ pc = "loop" /\ sock = "udp" /\ watched /\ pending # <<>> /\ ~deaf
  /\ pending' = Tail(pending)
  /\ IF FreeFds = {}
     THEN UNCHANGED <<channelMap_, ch, owner, reader>>
     ELSE /\ Len(ch) < MaxChannels
          /\ RegisterChannel(Head(pending))
          /\ NewChannel(Head(pending), FALSE)
  /\ UNCHANGED <<sock, watched, pc, iter, todo, reports, deaf, fault>>

\* ... and of an empty datagram, or an error: the listening channel itself is
\* condemned, and refuses every later callback
RecvFromFails ==
  /\ Running /\ pc = "loop" /\ sock = "udp" /\ watched /\ pending # <<>> /\ ~deaf
  /\ pending' = Tail(pending) /\ deaf' = TRUE
  /\ UNCHANGED <<sock, watched, channelMap_, ch, owner, reader, pc, iter, todo, reports, fault>>

-----------------------------------------------------------------------------
(* The life of a channel *)

\* a callback of the channel condemns it, or the user does; a message handler
\* that throws has its channel condemned (channel.cpp:324-333)
Condemn(c) ==
  /\ User
  /\ ch' = [ch EXCEPT ![c].condemned = TRUE]
  /\ UNCHANGED <<sock, watched, pending, channelMap_, owner, reader, pc, iter, todo, reports, deaf, fault>>

Without(g, cs) == [f \in Fds |-> IF g[f] \in cs THEN Nobody ELSE g[f]]

\* mutant: stopRecv is forgotten, the handler outlives the descriptor
DestroyKeepReader(cs) ==
  /\ ch' = [c \in Made |-> IF c \in cs THEN [ch[c] EXCEPT !.endPoint = FALSE] ELSE ch[c]]
  /\ owner' = Without(owner, cs)
  /\ UNCHANGED reader

\* Channel::destroy: out of the poller, the descriptor closed
DestroyChannels(cs) ==
  /\ ch' = [c \in Made |-> IF c \in cs THEN [ch[c] EXCEPT !.endPoint = FALSE] ELSE ch[c]]
  /\ owner' = Without(owner, cs)
  /\ reader' = Without(reader, cs)

\* the user destroys a channel (a second time: pEndPoint_ is NULL in c_str())
Destroy(c) ==
  /\ User
  /\ IF ch[c].endPoint
     THEN DestroyChannels({c}) /\ UNCHANGED fault
     ELSE fault' = "nullChannel" /\ UNCHANGED <<ch, owner, reader>>
  /\ UNCHANGED <<sock, watched, pending, channelMap_, pc, iter, todo, reports, deaf>>

\* mutant: the callback is called, the map keeps the channel
DeregisterKeep(c, by) ==
  /\ reports' = reports \cup {[given |-> c, erased |-> channelMap_[ch[c].addr], by |-> by]}
  /\ UNCHANGED <<channelMap_, fault>>

\* deregisterChannel(c): the assert; the erase, of whatever has c's address; the
\* callback, with c, if there was something to erase
DeregisterChannel(c, by) ==
  LET a == ch[c].addr
  IN  IF ~ch[c].endPoint
      THEN fault' = "assertEndPoint" /\ UNCHANGED <<channelMap_, reports>>
      ELSE /\ channelMap_' = [channelMap_ EXCEPT ![a] = Nobody]
           /\ reports' = reports \cup {[given |-> c, erased |-> r, by |-> by] :
                                         r \in {channelMap_[a]} \ {Nobody}}
           /\ fault' = IF pc = "handler" /\ a = iter THEN "iterator" ELSE fault

\* the user deregisters a channel: one of the map, one that was erased before or
\* was refused.  In a callback the iterator dangles if it stands at the address.
Deregister(c) ==
  /\ User /\ DeregisterChannel(c, "user")
  /\ UNCHANGED <<sock, watched, pending, ch, owner, reader, pc, iter, todo, deaf>>

\* deregisterAllChannels
DeregisterAllChannels ==
  LET cs == {channelMap_[a] : a \in InMap}
  IN  /\ User
      /\ IF \E c \in cs : ~ch[c].endPoint
         THEN fault' = "nullChannel" /\ UNCHANGED <<ch, owner, reader, channelMap_>>
         ELSE /\ DestroyChannels(cs)
              /\ channelMap_' = [a \in Addrs |-> Nobody]
              /\ fault' = IF pc = "handler" /\ iter # End THEN "iterator" ELSE fault
      /\ UNCHANGED <<sock, watched, pending, pc, iter, todo, reports, deaf>>

-----------------------------------------------------------------------------
(* processChannels *)

NextIn(S, a) == IF \E b \in S : b > a THEN Min({b \in S : b > a}) ELSE End

ProcessChannels ==
  /\ Running /\ pc = "loop" /\ pc' = "pass"
  /\ iter' = NextIn(InMap, 0) /\ todo' = InMap
  /\ UNCHANGED <<sock, watched, pending, channelMap_, ch, owner, reader, reports, deaf, fault>>

\* mutant: a second ++iter
Skip(a) == LET b == NextIn(InMap, a) IN IF b = End THEN End ELSE NextIn(InMap, b)
Advance(a) == NextIn(InMap, a)

\* one round of the loop: ++iter, then the channel.  One that is destroyed or
\* condemned is deregistered; the others process their packets.  Either calls
\* the user, or goes on.
Pass ==
  /\ Running /\ pc = "pass" /\ iter # End
  /\ iter' = Advance(iter) /\ todo' = todo \ {iter}
  /\ LET c == channelMap_[iter]
     IN  IF ch[c].condemned \/ ~ch[c].endPoint
         THEN DeregisterChannel(c, "pass")
         ELSE UNCHANGED <<channelMap_, reports, fault>>
  /\ pc' = IF fault' = "none" THEN "handler" ELSE pc
  /\ UNCHANGED <<sock, watched, pending, ch, owner, reader, deaf>>

HandlerReturns ==
  /\ Running /\ pc = "handler" /\ pc' = "pass"
  /\ UNCHANGED <<sock, watched, pending, channelMap_, ch, owner, reader, iter, todo, reports, deaf, fault>>

PassEnd ==
  /\ Running /\ pc = "pass" /\ iter = End /\ pc' = "loop" /\ todo' = {}
  /\ UNCHANGED <<sock, watched, pending, channelMap_, ch, owner, reader, iter, reports, deaf, fault>>

-----------------------------------------------------------------------------
Accepting == (\E added \in BOOLEAN : Accept(added)) \/ AcceptFails

Next ==
  \/ Initialize \/ SetUdpEndPoint \/ UserCloseSocket \/ (\E a \in Addrs : Arrive(a))
  \/ ListenerReadable \/ Accepting \/ RecvFrom \/ RecvFromFails
  \/ (\E c \in Made : Condemn(c) \/ Destroy(c) \/ Deregister(c))
  \/ DeregisterAllChannels \/ ProcessChannels \/ Pass \/ HandlerReturns \/ PassEnd

Spec == Init /\ [][Next]_vars

(* Fairness.  A call that started goes on, and the user's callbacks return.   *)
(* Nothing is assumed of when the user calls processChannels.                 *)
FairSpec == Spec /\ WF_vars(Accepting) /\ WF_vars(Pass) /\ WF_vars(HandlerReturns)
                 /\ WF_vars(PassEnd)

-----------------------------------------------------------------------------
(* Properties *)

\* Types; the poller watches the listener only while its socket is open.
TypeOK ==
  /\ sock \in {"null", "tcp", "udp", "closed"} /\ watched \in BOOLEAN
  /\ watched => sock \in {"tcp", "udp"}
  /\ channelMap_ \in [Addrs -> 0..Len(ch)]
  /\ owner \in [Fds -> 0..Len(ch)] /\ reader \in [Fds -> 0..Len(ch)]
  /\ pc \in {"loop", "accept", "pass", "handler"} /\ iter \in Addrs \cup {End}
  /\ deaf \in BOOLEAN
  /\ fault \in {"none", "nullInterface", "nullChannel", "assertEndPoint", "iterator"}

\* A handler in the poller belongs to the channel that has the descriptor open
\* now, across close and reuse of descriptor numbers: the assert of
\* PacketReceiver::handleInputNotification compares the two.
HandlerOwnsDescriptor ==
  \A f \in Fds : reader[f] # Nobody =>
    reader[f] = owner[f] /\ ch[reader[f]].fd = f /\ ch[reader[f]].endPoint

\* The map never has a channel under an address that is not its own, nor one
\* that a report was made for; each channel is erased with at most one report,
\* although condemnation is noticed pass after pass and callbacks deregister
\* what they like.  processChannels reports the channel it erases.  A user that
\* deregisters a channel that left the map, or was refused, can have another
\* one of the same address erased under its name (network_interface.cpp:54),
\* but never one of another address.
ReportedOnce ==
  /\ \A a \in InMap : ch[channelMap_[a]].addr = a
  /\ \A r \in reports :
       /\ r.erased \notin {channelMap_[a] : a \in InMap}
       /\ ch[r.given].addr = ch[r.erased].addr
       /\ r.by = "pass" => r.given = r.erased
       /\ \A q \in reports : q.erased = r.erased => q = r

\* A pass of processChannels visits every channel of the map, although channels
\* are erased under it: at its end none that is still registered was missed.
PassVisitsAll == [][pc = "pass" /\ pc' = "loop" => todo \cap InMap = {}]_vars

\* A channel that was registered and is condemned, but neither erased with a
\* report nor destroyed.
Unnoticed(c) ==
  Running /\ c \in Made /\ ch[c].registered /\ ch[c].condemned /\ ch[c].endPoint
    /\ \A r \in reports : r.erased # c

\* As long as the user calls processChannels again and again, a registered
\* channel that is condemned is erased with a report in the end, or destroyed,
\* unless the process stops on a fault.  (The servers under test/network call it
\* after each wake of processPendingEvents(-1), and no more once the listener
\* is closed: with silent peers the condition does not hold for them.)
CondemnedIsReported ==
  []<>(pc = "pass") => \A c \in 1..MaxChannels : []<>~Unnoticed(c)

(* What the sources say and the code does not do *)

\* network_interface.cpp:52: deregisterChannel asserts that the channel has its
\* EndPoint; processChannels calls it for destroyed channels.
DeregisterAssertHolds == ~(pc = "pass" /\ fault = "assertEndPoint")
=============================================================================
