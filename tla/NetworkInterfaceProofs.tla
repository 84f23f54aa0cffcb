----------------------- MODULE NetworkInterfaceProofs -----------------------
(***************************************************************************)
(* Theorems about NetworkInterface, for any addresses, descriptors and     *)
(* numbers of channels and connections.                                    *)
(***************************************************************************)
EXTENDS NetworkInterface, WellFoundedInduction, SequenceTheorems, TLAPS

ChannelRec == [addr : Addrs, fd : Fds, condemned : BOOLEAN, endPoint : BOOLEAN,
               registered : BOOLEAN]

\* What the rest needs beside TypeOK: the channels are records with an address
\* and a descriptor, no more of them than the bound.
Records ==
  /\ ch \in Seq(ChannelRec) /\ Len(ch) =< MaxChannels
  /\ pending \in Seq(Addrs)
  /\ todo \subseteq Addrs

Typing == TypeOK /\ Records

InPass == pc \in {"pass", "handler"}

\* As long as the process runs, the pass stands at a registered channel.
AtChannel == Running /\ InPass /\ iter # End => iter \in InMap

\* What the pass has yet to visit lies at or behind its iterator.
Ahead == InPass => \A a \in todo \cap InMap : iter # End /\ iter =< a

\* Nothing was reported about a channel that is not made yet.
ReportsMade == \A r \in reports : r.given \in Made /\ r.erased \in Made

InterfaceInv ==
  Typing /\ HandlerOwnsDescriptor /\ ReportedOnce /\ ReportsMade /\ AtChannel /\ Ahead

-----------------------------------------------------------------------------
\* Min picks the least element of any set of numbers that has one.
LEMMA MinIs ==
  ASSUME NEW S \in SUBSET Nat, S # {}
  PROVE  Min(S) \in S /\ \A m \in S : Min(S) =< m
<1> DEFINE R == OpToRel(<, Nat)
<1>1. IsWellFoundedOn(R, Nat) BY NatLessThanWellFounded
<1>2. \A x, y \in Nat : <<x, y>> \in R <=> x < y BY DEF OpToRel
<1> HIDE DEF R
<1>3. PICK n \in S : \A m \in S : <<m, n>> \notin R BY <1>1, WFMin
<1>4. ASSUME NEW m \in S PROVE n =< m
  <2>1. m \in Nat /\ n \in Nat OBVIOUS
  <2>2. <<m, n>> \notin R BY <1>3
  <2>3. ~(m < n) BY <1>2, <2>1, <2>2, Zenon
  <2> QED BY <2>1, <2>3
<1> QED BY <1>4 DEF Min

\* NextIn is the next address of the set, if there is one.
LEMMA NextIs ==
  ASSUME NEW S \in SUBSET Addrs, NEW a \in Nat
  PROVE  /\ NextIn(S, a) \in S \cup {End}
         /\ NextIn(S, a) # End => NextIn(S, a) > a
         /\ \A b \in S : b > a => NextIn(S, a) # End /\ NextIn(S, a) =< b
<1> DEFINE T == {b \in S : b > a}
<1>1. T \in SUBSET Nat /\ \A b \in T : b # 0 /\ b \in S /\ b > a BY InterfaceAssumption
<1>2. CASE T = {}
  <2>1. NextIn(S, a) = End BY <1>2 DEF NextIn
  <2> QED BY <1>2, <2>1
<1>3. CASE T # {}
  <2>1. NextIn(S, a) = Min(T) BY <1>3 DEF NextIn
  <2>2. Min(T) \in T /\ \A b \in T : Min(T) =< b BY <1>1, <1>3, MinIs
  <2> QED BY <1>1, <2>1, <2>2 DEF End
<1> QED BY <1>2, <1>3

\* A new channel gets a descriptor that nobody has open.
LEMMA LowestIsFree ==
  ASSUME FreeFds # {}
  PROVE  Min(FreeFds) \in Fds /\ owner[Min(FreeFds)] = Nobody
BY MinIs, InterfaceAssumption DEF FreeFds

\* The addresses of the map have channels, and these are different.
LEMMA MapIs ==
  ASSUME Typing, NEW a \in InMap
  PROVE  channelMap_[a] \in Made /\ a \in Addrs /\ channelMap_[a] # Nobody
BY DEF Typing, TypeOK, InMap, Made, Nobody

-----------------------------------------------------------------------------
(* The operations that make and destroy channels *)

\* A new channel keeps the types ...
LEMMA NewTyped ==
  ASSUME Typing, Len(ch) < MaxChannels, FreeFds # {},
         NEW a \in Addrs, NEW watch \in BOOLEAN, NewChannel(a, watch)
  PROVE  /\ ch' \in Seq(ChannelRec) /\ Len(ch') = Len(ch) + 1 /\ Len(ch') =< MaxChannels
         /\ \A c \in Made : ch'[c] = ch[c]
         /\ ch'[Len(ch) + 1].addr = a
         /\ owner' \in [Fds -> 0..Len(ch')] /\ reader' \in [Fds -> 0..Len(ch')]
<1> DEFINE f == Min(FreeFds)
           r == [addr |-> a, fd |-> f, condemned |-> FALSE, endPoint |-> TRUE,
                 registered |-> channelMap_'[a] = Len(ch) + 1]
<1>1. f \in Fds BY LowestIsFree
<1>2. r \in ChannelRec /\ r.addr = a BY <1>1 DEF ChannelRec
<1>3. ch' = Append(ch, r) BY DEF NewChannel
<1> HIDE DEF r
<1>4. /\ ch' \in Seq(ChannelRec) /\ Len(ch') = Len(ch) + 1
      /\ \A c \in 1..Len(ch) : ch'[c] = ch[c]
      /\ ch'[Len(ch) + 1] = r
  BY <1>2, <1>3 DEF Typing, Records
<1>5. Len(ch) \in Nat /\ MaxChannels \in Nat BY InterfaceAssumption DEF Typing, Records
<1>6. Len(ch) + 1 \in 0..Len(ch') /\ 0..Len(ch) \subseteq 0..Len(ch') BY <1>4, <1>5
<1>7. owner' \in [Fds -> 0..Len(ch')] /\ reader' \in [Fds -> 0..Len(ch')]
  <2>1. owner \in [Fds -> 0..Len(ch')] /\ reader \in [Fds -> 0..Len(ch')]
    BY <1>6 DEF Typing, TypeOK
  <2>2. owner' = [owner EXCEPT ![f] = Len(ch) + 1] BY DEF NewChannel
  <2>3. reader' = [reader EXCEPT ![f] = Len(ch) + 1] \/ reader' = reader BY DEF NewChannel
  <2> QED BY <1>6, <2>1, <2>2, <2>3
<1> QED BY <1>2, <1>4, <1>5, <1>7 DEF Made

\* ... and takes a free descriptor.
LEMMA NewOwns ==
  ASSUME Typing, HandlerOwnsDescriptor, FreeFds # {}, Len(ch) < MaxChannels,
         NEW a \in Addrs, NEW watch \in BOOLEAN, NewChannel(a, watch)
  PROVE  HandlerOwnsDescriptor'
<1> DEFINE f == Min(FreeFds)
           n == Len(ch) + 1
<1>1. f \in Fds /\ owner[f] = Nobody BY LowestIsFree
<1>2. /\ ch' = Append(ch, [addr |-> a, fd |-> f, condemned |-> FALSE, endPoint |-> TRUE,
                           registered |-> channelMap_'[a] = n])
      /\ owner' = [owner EXCEPT ![f] = n]
      /\ reader' = [reader EXCEPT ![f] = n] \/ reader' = reader
  BY DEF NewChannel
<1>3. ch'[n].fd = f /\ ch'[n].endPoint /\ n # Nobody
  BY <1>2 DEF Typing, Records, Nobody
<1>4. \A c \in Made : ch'[c] = ch[c] BY NewTyped
<1>5. reader[f] = Nobody BY <1>1 DEF HandlerOwnsDescriptor
<1>6. \A g \in Fds : reader[g] # Nobody => reader[g] \in Made
  BY DEF Typing, TypeOK, Made, Nobody
<1>7. owner \in [Fds -> 0..Len(ch)] /\ reader \in [Fds -> 0..Len(ch)] BY DEF Typing, TypeOK
<1> HIDE DEF f, n
<1>8. ASSUME NEW g \in Fds, reader'[g] # Nobody
      PROVE  reader'[g] = owner'[g] /\ ch'[reader'[g]].fd = g /\ ch'[reader'[g]].endPoint
  <2>1. CASE g = f BY <1>1, <1>2, <1>3, <1>5, <1>7, <1>8, <2>1
  <2>2. CASE g # f
    <3>1. reader'[g] = reader[g] /\ owner'[g] = owner[g] BY <1>2, <1>7, <2>2
    <3> QED BY <1>4, <1>6, <1>8, <3>1 DEF HandlerOwnsDescriptor
  <2> QED BY <2>1, <2>2
<1> QED BY <1>8 DEF HandlerOwnsDescriptor

\* Destroying channels keeps the types ...
LEMMA DestroyTyped ==
  ASSUME Typing, NEW cs, DestroyChannels(cs)
  PROVE  /\ ch' \in Seq(ChannelRec) /\ Len(ch') = Len(ch)
         /\ \A c \in Made : ch'[c].addr = ch[c].addr /\ ch'[c].fd = ch[c].fd
         /\ \A c \in Made \ cs : ch'[c] = ch[c]
         /\ owner' \in [Fds -> 0..Len(ch')] /\ reader' \in [Fds -> 0..Len(ch')]
<1>1. ch' = [c \in 1..Len(ch) |-> IF c \in cs THEN [ch[c] EXCEPT !.endPoint = FALSE] ELSE ch[c]]
  BY DEF DestroyChannels, Made
<1>2. \A c \in 1..Len(ch) : ch[c] \in ChannelRec BY DEF Typing, Records
<1>3. ASSUME NEW r \in ChannelRec
      PROVE  /\ [r EXCEPT !.endPoint = FALSE] \in ChannelRec
             /\ [r EXCEPT !.endPoint = FALSE].addr = r.addr
             /\ [r EXCEPT !.endPoint = FALSE].fd = r.fd
  BY DEF ChannelRec
<1>4. Len(ch) \in Nat BY DEF Typing, Records
<1>5. ch' \in [1..Len(ch) -> ChannelRec] BY <1>1, <1>2, <1>3
<1>6. ch' \in Seq(ChannelRec) /\ Len(ch') = Len(ch) BY <1>4, <1>5, SeqDef, LenProperties
<1>7. owner' \in [Fds -> 0..Len(ch')] /\ reader' \in [Fds -> 0..Len(ch')]
  <2>1. /\ owner' = [f \in Fds |-> IF owner[f] \in cs THEN Nobody ELSE owner[f]]
        /\ reader' = [f \in Fds |-> IF reader[f] \in cs THEN Nobody ELSE reader[f]]
    BY DEF DestroyChannels, Without
  <2>2. owner \in [Fds -> 0..Len(ch')] /\ reader \in [Fds -> 0..Len(ch')]
    BY <1>6 DEF Typing, TypeOK
  <2> QED BY <1>4, <1>6, <2>1, <2>2 DEF Nobody
<1> QED BY <1>1, <1>2, <1>3, <1>6, <1>7 DEF Made

\* ... and leaves no handler on a descriptor it closed.
LEMMA DestroyOwns ==
  ASSUME Typing, HandlerOwnsDescriptor, NEW cs, DestroyChannels(cs)
  PROVE  HandlerOwnsDescriptor'
<1>1. /\ owner' = [f \in Fds |-> IF owner[f] \in cs THEN Nobody ELSE owner[f]]
      /\ reader' = [f \in Fds |-> IF reader[f] \in cs THEN Nobody ELSE reader[f]]
  BY DEF DestroyChannels, Without
<1>2. \A c \in Made \ cs : ch'[c] = ch[c] BY DestroyTyped
<1>3. ASSUME NEW f \in Fds, reader'[f] # Nobody
      PROVE  reader'[f] = owner'[f] /\ ch'[reader'[f]].fd = f /\ ch'[reader'[f]].endPoint
  <2>1. reader'[f] = reader[f] /\ reader[f] \notin cs /\ reader[f] # Nobody BY <1>1, <1>3
  <2>2. reader[f] = owner[f] BY <2>1 DEF HandlerOwnsDescriptor
  <2>3. reader[f] \in Made \ cs BY <2>1 DEF Typing, TypeOK, Made, Nobody
  <2> QED BY <1>1, <1>2, <2>1, <2>2, <2>3 DEF HandlerOwnsDescriptor
<1> QED BY <1>3 DEF HandlerOwnsDescriptor

\* Registering the channel that is being made keeps the map typed.
LEMMA RegisterTyped ==
  ASSUME Typing, NEW a \in Addrs, Len(ch') = Len(ch) + 1,
         RegisterChannel(a) \/ UNCHANGED channelMap_
  PROVE  channelMap_' \in [Addrs -> 0..Len(ch')]
<1>1. channelMap_' = [channelMap_ EXCEPT ![a] = Len(ch) + 1] \/ channelMap_' = channelMap_
  BY DEF RegisterChannel
<1>2. Len(ch) \in Nat BY DEF Typing, Records
<1>3. Len(ch) + 1 \in 0..Len(ch') /\ channelMap_ \in [Addrs -> 0..Len(ch')]
  BY <1>2 DEF Typing, TypeOK
<1> QED BY <1>1, <1>3

\* Deregistering a channel keeps the map typed.
LEMMA DeregisterTyped ==
  ASSUME Typing, NEW c \in Made, NEW by, DeregisterChannel(c, by)
  PROVE  /\ channelMap_' \in [Addrs -> 0..Len(ch)]
         /\ fault' \in {fault, "assertEndPoint", "iterator"}
<1>1. channelMap_' = channelMap_ \/ channelMap_' = [channelMap_ EXCEPT ![ch[c].addr] = Nobody]
  BY DEF DeregisterChannel
<1>2. channelMap_ \in [Addrs -> 0..Len(ch)] /\ Nobody \in 0..Len(ch)
  BY DEF Typing, TypeOK, Nobody, Records
<1>3. fault' \in {fault, "assertEndPoint", "iterator"} BY DEF DeregisterChannel
<1> QED BY <1>1, <1>2, <1>3

\* Typing is inductive, given that the pass stands at a channel.
LEMMA StepTyped == Typing /\ AtChannel /\ [Next]_vars => Typing'
<1> SUFFICES ASSUME Typing, AtChannel, [Next]_vars PROVE Typing'
  OBVIOUS
<1>1. CASE Initialize BY <1>1 DEF Initialize, Typing, TypeOK, Records
<1>2. CASE SetUdpEndPoint BY <1>2 DEF SetUdpEndPoint, Typing, TypeOK, Records
<1>3. CASE UserCloseSocket BY <1>3 DEF UserCloseSocket, CloseSocket, Typing, TypeOK, Records
<1>4. ASSUME NEW a \in Addrs, Arrive(a) PROVE Typing'
  BY <1>4 DEF Arrive, Typing, TypeOK, Records
<1>5. CASE ListenerReadable BY <1>5 DEF ListenerReadable, Typing, TypeOK, Records
<1>6. ASSUME NEW added \in BOOLEAN, Accept(added) PROVE Typing'
  <2>1. /\ pending # <<>> /\ pending' = Tail(pending) /\ FreeFds # {} /\ Len(ch) < MaxChannels
        /\ NewChannel(Head(pending), added)
        /\ RegisterChannel(Head(pending)) \/ UNCHANGED channelMap_
    BY <1>6 DEF Accept
  <2>2. Head(pending) \in Addrs /\ Tail(pending) \in Seq(Addrs)
    BY <2>1 DEF Typing, Records
  <2>3. /\ ch' \in Seq(ChannelRec) /\ Len(ch') = Len(ch) + 1 /\ Len(ch') =< MaxChannels
        /\ owner' \in [Fds -> 0..Len(ch')] /\ reader' \in [Fds -> 0..Len(ch')]
    BY <2>1, <2>2, NewTyped
  <2>4. channelMap_' \in [Addrs -> 0..Len(ch')] BY <2>1, <2>2, <2>3, RegisterTyped
  <2>5. UNCHANGED <<sock, watched, pc, iter, todo, reports, deaf, fault>> BY <1>6 DEF Accept
  <2> QED BY <2>1, <2>2, <2>3, <2>4, <2>5 DEF Typing, TypeOK, Records
<1>7. CASE AcceptFails
  <2>1. pending' = pending \/ (pending # <<>> /\ pending' = Tail(pending)) BY <1>7 DEF AcceptFails
  <2>2. pending' \in Seq(Addrs) BY SMTT(30), <2>1 DEF Typing, Records
  <2>3. UNCHANGED <<sock, watched>> \/ (sock' = "closed" /\ watched' = FALSE)
    BY <1>7 DEF AcceptFails, CloseSocket
  <2>4. sock' \in {"null", "tcp", "udp", "closed"} /\ watched' \in BOOLEAN
        /\ (watched' => sock' \in {"tcp", "udp"})
    <3>1. CASE UNCHANGED <<sock, watched>> BY <3>1 DEF Typing, TypeOK
    <3>2. CASE sock' = "closed" /\ watched' = FALSE BY <3>2
    <3> QED BY <2>3, <3>1, <3>2
  <2>5. /\ pc' = "loop"
        /\ UNCHANGED <<channelMap_, ch, owner, reader, iter, todo, reports, deaf, fault>>
    BY <1>7 DEF AcceptFails
  <2> QED BY <2>2, <2>4, <2>5 DEF Typing, TypeOK, Records
<1>8. CASE RecvFrom
  <2>1. /\ pending # <<>> /\ pending' = Tail(pending)
        /\ UNCHANGED <<sock, watched, pc, iter, todo, reports, deaf, fault>>
    BY <1>8 DEF RecvFrom
  <2>2. Head(pending) \in Addrs /\ Tail(pending) \in Seq(Addrs)
    BY <2>1 DEF Typing, Records
  <2>3. CASE FreeFds = {}
    <3>1. UNCHANGED <<channelMap_, ch, owner, reader>> BY <1>8, <2>3 DEF RecvFrom
    <3> QED BY <2>1, <2>2, <3>1 DEF Typing, TypeOK, Records
  <2>4. CASE FreeFds # {}
    <3>1. Len(ch) < MaxChannels /\ NewChannel(Head(pending), FALSE) /\ RegisterChannel(Head(pending))
      BY <1>8, <2>4 DEF RecvFrom
    <3>2. /\ ch' \in Seq(ChannelRec) /\ Len(ch') = Len(ch) + 1 /\ Len(ch') =< MaxChannels
          /\ owner' \in [Fds -> 0..Len(ch')] /\ reader' \in [Fds -> 0..Len(ch')]
      BY <2>2, <2>4, <3>1, NewTyped
    <3>3. channelMap_' \in [Addrs -> 0..Len(ch')] BY <2>2, <3>1, <3>2, RegisterTyped
    <3> QED BY <2>1, <2>2, <3>2, <3>3 DEF Typing, TypeOK, Records
  <2> QED BY <2>3, <2>4
<1>9. CASE RecvFromFails BY <1>9 DEF RecvFromFails, Typing, TypeOK, Records
<1>10. ASSUME NEW c \in Made, Condemn(c) PROVE Typing'
  <2>1. ch[c] \in ChannelRec BY DEF Typing, Records, Made
  <2>2. PICK r : r = [ch[c] EXCEPT !.condemned = TRUE] OBVIOUS
  <2>3. r \in ChannelRec BY <2>1, <2>2 DEF ChannelRec
  <2>4. ch' = [ch EXCEPT ![c] = r] BY <1>10, <2>2 DEF Condemn
  <2>5. ch' \in Seq(ChannelRec) /\ Len(ch') = Len(ch) BY <2>3, <2>4 DEF Typing, Records, Made
  <2> QED BY <1>10, <2>5 DEF Condemn, Typing, TypeOK, Records
<1>11. ASSUME NEW c \in Made, Destroy(c) PROVE Typing'
  <2>1. CASE ch[c].endPoint
    <3>1. DestroyChannels({c}) /\ fault' = fault BY <1>11, <2>1 DEF Destroy
    <3> QED BY <1>11, <3>1, DestroyTyped DEF Destroy, Typing, TypeOK, Records
  <2>2. CASE ~ch[c].endPoint BY <1>11, <2>2 DEF Destroy, Typing, TypeOK, Records
  <2> QED BY <2>1, <2>2
<1>12. CASE DeregisterAllChannels
  <2>1. PICK cs : \/ /\ DestroyChannels(cs) /\ channelMap_' = [a \in Addrs |-> Nobody]
                     /\ fault' \in {fault, "iterator"}
                  \/ fault' = "nullChannel" /\ UNCHANGED <<ch, owner, reader, channelMap_>>
    BY <1>12 DEF DeregisterAllChannels
  <2>2. CASE /\ DestroyChannels(cs) /\ channelMap_' = [a \in Addrs |-> Nobody]
             /\ fault' \in {fault, "iterator"}
    <3>1. /\ ch' \in Seq(ChannelRec) /\ Len(ch') = Len(ch)
          /\ owner' \in [Fds -> 0..Len(ch')] /\ reader' \in [Fds -> 0..Len(ch')]
      BY <2>2, DestroyTyped
    <3>2. channelMap_' \in [Addrs -> 0..Len(ch')] BY <2>2, <3>1 DEF Nobody
    <3> QED BY <1>12, <2>2, <3>1, <3>2 DEF DeregisterAllChannels, Typing, TypeOK, Records
  <2>3. CASE fault' = "nullChannel" /\ UNCHANGED <<ch, owner, reader, channelMap_>>
    BY <1>12, <2>3 DEF DeregisterAllChannels, Typing, TypeOK, Records
  <2> QED BY <2>1, <2>2, <2>3
<1>13. CASE ProcessChannels
  <2>1. InMap \in SUBSET Addrs BY DEF InMap
  <2>2. iter' \in Addrs \cup {End} BY <1>13, <2>1, NextIs DEF ProcessChannels
  <2> QED BY <1>13, <2>1, <2>2 DEF ProcessChannels, Typing, TypeOK, Records
<1>14. CASE Pass
  <2> DEFINE c == channelMap_[iter]
  <2>1. iter \in InMap /\ c \in Made BY <1>14, MapIs DEF Pass, AtChannel, InPass
  <2>2. iter' \in Addrs \cup {End}
    <3>1. InMap \in SUBSET Addrs /\ iter \in Nat BY <2>1, InterfaceAssumption DEF InMap
    <3> QED BY <1>14, <3>1, NextIs DEF Pass, Advance
  <2>3. todo' \subseteq Addrs BY <1>14 DEF Pass, Typing, Records
  <2>4. DeregisterChannel(c, "pass") \/ UNCHANGED <<channelMap_, fault>>
    BY <1>14 DEF Pass
  <2>5. /\ channelMap_' \in [Addrs -> 0..Len(ch)]
        /\ fault' \in {fault, "assertEndPoint", "iterator"}
    <3> HIDE DEF c
    <3> QED BY <2>1, <2>4, DeregisterTyped DEF Typing, TypeOK
  <2>6. UNCHANGED <<sock, watched, pending, ch, owner, reader, deaf>> BY <1>14 DEF Pass
  <2>7. pc' \in {"handler", pc} BY <1>14 DEF Pass
  <2> QED BY <2>2, <2>3, <2>5, <2>6, <2>7 DEF Typing, TypeOK, Records
<1>15. CASE PassEnd BY <1>15 DEF PassEnd, Typing, TypeOK, Records
<1>16. CASE UNCHANGED vars BY <1>16 DEF vars, Typing, TypeOK, Records
<1>17. ASSUME NEW c \in Made, Deregister(c) PROVE Typing'
  BY <1>17, DeregisterTyped DEF Deregister, Typing, TypeOK, Records
<1>18. CASE HandlerReturns BY <1>18 DEF HandlerReturns, Typing, TypeOK, Records
<1> QED BY <1>1, <1>2, <1>3, <1>4, <1>5, <1>6, <1>7, <1>8, <1>9, <1>10, <1>11, <1>12, <1>13,
           <1>14, <1>15, <1>16, <1>17, <1>18 DEF Next, Accepting

-----------------------------------------------------------------------------
(* A handler in the poller has its descriptor open *)

\* Condemning a channel moves no descriptor.
LEMMA CondemnOwns ==
  ASSUME Typing, HandlerOwnsDescriptor, NEW c \in Made,
         ch' = [ch EXCEPT ![c].condemned = TRUE], UNCHANGED <<owner, reader>>
  PROVE  HandlerOwnsDescriptor'
<1>1. ch[c] \in ChannelRec BY DEF Typing, Records, Made
<1>2. PICK r : r = [ch[c] EXCEPT !.condemned = TRUE] OBVIOUS
<1>3. r.fd = ch[c].fd /\ r.endPoint = ch[c].endPoint BY <1>1, <1>2 DEF ChannelRec
<1>4. ch' = [ch EXCEPT ![c] = r] BY <1>2
<1>5. \A b \in Made : ch'[b].fd = ch[b].fd /\ ch'[b].endPoint = ch[b].endPoint
  BY <1>3, <1>4 DEF Typing, Records, Made
<1>6. \A f \in Fds : reader[f] # Nobody => reader[f] \in Made
  BY DEF Typing, TypeOK, Made, Nobody
<1> QED BY <1>5, <1>6 DEF HandlerOwnsDescriptor

\* Every step keeps handlers on descriptors of their owners.
LEMMA StepOwns == Typing /\ HandlerOwnsDescriptor /\ [Next]_vars => HandlerOwnsDescriptor'
<1> SUFFICES ASSUME Typing, HandlerOwnsDescriptor, [Next]_vars
             PROVE  HandlerOwnsDescriptor'
  OBVIOUS
<1>1. CASE UNCHANGED <<ch, owner, reader>> BY <1>1 DEF HandlerOwnsDescriptor
<1>2. ASSUME NEW a \in Addrs, NEW watch \in BOOLEAN, NewChannel(a, watch),
             FreeFds # {}, Len(ch) < MaxChannels
      PROVE  HandlerOwnsDescriptor'
  BY <1>2, NewOwns
<1>3. \A cs : DestroyChannels(cs) => HandlerOwnsDescriptor' BY DestroyOwns
<1>4. ASSUME pending # <<>> PROVE Head(pending) \in Addrs BY <1>4 DEF Typing, Records
<1>5. ASSUME NEW added \in BOOLEAN, Accept(added) PROVE HandlerOwnsDescriptor'
  BY <1>2, <1>4, <1>5 DEF Accept
<1>6. CASE RecvFrom BY <1>1, <1>2, <1>4, <1>6 DEF RecvFrom
<1>7. ASSUME NEW c \in Made, Condemn(c) PROVE HandlerOwnsDescriptor'
  BY <1>7, CondemnOwns DEF Condemn
<1>8. ASSUME NEW c \in Made, Destroy(c) PROVE HandlerOwnsDescriptor'
  BY <1>1, <1>3, <1>8 DEF Destroy
<1>9. CASE DeregisterAllChannels BY <1>1, <1>3, <1>9 DEF DeregisterAllChannels
<1>10. ASSUME NEW c \in Made, Deregister(c) PROVE HandlerOwnsDescriptor'
  BY <1>1, <1>10 DEF Deregister
<1>11. CASE \/ Initialize \/ SetUdpEndPoint \/ UserCloseSocket \/ (\E a \in Addrs : Arrive(a))
            \/ ListenerReadable \/ AcceptFails \/ RecvFromFails
  BY <1>1, <1>11 DEF Initialize, SetUdpEndPoint, UserCloseSocket, Arrive, ListenerReadable,
                     AcceptFails, RecvFromFails
<1>12. CASE ProcessChannels \/ Pass \/ HandlerReturns \/ PassEnd \/ UNCHANGED vars
  BY <1>1, <1>12 DEF ProcessChannels, Pass, HandlerReturns, PassEnd, vars
<1> QED BY <1>5, <1>6, <1>7, <1>8, <1>9, <1>10, <1>11, <1>12 DEF Next, Accepting

-----------------------------------------------------------------------------
(* A channel leaves the map with one report at most, in the right name *)

\* What does not touch the map, the reports or the channels' addresses.
LEMMA KeepReports ==
  ASSUME Typing, ReportedOnce, ReportsMade, UNCHANGED <<channelMap_, reports>>,
         Len(ch') = Len(ch), \A c \in Made : ch'[c].addr = ch[c].addr
  PROVE  ReportedOnce' /\ ReportsMade'
<1>1. \A a \in InMap : channelMap_[a] \in Made BY MapIs
<1>2. InMap' = InMap /\ Made' = Made BY DEF InMap, Made
<1>3. ReportsMade' BY <1>2 DEF ReportsMade
<1>4. \A r \in reports : ch'[r.given].addr = ch[r.given].addr
                       /\ ch'[r.erased].addr = ch[r.erased].addr
  BY DEF ReportsMade
<1> QED BY <1>1, <1>2, <1>3, <1>4 DEF ReportedOnce

\* A new channel, registered or not.
LEMMA NewReports ==
  ASSUME Typing, ReportedOnce, ReportsMade, FreeFds # {}, Len(ch) < MaxChannels,
         NEW a \in Addrs, NEW watch \in BOOLEAN, NewChannel(a, watch),
         RegisterChannel(a) \/ UNCHANGED channelMap_, UNCHANGED reports
  PROVE  ReportedOnce' /\ ReportsMade'
<1> DEFINE n == Len(ch) + 1
<1>1. /\ Len(ch') = n /\ ch'[n].addr = a
      /\ \A c \in Made : ch'[c] = ch[c]
  BY NewTyped
<1>2. Len(ch) \in Nat BY DEF Typing, Records
<1>3. n \notin Made /\ Made \subseteq Made' BY <1>1, <1>2 DEF Made
<1> HIDE DEF n
<1>4. ReportsMade' BY <1>3 DEF ReportsMade
<1>5. ASSUME NEW b \in InMap'
      PROVE  /\ ch'[channelMap_'[b]].addr = b
             /\ channelMap_'[b] = n \/ (b \in InMap /\ channelMap_'[b] = channelMap_[b])
  <2>1. \/ channelMap_'[b] = channelMap_[b]
        \/ (b = a /\ channelMap_'[b] = n)
    BY <1>5 DEF RegisterChannel, InMap, Typing, TypeOK, n
  <2>2. CASE b = a /\ channelMap_'[b] = n BY <1>1, <2>2
  <2>3. CASE channelMap_'[b] = channelMap_[b]
    <3>1. b \in InMap BY <2>3 DEF InMap
    <3>2. channelMap_[b] \in Made BY <3>1, MapIs
    <3> QED BY <1>1, <2>3, <3>1, <3>2 DEF ReportedOnce
  <2> QED BY <2>1, <2>2, <2>3
<1>6. ASSUME NEW r \in reports
      PROVE  /\ r.erased \notin {channelMap_'[b] : b \in InMap'}
             /\ ch'[r.given].addr = ch'[r.erased].addr
  <2>1. r.given \in Made /\ r.erased \in Made BY DEF ReportsMade
  <2>2. r.erased \notin {channelMap_[b] : b \in InMap} /\ ch[r.given].addr = ch[r.erased].addr
    BY DEF ReportedOnce
  <2> QED BY <1>1, <1>3, <1>5, <2>1, <2>2
<1> QED BY <1>4, <1>5, <1>6 DEF ReportedOnce

\* deregisterChannel erases the channel that the map has for c's address, which
\* is c itself if the map has c.
LEMMA DeregisterReports ==
  ASSUME Typing, ReportedOnce, ReportsMade, NEW c \in Made, NEW by,
         by = "pass" => channelMap_[ch[c].addr] = c,
         DeregisterChannel(c, by), UNCHANGED ch
  PROVE  ReportedOnce' /\ ReportsMade'
<1> DEFINE a == ch[c].addr  e == channelMap_[a]
           r0 == [given |-> c, erased |-> e, by |-> by]
<1>1. CASE UNCHANGED <<channelMap_, reports>> BY <1>1, KeepReports
<1>2. CASE ~UNCHANGED <<channelMap_, reports>>
  <2>1. a \in Addrs
    <3>1. ch[c] \in ChannelRec BY DEF Typing, Records, Made
    <3> QED BY <3>1 DEF ChannelRec
  <2>2. /\ channelMap_' = [channelMap_ EXCEPT ![a] = Nobody]
        /\ reports' = reports \cup {[given |-> c, erased |-> r, by |-> by] : r \in {e} \ {Nobody}}
    BY <1>2 DEF DeregisterChannel
  <2>3. channelMap_ \in [Addrs -> 0..Len(ch)] BY DEF Typing, TypeOK
  <2>4. e # Nobody
    <3> SUFFICES ASSUME e = Nobody PROVE FALSE
      OBVIOUS
    <3>1. {e} \ {Nobody} = {} OBVIOUS
    <3>2. reports' = reports BY <2>2, <3>1
    <3>3. channelMap_' = channelMap_ BY <2>2, <2>3
    <3> QED BY <1>2, <3>2, <3>3
  <2>5. reports' = reports \cup {r0} BY <2>2, <2>4
  <2>6. a \in InMap BY <2>1, <2>4 DEF InMap
  <2>7. e \in Made /\ ch[e].addr = a BY <2>6, MapIs DEF ReportedOnce
  <2>8. r0.given = c /\ r0.erased = e /\ r0.by = by OBVIOUS
  <2>9. \A b \in InMap' : b \in InMap /\ b # a /\ channelMap_'[b] = channelMap_[b]
    BY <2>1, <2>2, <2>3 DEF InMap
  <2>10. \A b \in InMap' : ch'[channelMap_'[b]].addr = b
    BY <2>9 DEF ReportedOnce
  <2>11. \A b \in InMap' : channelMap_'[b] # e
    BY <2>7, <2>9 DEF ReportedOnce
  <2>12. e \in {channelMap_[b] : b \in InMap} BY <2>6
  <2> HIDE DEF a, e, r0
  <2>13. ASSUME NEW r \in reports
         PROVE  r.erased # e /\ r.erased \notin {channelMap_'[b] : b \in InMap'}
    BY <2>9, <2>12 DEF ReportedOnce
  <2>14. ASSUME NEW r \in reports'
         PROVE  /\ r.erased \notin {channelMap_'[b] : b \in InMap'}
                /\ ch'[r.given].addr = ch'[r.erased].addr
                /\ r.by = "pass" => r.given = r.erased
                /\ \A q \in reports' : q.erased = r.erased => q = r
    <3>1. CASE r \in reports
      BY <2>5, <2>8, <2>13, <3>1 DEF ReportedOnce
    <3>2. CASE r = r0
      <4>1. \A q \in reports' : q.erased = r.erased => q = r BY <2>5, <2>8, <2>13, <3>2
      <4>2. ch'[r.given].addr = ch'[r.erased].addr BY <2>7, <2>8, <3>2 DEF a
      <4>3. r.by = "pass" => r.given = r.erased BY <2>8, <3>2 DEF a, e
      <4>4. r.erased \notin {channelMap_'[b] : b \in InMap'} BY <2>8, <2>11, <3>2
      <4> QED BY <4>1, <4>2, <4>3, <4>4
    <3> QED BY <2>5, <3>1, <3>2
  <2>15. ReportsMade' BY <2>5, <2>7, <2>8 DEF ReportsMade, Made
  <2> QED BY <2>10, <2>14, <2>15 DEF ReportedOnce
<1> QED BY <1>1, <1>2

\* Every step reports what it erases, once, and nothing that is not made.
LEMMA StepReported ==
  Typing /\ AtChannel /\ ReportedOnce /\ ReportsMade /\ [Next]_vars
    => ReportedOnce' /\ ReportsMade'
<1> DEFINE Goal == ReportedOnce' /\ ReportsMade'
<1> SUFFICES ASSUME Typing, AtChannel, ReportedOnce, ReportsMade, [Next]_vars PROVE Goal
  OBVIOUS
<1>1. CASE UNCHANGED <<channelMap_, reports, ch>> BY <1>1, KeepReports
<1>2. ASSUME NEW cs, DestroyChannels(cs), UNCHANGED <<channelMap_, reports>> PROVE Goal
  BY <1>2, DestroyTyped, KeepReports
<1>3. ASSUME NEW c \in Made, Condemn(c) PROVE Goal
  <2>1. ch[c] \in ChannelRec BY DEF Typing, Records, Made
  <2>2. PICK r : r = [ch[c] EXCEPT !.condemned = TRUE] OBVIOUS
  <2>3. r.addr = ch[c].addr BY <2>1, <2>2 DEF ChannelRec
  <2>4. ch' = [ch EXCEPT ![c] = r] BY <1>3, <2>2 DEF Condemn
  <2>5. Len(ch') = Len(ch) /\ \A b \in Made : ch'[b].addr = ch[b].addr
    BY <2>3, <2>4 DEF Typing, Records, Made
  <2> QED BY <1>3, <2>5, KeepReports DEF Condemn
<1>4. ASSUME pending # <<>> PROVE Head(pending) \in Addrs BY <1>4 DEF Typing, Records
<1>5. ASSUME NEW added \in BOOLEAN, Accept(added) PROVE Goal
  BY <1>4, <1>5, NewReports DEF Accept
<1>6. CASE RecvFrom
  <2>1. CASE FreeFds = {} BY <1>1, <1>6, <2>1 DEF RecvFrom
  <2>2. CASE FreeFds # {} BY <1>4, <1>6, <2>2, NewReports DEF RecvFrom
  <2> QED BY <2>1, <2>2
<1>7. ASSUME NEW c \in Made, Deregister(c) PROVE Goal
  BY <1>7, DeregisterReports DEF Deregister
<1>8. ASSUME NEW c \in Made, Destroy(c) PROVE Goal BY <1>1, <1>2, <1>8 DEF Destroy
<1>9. CASE DeregisterAllChannels
  <2>1. CASE UNCHANGED <<channelMap_, ch>> BY <1>1, <1>9, <2>1 DEF DeregisterAllChannels
  <2>2. CASE ~UNCHANGED <<channelMap_, ch>>
    <3>1. PICK cs : DestroyChannels(cs) BY <1>9, <2>2 DEF DeregisterAllChannels
    <3>2. channelMap_' = [a \in Addrs |-> Nobody] /\ reports' = reports
      BY <1>9, <2>2 DEF DeregisterAllChannels
    <3>3. Len(ch') = Len(ch) /\ \A c \in Made : ch'[c].addr = ch[c].addr
      BY <3>1, DestroyTyped
    <3>4. InMap' = {} BY <3>2 DEF InMap, Nobody
    <3>5. ReportsMade' BY <3>2, <3>3 DEF ReportsMade, Made
    <3>6. \A r \in reports : ch'[r.given].addr = ch'[r.erased].addr
      BY <3>3 DEF ReportsMade, ReportedOnce
    <3> QED BY <3>2, <3>4, <3>5, <3>6 DEF ReportedOnce
  <2> QED BY <2>1, <2>2
<1>10. CASE Pass
  <2> DEFINE c == channelMap_[iter]
  <2>1. c \in Made /\ channelMap_[ch[c].addr] = c
    BY <1>10, MapIs DEF Pass, AtChannel, InPass, ReportedOnce
  <2>2. DeregisterChannel(c, "pass") \/ UNCHANGED <<channelMap_, reports>>
    BY <1>10 DEF Pass
  <2>3. UNCHANGED ch BY <1>10 DEF Pass
  <2> HIDE DEF c
  <2> QED BY <1>1, <2>1, <2>2, <2>3, DeregisterReports
<1>11. CASE \/ Initialize \/ SetUdpEndPoint \/ UserCloseSocket \/ (\E a \in Addrs : Arrive(a))
            \/ ListenerReadable \/ AcceptFails \/ RecvFromFails
  BY <1>1, <1>11 DEF Initialize, SetUdpEndPoint, UserCloseSocket, Arrive, ListenerReadable,
                     AcceptFails, RecvFromFails
<1>12. CASE ProcessChannels \/ HandlerReturns \/ PassEnd \/ UNCHANGED vars
  BY <1>1, <1>12 DEF ProcessChannels, HandlerReturns, PassEnd, vars
<1> QED BY <1>3, <1>5, <1>6, <1>7, <1>8, <1>9, <1>10, <1>11, <1>12 DEF Next, Accepting

-----------------------------------------------------------------------------
(* The pass of processChannels *)

\* deregisterChannel takes one address out of the map at most.
LEMMA DeregisterErases ==
  ASSUME Typing, NEW c, NEW by, DeregisterChannel(c, by)
  PROVE  \/ UNCHANGED channelMap_
         \/ /\ InMap' = InMap \ {ch[c].addr}
            /\ pc = "handler" /\ ch[c].addr = iter => fault' = "iterator"
<1>1. channelMap_ \in [Addrs -> 0..Len(ch)] BY DEF Typing, TypeOK
<1> QED BY <1>1 DEF DeregisterChannel, InMap

\* Every step keeps the pass at a channel of the map, with what is left ahead of it.
LEMMA StepPass ==
  Typing /\ AtChannel /\ Ahead /\ ReportedOnce /\ [Next]_vars => AtChannel' /\ Ahead'
<1> SUFFICES ASSUME Typing, AtChannel, Ahead, ReportedOnce, [Next]_vars PROVE AtChannel' /\ Ahead'
  OBVIOUS
<1>1. CASE ~InPass' BY <1>1 DEF AtChannel, Ahead
<1>2. CASE UNCHANGED <<iter, todo, channelMap_, fault>> /\ (InPass' => InPass)
  BY <1>2 DEF AtChannel, Ahead, InMap, Running
<1>3. InMap \in SUBSET Addrs /\ \A a \in Addrs : a \in Nat /\ a # 0
  BY InterfaceAssumption DEF InMap
<1>4. CASE ProcessChannels
  <2>1. iter' = NextIn(InMap, 0) /\ todo' = InMap /\ InMap' = InMap
    BY <1>4 DEF ProcessChannels, InMap
  <2>2. iter' \in InMap \cup {End} /\ \A b \in InMap : b > 0 => iter' # End /\ iter' =< b
    BY <1>3, <2>1, NextIs
  <2>3. \A b \in InMap : b > 0 BY <1>3
  <2> QED BY <2>1, <2>2, <2>3 DEF AtChannel, Ahead
<1>5. CASE Pass
  <2>1. iter \in InMap /\ iter \in Nat /\ Running
    BY <1>3, <1>5 DEF Pass, AtChannel, InPass
  <2>2. iter' = NextIn(InMap, iter) /\ todo' = todo \ {iter} BY <1>5 DEF Pass, Advance
  <2>3. /\ iter' \in InMap \cup {End}
        /\ iter' # End => iter' > iter
        /\ \A b \in InMap : b > iter => iter' # End /\ iter' =< b
    BY <1>3, <2>1, <2>2, NextIs
  <2>4. InMap' = InMap \/ InMap' = InMap \ {iter}
    <3> DEFINE c == channelMap_[iter]
    <3>1. ch[c].addr = iter BY <2>1 DEF ReportedOnce
    <3>2. DeregisterChannel(c, "pass") \/ UNCHANGED channelMap_ BY <1>5 DEF Pass
    <3> HIDE DEF c
    <3> QED BY <3>1, <3>2, DeregisterErases DEF InMap
  <2>5. AtChannel'
    <3>1. ASSUME iter' # End PROVE iter' \in InMap'
      <4>1. iter' \in InMap /\ iter' > iter BY <2>3, <3>1
      <4>2. iter' # iter BY <1>3, <2>1, <4>1
      <4> QED BY <2>4, <4>1, <4>2
    <3> QED BY <3>1 DEF AtChannel
  <2>6. ASSUME NEW a \in todo' \cap InMap' PROVE iter' # End /\ iter' =< a
    <3>1. a \in todo /\ a # iter /\ a \in InMap BY <2>2, <2>4, <2>6
    <3>2. iter =< a BY <1>5, <3>1 DEF Ahead, Pass, InPass
    <3> QED BY <1>3, <2>1, <2>3, <3>1, <3>2
  <2> QED BY <2>5, <2>6 DEF Ahead
<1>6. ASSUME NEW c \in Made, Deregister(c) PROVE AtChannel' /\ Ahead'
  <2>1. UNCHANGED <<iter, todo, pc>> /\ pc \in {"loop", "handler"} /\ DeregisterChannel(c, "user")
    BY <1>6 DEF Deregister, User
  <2>2. Running' => Running BY <1>6 DEF Deregister, User
  <2>3. CASE UNCHANGED channelMap_
    BY <2>1, <2>2, <2>3 DEF AtChannel, Ahead, InMap, InPass
  <2>4. CASE /\ InMap' = InMap \ {ch[c].addr}
             /\ pc = "handler" /\ ch[c].addr = iter => fault' = "iterator"
    <3>1. Ahead' BY <2>1, <2>4 DEF Ahead, InPass
    <3>2. ASSUME Running', InPass', iter' # End PROVE iter' \in InMap'
      <4>1. pc = "handler" /\ iter \in InMap BY <2>1, <2>2, <3>2 DEF InPass, AtChannel
      <4>2. ch[c].addr # iter BY <2>4, <3>2, <4>1 DEF Running
      <4> QED BY <2>1, <2>4, <4>1, <4>2
    <3> QED BY <3>1, <3>2 DEF AtChannel
  <2> QED BY <2>1, <2>3, <2>4, DeregisterErases
<1>7. CASE DeregisterAllChannels
  <2>1. CASE UNCHANGED channelMap_
    <3>1. UNCHANGED <<iter, todo, pc>> /\ Running BY <1>7 DEF DeregisterAllChannels, User
    <3> QED BY <2>1, <3>1 DEF AtChannel, Ahead, InMap, InPass
  <2>2. CASE ~UNCHANGED channelMap_
    <3>1. /\ channelMap_' = [a \in Addrs |-> Nobody] /\ iter' = iter /\ pc' = pc
          /\ pc \in {"loop", "handler"}
          /\ pc = "handler" /\ iter # End => fault' = "iterator"
      BY <1>7, <2>2 DEF DeregisterAllChannels, User
    <3>2. InMap' = {} BY <3>1 DEF InMap, Nobody
    <3> QED BY <3>1, <3>2 DEF AtChannel, Ahead, InPass, Running
  <2> QED BY <2>1, <2>2
<1>8. CASE UserCloseSocket
  <2>1. UNCHANGED <<iter, todo, channelMap_, pc>> /\ Running BY <1>8 DEF UserCloseSocket, User
  <2> QED BY <2>1 DEF AtChannel, Ahead, InMap, InPass
<1>9. ASSUME NEW c \in Made, Condemn(c) \/ Destroy(c) PROVE AtChannel' /\ Ahead'
  <2>1. UNCHANGED <<iter, todo, channelMap_, pc>> /\ Running BY <1>9 DEF Condemn, Destroy, User
  <2> QED BY <2>1 DEF AtChannel, Ahead, InMap, InPass
<1>10. CASE \/ Initialize \/ SetUdpEndPoint \/ (\E a \in Addrs : Arrive(a)) \/ HandlerReturns
            \/ UNCHANGED vars
  BY <1>2, <1>10 DEF Initialize, SetUdpEndPoint, Arrive, HandlerReturns, vars, InPass
<1>11. CASE ListenerReadable \/ RecvFromFails \/ PassEnd \/ RecvFrom \/ AcceptFails
  BY <1>1, <1>11 DEF ListenerReadable, RecvFromFails, PassEnd, RecvFrom, AcceptFails, InPass
<1>12. ASSUME NEW added \in BOOLEAN, Accept(added) PROVE AtChannel' /\ Ahead'
  BY <1>1, <1>12 DEF Accept, InPass
<1> QED BY <1>4, <1>5, <1>6, <1>7, <1>8, <1>9, <1>10, <1>11, <1>12 DEF Next, Accepting

-----------------------------------------------------------------------------
(* The theorems *)

\* The interface's invariant at first.
LEMMA InitInv == Init => InterfaceInv
<1> SUFFICES ASSUME Init PROVE InterfaceInv
  OBVIOUS
<1>1. ch = <<>> /\ Len(ch) = 0 BY DEF Init
<1>2. TypeOK
  <2>1. /\ sock = "null" /\ pc = "loop" /\ iter = End /\ fault = "none"
        /\ watched \in BOOLEAN /\ ~watched /\ deaf \in BOOLEAN
    BY DEF Init
  <2>2. /\ channelMap_ = [a \in Addrs |-> 0] /\ owner = [f \in Fds |-> 0]
        /\ reader = [f \in Fds |-> 0]
    BY DEF Init, Nobody
  <2>3. 0 \in 0..Len(ch) BY <1>1
  <2>4. /\ channelMap_ \in [Addrs -> 0..Len(ch)]
        /\ owner \in [Fds -> 0..Len(ch)] /\ reader \in [Fds -> 0..Len(ch)]
    BY <2>2, <2>3
  <2> QED BY <2>1, <2>4 DEF TypeOK
<1>3. Records BY <1>1, InterfaceAssumption DEF Init, Records
<1>4. InMap = {} BY DEF Init, InMap
<1>6. ReportedOnce /\ ReportsMade BY <1>4 DEF Init, ReportedOnce, ReportsMade
<1>7. HandlerOwnsDescriptor BY DEF Init, HandlerOwnsDescriptor
<1>8. AtChannel /\ Ahead BY DEF Init, AtChannel, Ahead, InPass
<1> QED BY <1>2, <1>3, <1>6, <1>7, <1>8 DEF InterfaceInv, Typing

\* The interface's invariant.
LEMMA Invariant == Spec => []InterfaceInv
<1>1. Init => InterfaceInv BY InitInv
<1>2. InterfaceInv /\ [Next]_vars => InterfaceInv'
  BY StepTyped, StepOwns, StepReported, StepPass DEF InterfaceInv
<1> QED BY <1>1, <1>2, PTL DEF Spec

\* Type correctness; the poller watches the listening socket only while it is
\* open (NetworkInterface::closeSocket, ListenerReceiver's closing on an error).
THEOREM Types == Spec => []TypeOK
<1>1. InterfaceInv => TypeOK BY DEF InterfaceInv, Typing
<1> QED BY <1>1, Invariant, PTL

\* A read handler in the poller is that of the channel that has the descriptor
\* open, across Channel::destroy and the reuse of descriptor numbers.
THEOREM Owned == Spec => []HandlerOwnsDescriptor
<1>1. InterfaceInv => HandlerOwnsDescriptor BY DEF InterfaceInv
<1> QED BY <1>1, Invariant, PTL

\* Whatever callbacks and the user do: a channel leaves channelMap_ with one
\* report at most, is not in it afterwards, processChannels reports the channel
\* it erases, and deregisterChannel erases only what has the address of the
\* channel it was given, which is another one when that one is stale or refused.
THEOREM Reported == Spec => []ReportedOnce
<1>1. InterfaceInv => ReportedOnce BY DEF InterfaceInv
<1> QED BY <1>1, Invariant, PTL

\* A pass of processChannels that ends has visited every channel that stayed in
\* the map, although channels were erased under its iterator.
THEOREM Visits == Spec => PassVisitsAll
<1>1. InterfaceInv /\ [Next]_vars => [pc = "pass" /\ pc' = "loop" => todo \cap InMap = {}]_vars
  <2> SUFFICES ASSUME InterfaceInv, Next, pc = "pass", pc' = "loop"
               PROVE  todo \cap InMap = {}
    OBVIOUS
  <2>1. iter = End
    BY DEF Next, Accepting, Initialize, SetUdpEndPoint, UserCloseSocket, Arrive, ListenerReadable,
           Accept, AcceptFails, RecvFrom, RecvFromFails, Condemn, Destroy, DeregisterAllChannels,
           Deregister, User, ProcessChannels, Pass, HandlerReturns, PassEnd
  <2> QED BY <2>1 DEF InterfaceInv, Ahead, InPass
<1> QED BY <1>1, Invariant, PTL DEF Spec, PassVisitsAll
=============================================================================
