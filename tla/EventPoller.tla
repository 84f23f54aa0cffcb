----------------------------- MODULE EventPoller -----------------------------
(***************************************************************************)
(* libs/network/event_poller: the handler maps and the epoll instance, as  *)
(* seen by one file descriptor.  A poller entry is a record                *)
(*   rd, wr  whether fdReadHandlers_ / fdWriteHandlers_ has the fd         *)
(*   ctl     the events epoll watches for it, or Absent                    *)
(* EPOLL_CTL_ADD may fail for lack of memory (epoll_ctl, outside src/), so *)
(* an operator takes the answer `ok' the kernel gives to an ADD and        *)
(* returns the entry and the boolean the method returns.                   *)
(***************************************************************************)
EXTENDS Naturals

Absent == {"absent"}          \* not in the interest list

NoEntry == [rd |-> FALSE, wr |-> FALSE, ctl |-> Absent]

IsRegistered(e, isForRead) == IF isForRead THEN e.rd ELSE e.wr

\* epoll_ctl(2): ADD needs an absent fd, MOD and DEL a present one
EpollCtl(e, op, events, ok) ==
  CASE op = "ADD" /\ e.ctl = Absent /\ ok -> [done |-> TRUE, ctl |-> events]
    [] op = "MOD" /\ e.ctl # Absent       -> [done |-> TRUE, ctl |-> events]
    [] op = "DEL" /\ e.ctl # Absent       -> [done |-> TRUE, ctl |-> Absent]
    [] OTHER                              -> [done |-> FALSE, ctl |-> e.ctl]

\* mutant: the opposite registration is overwritten
DoRegisterOverwrite(e, isRead, isRegister, ok) ==
  LET mine == {IF isRead THEN "IN" ELSE "OUT"}
  IN  IF IsRegistered(e, ~isRead)
      THEN EpollCtl(e, "MOD", mine, ok)
      ELSE EpollCtl(e, IF isRegister THEN "ADD" ELSE "DEL", mine, ok)

DoRegister(e, isRead, isRegister, ok) ==
  LET mine  == {IF isRead THEN "IN" ELSE "OUT"}
      other == {IF isRead THEN "OUT" ELSE "IN"}
  IN  IF IsRegistered(e, ~isRead)
      THEN EpollCtl(e, "MOD", IF isRegister THEN mine \cup other ELSE other, ok)
      ELSE EpollCtl(e, IF isRegister THEN "ADD" ELSE "DEL", mine, ok)

\* the map is only changed when epoll_ctl succeeded
RegisterForRead(e, ok) ==
  LET r == DoRegister(e, TRUE, TRUE, ok)
  IN  [done |-> r.done, entry |-> IF r.done THEN [e EXCEPT !.rd = TRUE, !.ctl = r.ctl] ELSE e]

RegisterForWrite(e, ok) ==
  LET r == DoRegister(e, FALSE, TRUE, ok)
  IN  [done |-> r.done, entry |-> IF r.done THEN [e EXCEPT !.wr = TRUE, !.ctl = r.ctl] ELSE e]

\* the handler is erased first, whatever epoll_ctl answers
DeregisterForRead(e) ==
  LET f == [e EXCEPT !.rd = FALSE] IN [f EXCEPT !.ctl = DoRegister(f, TRUE, FALSE, TRUE).ctl]

DeregisterForWrite(e) ==
  LET f == [e EXCEPT !.wr = FALSE] IN [f EXCEPT !.ctl = DoRegister(f, FALSE, FALSE, TRUE).ctl]

\* what the interest list should say, given the handlers
Wanted(e) == LET on == (IF e.rd THEN {"IN"} ELSE {}) \cup (IF e.wr THEN {"OUT"} ELSE {})
             IN  IF on = {} THEN Absent ELSE on
=============================================================================
