---- MODULE MCPacketReader ----
(* Bodies whose lengths need both bytes of a length, with bytes in base 3. *)
EXTENDS PacketReader
WithBody == {<<1>>, <<2, 1, 0>>, <<1, 0, 2, 2>>}
AnyBody  == WithBody \cup {<<>>}
====
