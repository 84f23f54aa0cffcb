---- MODULE MCChannel ----
(* One channel on small instances. *)
EXTENDS Channel
====
