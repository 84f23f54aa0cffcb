---- MODULE MCThreadPool ----
(* ThreadPool on small pools. *)
EXTENDS ThreadPool

\* never binding: no behaviour creates more threads than this
ASSUME BoundIsEnough == ThreadBound >= Initial + Grow * Cardinality(Tasks)
====
