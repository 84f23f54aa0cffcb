------------------------------ MODULE JobQueue ------------------------------
(***************************************************************************)
(* What a thread pool promises to those who use it, without threads, locks *)
(* or conditions: jobs are queued, each is started once, in the order of   *)
(* the queue, and finished once by whoever started it.  The owner may ask  *)
(* for the end of the pool; from some moment on, but not while a job runs, *)
(* nothing is started any more, and the owner is only told so after that   *)
(* moment.  A job may be queued at any time, also after the end, which it  *)
(* then never leaves.                                                      *)
(*                                                                         *)
(* ThreadPool implements this specification (ImplementsJobQueue there).    *)
(***************************************************************************)
EXTENDS Sequences

CONSTANT Jobs

VARIABLES
  queue,     \* jobs waiting, first come first
  running,   \* jobs started and not finished
  finished,
  over,      \* nothing is started any more
  owner      \* "free", "closing": asked for the end, "told": the end was reached

vars == <<queue, running, finished, over, owner>>

Waiting == {queue[i] : i \in DOMAIN queue}

Init ==
  /\ queue = <<>> /\ running = {} /\ finished = {}
  /\ over = FALSE /\ owner = "free"

Submit(j) ==
  /\ j \notin Waiting \cup running \cup finished
  /\ queue' = Append(queue, j)
  /\ UNCHANGED <<running, finished, owner>>

Start ==
  /\ queue # <<>>
  /\ Head(queue) \notin running \cup finished
  /\ queue' = Tail(queue) /\ running' = running \cup {Head(queue)}
  /\ UNCHANGED <<finished, owner>>

Finish(j) ==
  /\ j \in running
  /\ running' = running \ {j} /\ finished' = finished \cup {j}
  /\ UNCHANGED <<queue, owner>>

Ask  == owner = "free" /\ owner' = "closing" /\ UNCHANGED <<queue, running, finished>>
Tell == owner = "closing" /\ over /\ owner' = "told" /\ UNCHANGED <<queue, running, finished>>
Part == owner = "told" /\ owner' = "free" /\ UNCHANGED <<queue, running, finished>>

\* the end may come with any step that leaves nothing running; so Start is
\* impossible once it has come
MayEnd ==
  /\ over' \in BOOLEAN
  /\ over => over'
  /\ over' => running' = {}

Next ==
  /\ \/ \E j \in Jobs : Submit(j) \/ Finish(j)
     \/ Start \/ Ask \/ Tell \/ Part
     \/ UNCHANGED <<queue, running, finished, owner>>
  /\ MayEnd

Spec == Init /\ [][Next]_vars
=============================================================================
