----------------------------- MODULE ThreadPool -----------------------------
(***************************************************************************)
(* libs/threadpool: a pool of resident and temporary threads serving a     *)
(* FIFO of tasks.  Three kinds of threads run here: the pool's workers     *)
(* (ThreadPool::worker), any number of client threads that call execute,   *)
(* and the owner that calls initialize, recycle and destroy.               *)
(*                                                                         *)
(* Grain.  A critical section of task_lock_ or thread_lock_ is one step:   *)
(* everything they guard is only touched under them, and they are locked   *)
(* and unlocked in pairs.  stats_lock_ is not: execute destroys its        *)
(* lock_guard by hand (threadpool.cpp:55) and the compiler destroys it     *)
(* once more at the return.  The second unlock of a mutex the caller does  *)
(* not hold is undefined; the outcome modelled is the one of a normal      *)
(* (default) pthread mutex, where unlock clears the lock word whoever took *)
(* it.  So the lock is a BOOLEAN, "locked or not", every unlock clears it, *)
(* and ++idles_ / --idles_ are a load and a store that others may come     *)
(* between.                                                                *)
(***************************************************************************)
EXTENDS Integers, Sequences, FiniteSets

CONSTANTS
  Tasks,        \* the tasks clients may submit, each by one call of execute
  Clients,      \* threads that call execute
  Initial,      \* initial_
  Grow,         \* grow_
  Max,          \* max_
  IdleMod,      \* 2^32 in the code: the modulus of the uint32_t idles_
  ThreadBound,  \* bound: how many std::threads a behaviour may create
  NoTask        \* the null std::shared_ptr<Task>

ASSUME PoolAssumption ==
  /\ Initial \in Nat /\ Grow \in Nat /\ Max \in Nat
  /\ IdleMod \in Nat \ {0}
  /\ ThreadBound \in Nat /\ Initial =< ThreadBound
  /\ NoTask \notin Tasks

VARIABLES
  isInitialize_, isDestroyed_,  \* the two std::atomic<bool>
  tasks_,       \* std::queue of tasks
  threads_,     \* std::list<std::thread>: ids are handed out in increasing
                \* order and only erased, so the set determines the list
  recycle_,     \* std::list of the ids of threads that ended
  idles_,       \* uint32_t
  stats_lock_,  \* TRUE while the mutex word is set
  waiting,      \* workers blocked in cv_task_, not yet notified
  wpc,          \* where each worker is
  cur,          \* the worker's pTask
  reg,          \* the value of idles_ a worker loaded and has yet to store
  timedOut,     \* wait_for returned std::cv_status::timeout
  born,         \* number of threads created so far: their ids are 1..born
  cpc, arg,     \* where each client is, and the task it submits
  stolen,       \* history: an unlock released stats_lock_ for somebody else
  result,       \* how execute answered for each task
  opc,          \* where the owner is
  queued,       \* history: every task pushed, in order
  started,      \* history: every task fetched, in order
  done          \* history: tasks whose process() returned

poolVars   == <<isInitialize_, isDestroyed_, threads_, recycle_, born>>
statVars   == <<idles_, stats_lock_, waiting, stolen>>
workerVars == <<wpc, cur, reg, timedOut>>
clientVars == <<cpc, arg, result>>
taskVars   == <<tasks_, queued, started, done>>
vars == <<poolVars, statVars, workerVars, clientVars, taskVars, opc>>

Thread == 1..ThreadBound

Word == 0..(IdleMod - 1)   \* uint32_t

\* initialize() creates its threads first, with idle = 0; execute's have idle > 0.
Resident(w) == w =< Initial

RangeOf(s) == {s[i] : i \in 1..Len(s)}

WorkerPC == {"unborn", "loop", "fetch", "process", "lock", "incLoad", "incStore",
             "wait", "asleep", "relock", "decLoad", "decStore", "unlock", "exit", "ended"}
ClientPC == {"out", "lock", "check", "unlock", "notify", "unlockAgain", "busy", "grow"}
OwnerPC  == {"out", "initialized", "notifyAll", "join", "reap"}
Result   == {"none", "uninitialized", "notified", "full", "grown"}

Init ==
  /\ isInitialize_ = FALSE /\ isDestroyed_ = FALSE
  /\ tasks_ = <<>> /\ threads_ = {} /\ recycle_ = <<>>
  /\ idles_ = 0 /\ stats_lock_ = FALSE /\ waiting = {} /\ stolen = FALSE
  /\ wpc = [w \in Thread |-> "unborn"]
  /\ cur = [w \in Thread |-> NoTask]
  /\ reg = [w \in Thread |-> 0]
  /\ timedOut = [w \in Thread |-> FALSE]
  /\ born = 0
  /\ cpc = [c \in Clients |-> "out"]
  /\ arg = [c \in Clients |-> NoTask]
  /\ result = [t \in Tasks |-> "none"]
  /\ opc = "out"
  /\ queued = <<>> /\ started = <<>> /\ done = {}

-----------------------------------------------------------------------------
(* Thread creation, under thread_lock_: n threads start at the head of      *)
(* worker() and are appended to threads_.                                   *)

New(n) == (born + 1)..(born + n)

WaitFirst == "lock"   \* mutant: a new thread waits before it looks at the queue
EntryPoint == "loop"

Spawn(n) ==
  /\ born + n =< ThreadBound
  /\ born' = born + n
  /\ threads_' = threads_ \cup New(n)
  /\ wpc' = [w \in Thread |-> IF w \in New(n) THEN EntryPoint ELSE wpc[w]]

-----------------------------------------------------------------------------
(* stats_lock_ *)

\* who is in a section of stats_lock_
HoldingWorkers == {w \in Thread : wpc[w] \in
  {"incLoad", "incStore", "wait", "decLoad", "decStore", "unlock"}}
HoldingClients == {c \in Clients : cpc[c] \in {"check", "unlock", "busy"}}
Holders == {<<"worker", w>> : w \in HoldingWorkers} \cup {<<"client", c>> : c \in HoldingClients}

-----------------------------------------------------------------------------
(* ThreadPool::worker *)

Goto(w, from, to) == wpc[w] = from /\ wpc' = [wpc EXCEPT ![w] = to]

\* while (!isDestroyed_.load())
WorkerLoop(w) ==
  /\ Goto(w, "loop", IF isDestroyed_ THEN "exit" ELSE "fetch")
  /\ UNCHANGED <<poolVars, statVars, cur, reg, timedOut, clientVars, taskVars, opc>>

KeepFront == tasks_   \* mutant: pop() is forgotten
PopFront == Tail(tasks_)

\* fetchTask(), one critical section of task_lock_
FetchTask(w) ==
  /\ IF tasks_ = <<>>
     THEN /\ Goto(w, "fetch", "lock")
          /\ UNCHANGED <<cur, taskVars>>
     ELSE /\ Goto(w, "fetch", "process")
          /\ cur' = [cur EXCEPT ![w] = Head(tasks_)]
          /\ started' = Append(started, Head(tasks_))
          /\ tasks_' = PopFront
          /\ UNCHANGED <<queued, done>>
  /\ UNCHANGED <<poolVars, statVars, reg, timedOut, clientVars, opc>>

\* pTask->process(); pTask = nullptr
Process(w) ==
  /\ Goto(w, "process", "loop")
  /\ done' = done \cup {cur[w]}
  /\ cur' = [cur EXCEPT ![w] = NoTask]
  /\ UNCHANGED <<poolVars, statVars, reg, timedOut, clientVars, tasks_, queued, started, opc>>

\* mutant: the worker counts itself without the lock
LockNothing(w) ==
  /\ Goto(w, "lock", "incLoad")
  /\ stats_lock_' = TRUE
  /\ UNCHANGED <<poolVars, idles_, waiting, stolen, cur, reg, timedOut, clientVars, taskVars, opc>>

\* unique_lock guard(stats_lock_)
LockStats(w) ==
  /\ Goto(w, "lock", "incLoad")
  /\ ~stats_lock_ /\ stats_lock_' = TRUE
  /\ UNCHANGED <<poolVars, idles_, waiting, stolen, cur, reg, timedOut, clientVars, taskVars, opc>>

LoadIdles(w) ==
  /\ \/ Goto(w, "incLoad", "incStore")
     \/ Goto(w, "decLoad", "decStore")
  /\ reg' = [reg EXCEPT ![w] = idles_]
  /\ UNCHANGED <<poolVars, statVars, cur, timedOut, clientVars, taskVars, opc>>

Unbounded(n) == n     \* mutant: idles_ is not a machine word
Wrap(n) == n % IdleMod

\* the store of ++idles_ or of --idles_, on a uint32_t
StoreIdles(w) ==
  /\ \/ Goto(w, "incStore", "wait") /\ idles_' = Wrap(reg[w] + 1)
     \/ Goto(w, "decStore", "unlock") /\ idles_' = Wrap(reg[w] - 1)
  /\ reg' = [reg EXCEPT ![w] = 0]
  /\ UNCHANGED <<poolVars, stats_lock_, waiting, stolen, cur, timedOut, clientVars, taskVars, opc>>

\* cv_task_.wait / wait_for: joins the wait set and unlocks in one step
Wait(w) ==
  /\ Goto(w, "wait", "asleep")
  /\ waiting' = waiting \cup {w}
  /\ stats_lock_' = FALSE
  /\ UNCHANGED <<poolVars, idles_, stolen, cur, reg, timedOut, clientVars, taskVars, opc>>

\* the block ends: by a notification (w has left the wait set) ...
Wake(w) ==
  /\ w \notin waiting
  /\ Goto(w, "asleep", "relock")
  /\ UNCHANGED <<poolVars, statVars, cur, reg, timedOut, clientVars, taskVars, opc>>

\* ... or by itself: the deadline of a temporary thread, or a spurious wake-up
WakeByItself(w) ==
  /\ w \in waiting
  /\ Goto(w, "asleep", "relock")
  /\ waiting' = waiting \ {w}
  /\ UNCHANGED <<poolVars, idles_, stats_lock_, stolen, cur, reg, timedOut, clientVars, taskVars, opc>>

AnyMayTimeOut(w) == BOOLEAN      \* mutant: residents call wait_for too
NoneTimesOut(w) == {FALSE}       \* mutant: temporary threads call wait
TimeoutStatus(w) == IF Resident(w) THEN {FALSE} ELSE BOOLEAN

\* the wait relocks stats_lock_ before it returns; wait_for then reads the
\* clock, so a notified temporary thread may be told "timeout" as well
RelockStats(w) ==
  /\ Goto(w, "relock", "decLoad")
  /\ ~stats_lock_ /\ stats_lock_' = TRUE
  /\ \E b \in TimeoutStatus(w) : timedOut' = [timedOut EXCEPT ![w] = b]
  /\ UNCHANGED <<poolVars, idles_, waiting, stolen, cur, reg, clientVars, taskVars, opc>>

\* the guard goes out of scope, by the break of a timeout or at the block's end
UnlockStats(w) ==
  /\ Goto(w, "unlock", IF timedOut[w] THEN "exit" ELSE "loop")
  /\ stats_lock_' = FALSE
  /\ timedOut' = [timedOut EXCEPT ![w] = FALSE]
  /\ UNCHANGED <<poolVars, idles_, waiting, stolen, cur, reg, clientVars, taskVars, opc>>

\* the last critical section of thread_lock_; cv_recycle_.notify_one() is
\* destroy's condition becoming enabled (see DestroyJoin)
WorkerExit(w) ==
  /\ Goto(w, "exit", "ended")
  /\ recycle_' = Append(recycle_, w)
  /\ UNCHANGED <<isInitialize_, isDestroyed_, threads_, born, statVars, cur, reg,
                 timedOut, clientVars, taskVars, opc>>

\* what a worker does by itself, a wake-up it was not sent apart
Work(w) ==
  \/ WorkerLoop(w) \/ FetchTask(w) \/ Process(w) \/ LockStats(w) \/ LoadIdles(w)
  \/ StoreIdles(w) \/ Wait(w) \/ Wake(w) \/ RelockStats(w) \/ UnlockStats(w)
  \/ WorkerExit(w)

-----------------------------------------------------------------------------
(* ThreadPool::execute *)

Step(c, from, to) == cpc[c] = from /\ cpc' = [cpc EXCEPT ![c] = to]

Return(c, to, r) ==
  /\ result' = [result EXCEPT ![arg[c]] = r]
  /\ arg' = [arg EXCEPT ![c] = NoTask]
  /\ cpc' = [cpc EXCEPT ![c] = to]

PushFront(t) == <<t>> \o tasks_  \* mutant: a stack
Push(t) == Append(tasks_, t)

\* the early return, or the push under task_lock_ (isInitialize_ never goes
\* back to FALSE, so the test and the push can be one step)
Execute(c, t) ==
  /\ cpc[c] = "out"
  /\ result[t] = "none" /\ \A d \in Clients : arg[d] # t
  /\ IF ~isInitialize_
     THEN /\ result' = [result EXCEPT ![t] = "uninitialized"]
          /\ UNCHANGED <<cpc, arg, tasks_, queued>>
     ELSE /\ cpc' = [cpc EXCEPT ![c] = "lock"]
          /\ arg' = [arg EXCEPT ![c] = t]
          /\ tasks_' = Push(t)
          /\ queued' = Append(queued, t)
          /\ UNCHANGED result
  /\ UNCHANGED <<poolVars, statVars, workerVars, started, done, opc>>

\* lock_guard guard(stats_lock_)
ExecuteLock(c) ==
  /\ Step(c, "lock", "check")
  /\ ~stats_lock_ /\ stats_lock_' = TRUE
  /\ UNCHANGED <<poolVars, idles_, waiting, stolen, workerVars, arg, result, taskVars, opc>>

\* mutant: execute polls for an idle thread with stats_lock_ held
ExecutePoll(c) ==
  /\ Step(c, "check", IF idles_ > 0 THEN "unlock" ELSE "check")
  /\ UNCHANGED <<poolVars, statVars, workerVars, arg, result, taskVars, opc>>

\* if (idles_ > 0)
ExecuteCheck(c) ==
  /\ Step(c, "check", IF idles_ > 0 THEN "unlock" ELSE "busy")
  /\ UNCHANGED <<poolVars, statVars, workerVars, arg, result, taskVars, opc>>

\* guard.~lock_guard() in the idle case, the end of the block in the busy one
ExecuteUnlock(c) ==
  /\ \/ Step(c, "unlock", "notify")
     \/ Step(c, "busy", "grow")
  /\ stats_lock_' = FALSE
  /\ UNCHANGED <<poolVars, idles_, waiting, stolen, workerVars, arg, result, taskVars, opc>>

\* cv_task_.notify_one(), without stats_lock_
ExecuteNotify(c) ==
  /\ Step(c, "notify", "unlockAgain")
  /\ IF waiting = {} THEN UNCHANGED waiting
     ELSE \E w \in waiting : waiting' = waiting \ {w}
  /\ UNCHANGED <<poolVars, idles_, stats_lock_, stolen, workerVars, arg, result, taskVars, opc>>

\* return true after the 10 ms sleep: the guard is destroyed a second time
ExecuteUnlockAgain(c) ==
  /\ cpc[c] = "unlockAgain"
  /\ stats_lock_' = FALSE
  /\ stolen' = (stolen \/ Holders # {})
  /\ Return(c, "out", "notified")
  /\ UNCHANGED <<poolVars, idles_, waiting, workerVars, taskVars, opc>>

PastMax == Cardinality(threads_) > Max   \* mutant: off by one
Full == Cardinality(threads_) >= Max

\* all threads busy, under thread_lock_: full, or Grow temporary threads more
ExecuteGrow(c) ==
  /\ cpc[c] = "grow"
  /\ IF Full
     THEN /\ Return(c, "out", "full")
          /\ UNCHANGED <<poolVars, wpc>>
     ELSE /\ Return(c, "out", "grown")
          /\ Spawn(Grow)
          /\ UNCHANGED <<isInitialize_, isDestroyed_, recycle_>>
  /\ UNCHANGED <<statVars, cur, reg, timedOut, taskVars, opc>>

Executing(c) ==
  \/ ExecuteLock(c) \/ ExecuteCheck(c) \/ ExecuteUnlock(c) \/ ExecuteNotify(c)
  \/ ExecuteUnlockAgain(c) \/ ExecuteGrow(c)

-----------------------------------------------------------------------------
(* The owner: initialize, recycle, destroy.  The destructor is a Destroy    *)
(* when isDestroyed_ is FALSE and nothing otherwise.                        *)

\* initialize(): the resident threads, under thread_lock_
Initialize ==
  /\ opc = "out" /\ ~isInitialize_
  /\ Spawn(Initial)
  /\ opc' = "initialized"
  /\ UNCHANGED <<isInitialize_, isDestroyed_, recycle_, statVars, cur, reg, timedOut,
                 clientVars, taskVars>>

\* ... and, after the 10 ms sleep, isInitialize_ = true
InitializeEnd ==
  /\ opc = "initialized" /\ opc' = "out"
  /\ isInitialize_' = TRUE
  /\ UNCHANGED <<isDestroyed_, threads_, recycle_, born, statVars, workerVars,
                 clientVars, taskVars>>

\* mutant: recycle_.clear() is forgotten
ReapOnly == threads_' = threads_ \ RangeOf(recycle_) /\ UNCHANGED recycle_

\* recycle()'s critical section.  join() cannot block: a thread pushed its id
\* in its last critical section of the thread_lock_ held here.
Reap ==
  /\ threads_' = threads_ \ RangeOf(recycle_)
  /\ recycle_' = <<>>

Recycle ==
  /\ opc = "out"
  /\ Reap
  /\ UNCHANGED <<isInitialize_, isDestroyed_, born, statVars, workerVars, clientVars,
                 taskVars, opc>>

\* destroy(): isDestroyed_ = true
Destroy ==
  /\ opc = "out" /\ opc' = "notifyAll"
  /\ isDestroyed_' = TRUE
  /\ UNCHANGED <<isInitialize_, threads_, recycle_, born, statVars, workerVars,
                 clientVars, taskVars>>

\* cv_task_.notify_all(), without stats_lock_
DestroyNotifyAll ==
  /\ opc = "notifyAll" /\ opc' = "join"
  /\ waiting' = {}
  /\ UNCHANGED <<poolVars, idles_, stats_lock_, stolen, workerVars, clientVars, taskVars>>

FirstWakeup == TRUE   \* mutant: wait(guard) without its predicate
AllRecycled == Len(recycle_) = Cardinality(threads_)

\* cv_recycle_.wait(guard, sizes equal).  The sizes only become equal by a
\* push to recycle_, which notifies, so the wait is just its condition.
DestroyJoin ==
  /\ opc = "join" /\ opc' = "reap"
  /\ AllRecycled
  /\ UNCHANGED <<poolVars, statVars, workerVars, clientVars, taskVars>>

\* recycle(), which takes thread_lock_ anew
DestroyReap ==
  /\ opc = "reap" /\ opc' = "out"
  /\ Reap
  /\ UNCHANGED <<isInitialize_, isDestroyed_, born, statVars, workerVars, clientVars,
                 taskVars>>

Owning == InitializeEnd \/ DestroyNotifyAll \/ DestroyJoin \/ DestroyReap

-----------------------------------------------------------------------------
Next ==
  \/ \E w \in Thread : Work(w) \/ WakeByItself(w)
  \/ \E c \in Clients : Executing(c)
  \/ \E c \in Clients, t \in Tasks : Execute(c, t)
  \/ Initialize \/ Recycle \/ Destroy \/ Owning

Spec == Init /\ [][Next]_vars

(* Fairness.  A runnable thread is eventually scheduled, and a thread that   *)
(* keeps asking for stats_lock_ eventually gets it (strong fairness: others  *)
(* may hold it now and then).  The deadline of a temporary thread's wait     *)
(* eventually passes.  Nothing makes a client call execute, the owner call   *)
(* anything, or a waiting thread wake spuriously.                            *)
Fairness ==
  /\ \A w \in Thread :
       /\ WF_vars(Work(w)) /\ SF_vars(LockStats(w) \/ RelockStats(w))
       /\ ~Resident(w) => /\ WF_vars(WakeByItself(w))
                          /\ SF_vars(RelockStats(w) /\ timedOut'[w])
  /\ \A c \in Clients : WF_vars(Executing(c)) /\ SF_vars(ExecuteLock(c))
  /\ WF_vars(Owning)

FairSpec == Spec /\ Fairness

-----------------------------------------------------------------------------
(* Safety *)

\* Every variable has its type: idles_ stays a uint32_t, ids are thread ids,
\* and so on.
TypeOK ==
  /\ isInitialize_ \in BOOLEAN /\ isDestroyed_ \in BOOLEAN
  /\ tasks_ \in Seq(Tasks) /\ queued \in Seq(Tasks) /\ started \in Seq(Tasks)
  /\ done \in SUBSET Tasks
  /\ threads_ \in SUBSET Thread /\ recycle_ \in Seq(Thread)
  /\ idles_ \in Word /\ stats_lock_ \in BOOLEAN /\ stolen \in BOOLEAN
  /\ waiting \in SUBSET Thread
  /\ wpc \in [Thread -> WorkerPC]
  /\ cur \in [Thread -> Tasks \cup {NoTask}]
  /\ reg \in [Thread -> Word]
  /\ timedOut \in [Thread -> BOOLEAN]
  /\ born \in 0..ThreadBound
  /\ cpc \in [Clients -> ClientPC]
  /\ arg \in [Clients -> Tasks \cup {NoTask}]
  /\ result \in [Tasks -> Result]
  /\ opc \in OwnerPC

\* Tasks are started in the order execute pushed them and none disappears from
\* the queue: what was pushed is what was fetched followed by what is queued,
\* however many workers fetch while clients push.
FirstInFirstOut == queued = started \o tasks_

\* How a pool looks from outside: worker threads are only jobs that run, and the
\* pool is over when it was destroyed and no worker looks at the queue again.
InWorkers == {cur[w] : w \in Thread} \ {NoTask}
Idle == \A w \in Thread : wpc[w] \in {"unborn", "loop", "exit", "ended"}
Owner == IF opc \in {"notifyAll", "join"} THEN "closing"
         ELSE IF opc = "reap" THEN "told" ELSE "free"

Pool == INSTANCE JobQueue WITH
  Jobs <- Tasks, queue <- tasks_, running <- InWorkers, finished <- done,
  over <- isDestroyed_ /\ Idle, owner <- Owner

\* The pool is a queue of jobs, for all its locks: whatever clients, workers and
\* owner do, each task that was pushed is started at most once and in order, is
\* finished by the thread that started it, and when destroy's wait is over
\* nothing runs and nothing is ever started, by threads created late included.
ImplementsJobQueue == Pool!Spec

\* A task is processed at most once: no task is pushed twice, and each fetched
\* task is either done or in the hands (pTask) of exactly one worker.
ProcessedOnce ==
  /\ \A i, j \in 1..Len(queued) : queued[i] = queued[j] => i = j
  /\ \A v, w \in Thread : cur[v] = cur[w] /\ cur[v] # NoTask => v = w
  /\ \A w \in Thread : cur[w] # NoTask => cur[w] \notin done
  /\ RangeOf(started) = done \cup ({cur[w] : w \in Thread} \ {NoTask})

\* recycle_ holds exactly the ended threads that are still in threads_, each
\* once, and a thread leaves threads_ (is joined and its std::thread destroyed)
\* only when it ended.  Otherwise destroy's size test or recycle's join would
\* hang, or a joinable std::thread would be destroyed.
RecycleSound ==
  /\ \A i, j \in 1..Len(recycle_) : recycle_[i] = recycle_[j] => i = j
  /\ RangeOf(recycle_) = {w \in threads_ : wpc[w] = "ended"}
  /\ \A w \in Thread : w \notin threads_ => wpc[w] \in {"unborn", "ended"}

\* the workers between their ++idles_ and their --idles_
Idling == {w \in Thread : wpc[w] \in {"wait", "asleep", "relock", "decLoad", "decStore"}}

\* threadpool.h:75: idles_ is the number of idle threads (those between their ++ and
\* their --), and stats_lock_ excludes, for as long as no execute's second unlock
\* (threadpool.cpp:55) released the lock of somebody else; nothing but that breaks
\* either.  (Afterwards both fail: two threads count at once.)
CountsUntilStolen ==
  ~stolen =>
    /\ \A g, h \in Holders : g = h
    /\ stats_lock_ <=> Holders # {}
    /\ idles_ = Cardinality(Idling) % IdleMod

\* The size execute really keeps: the test threads_.size() >= max_ comes before
\* a batch of grow_ threads, so the list may pass max_, by grow_ - 1 at most.
SizeBounded ==
  Cardinality(threads_) =< (IF Initial >= Max + Grow - 1 THEN Initial ELSE Max + Grow - 1)

\* threadpool.h:20: the initial threads stay, until the pool is destroyed: no
\* timeout, spurious wake-up or recycle() takes one away.
ResidentsStay ==
  isInitialize_ /\ ~isDestroyed_ =>
    \A w \in 1..Initial : w \in threads_ /\ wpc[w] \notin {"exit", "ended"}

\* destroy's wait compares two sizes; when it ends, every thread of the pool
\* has really ended.
JoinWaitsForAll ==
  [][opc = "join" /\ opc' = "reap" => \A w \in threads_ : wpc[w] = "ended"]_vars

\* Once destroy's wait is over no task is running and none is ever started,
\* not even by threads that an execute racing with destroy still creates.
QuietAfterJoin ==
  [](opc = "reap" => [](\A w \in Thread : wpc[w] \in {"unborn", "loop", "exit", "ended"}))

-----------------------------------------------------------------------------
(* Liveness, under FairSpec *)

\* execute returns: the second unlock never leaves stats_lock_ taken for ever.
ExecuteReturns == \A c \in Clients : cpc[c] # "out" ~> cpc[c] = "out"

\* A task whose execute enlarged the pool is started, or the pool is destroyed:
\* the new threads look at the queue before they wait.
GrownTaskStarts ==
  \A t \in Tasks : result[t] = "grown" ~> t \in RangeOf(started) \/ isDestroyed_

\* Every temporary thread ends after the last task: it does not stay in the
\* pool (threadpool.cpp:179).
TemporariesRetire ==
  \A w \in Thread : ~Resident(w) => (wpc[w] = "loop" ~> wpc[w] = "ended")

-----------------------------------------------------------------------------
(* What the comments say and the code does not do *)

\* threadpool.h:28 and threadpool.cpp:176: execute adds the task and waiting
\* threads are notified of it: a task that execute accepted is started, unless the
\* pool is destroyed, or its lock is broken by a second unlock (threadpool.cpp:55).
AcceptedTaskStarts ==
  \A t \in Tasks :
    result[t] \in {"notified", "grown"}
      ~> t \in RangeOf(started) \/ isDestroyed_ \/ stolen

\* threadpool.h:33: destroy destroys the pool: its wait ends.
DestroyReturns == opc = "join" ~> opc = "reap"
=============================================================================
