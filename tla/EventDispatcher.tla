-------------------------- MODULE EventDispatcher --------------------------
(***************************************************************************)
(* libs/dispatcher: EventDispatcher with Tasks and Timers, and common's    *)
(* Task, Timer, TimerHandle and TimerHandler.  One thread; user code runs  *)
(* outside the dispatcher ("out"), in Task::process ("task"), in a timer's *)
(* handleTimeout ("callback") and in a descriptor's handler ("io"), and    *)
(* may call the dispatcher and the timer handles there.                    *)
(*                                                                         *)
(* Time is counted in clock units (nanoseconds in the code); an addTimer   *)
(* or maxWait argument is in units of UnitsPerMs of them.  A finite wait   *)
(* that would end after the last instant modelled, MaxTime, ends there.    *)
(* The list of tasks is protected: a derived dispatcher adds and cancels   *)
(* tasks.  It does so outside the pass over the list, whose vector         *)
(* iterator a push_back or an erase from within would leave dangling.      *)
(***************************************************************************)
EXTENDS Integers, FiniteSets, SequencesExt

CONSTANTS
  Tasks,        \* Task objects
  Handlers,     \* TimerHandler objects
  Delays,       \* arguments of addTimer, in milliseconds
  UnitsPerMs,   \* clock units per millisecond: 10^6
  IntMod,       \* 2^32: an int takes IntMod values
  MaxWaits,     \* values maxWait_ may have when the loop starts: set by the
                \* user, or whatever memory held (the constructor sets none)
  MaxTasks,     \* bound: entries in the list of tasks
  MaxTimers,    \* bound: timers created
  MaxTime       \* bound: the clock

ASSUME DispatcherAssumption ==
  /\ Delays \subseteq Nat \ {0} /\ UnitsPerMs \in Nat \ {0}
  /\ IntMod \in Nat \ {0} /\ IntMod % 2 = 0
  /\ MaxWaits \subseteq Int /\ MaxTasks \in Nat /\ MaxTimers \in Nat /\ MaxTime \in Nat

VARIABLES
  now,          \* the steady clock
  timer,        \* the Timer objects made so far
  timeQueue_,   \* the priority queue; equal times come out in any order
  numTimesRegistered_, released,
                \* per handler; history: calls of onRelease per timer
  container_,   \* Tasks::container_, a vector
  iter,         \* the index Tasks::process has reached
  pass, ran,    \* history: the list as the pass began; the tasks it ran so
                \* far, each with its answer
  pc,           \* "out", "once", "tasks", "task", "timers", "callback",
                \* "network", "asleep", "io", "destroyed"
  caller,       \* what runs processOnce: "loop" (processUntilBreak), or the
                \* user with shouldIdle ("idle") or without ("busy")
  pnow, cur,    \* Timers::process's parameter now and the timer it popped; both
                \* are reset when it has returned, as locals
  wakeAt,       \* when epoll_wait times out, or Never
  maxWait_, breakProcessing_

timerVars == <<timer, timeQueue_, numTimesRegistered_, released>>
taskVars  == <<container_, iter, pass, ran>>
loopVars  == <<pc, caller, pnow, cur, wakeAt>>
vars == <<now, timerVars, taskVars, loopVars, maxWait_, breakProcessing_>>

Made == 1..Len(timer)
NoTimer == 0
Never == -1
isCancelled(t) == timer[t].state = "CANCELLED"
Live == {t \in Made : ~isCancelled(t)}

Init ==
  /\ now = 0 /\ timer = <<>> /\ timeQueue_ = {}
  /\ numTimesRegistered_ = [h \in Handlers |-> 0] /\ released = [t \in 1..MaxTimers |-> 0]
  /\ container_ = <<>> /\ iter = 1 /\ pass = <<>> /\ ran = <<>>
  /\ pc = "out" /\ caller = "loop" /\ pnow = 0 /\ cur = NoTimer /\ wakeAt = Never
  /\ maxWait_ \in MaxWaits /\ breakProcessing_ = "RUNNING"

-----------------------------------------------------------------------------
(* User code *)

InUserCode == pc \in {"out", "task", "callback", "io"}

\* Timer's constructor and Timers::add
Add(startTime, interval, h) ==
  /\ timer' = Append(timer, [time |-> startTime, interval |-> interval,
                             handler |-> h, state |-> "PENDING"])
  /\ numTimesRegistered_' = [numTimesRegistered_ EXCEPT ![h] = @ + 1]
  /\ timeQueue_' = timeQueue_ \cup {Len(timer) + 1}

\* addTimer (a zero delay adds nothing)
AddTimer(h, ms, repeat) ==
  /\ InUserCode /\ Len(timer) < MaxTimers
  /\ Add(now + ms * UnitsPerMs, IF repeat THEN ms * UnitsPerMs ELSE 0, h)
  /\ UNCHANGED <<now, released, taskVars, loopVars, maxWait_, breakProcessing_>>

\* mutant: Timer::cancel without its early return
CancelAgain(ts) ==
  /\ timer' = [t \in Made |-> IF t \in ts THEN [timer[t] EXCEPT !.state = "CANCELLED"]
                              ELSE timer[t]]
  /\ numTimesRegistered_' = [h \in Handlers |->
       numTimesRegistered_[h] - Cardinality({t \in ts : timer[t].handler = h})]
  /\ released' = [t \in DOMAIN released |-> released[t] + IF t \in ts THEN 1 ELSE 0]

\* Timer::cancel of each timer in ts: nothing for one cancelled before,
\* otherwise the handler is released
CancelTimers(ts) ==
  LET live == ts \cap Live
  IN  /\ timer' = [t \in Made |-> IF t \in live THEN [timer[t] EXCEPT !.state = "CANCELLED"]
                                  ELSE timer[t]]
      /\ numTimesRegistered_' = [h \in Handlers |->
           numTimesRegistered_[h] - Cardinality({t \in live : timer[t].handler = h})]
      /\ released' = [t \in DOMAIN released |-> released[t] + IF t \in live THEN 1 ELSE 0]

\* TimerHandle::cancel of any handle the user kept: the timer stays in the queue
Cancel(t) ==
  /\ InUserCode
  /\ CancelTimers({t})
  /\ UNCHANGED <<now, timeQueue_, taskVars, loopVars, maxWait_, breakProcessing_>>

\* Tasks::add, and Tasks::cancel of the first entry of k
AddTask(k) ==
  /\ pc \in {"out", "callback", "io"} /\ Len(container_) < MaxTasks
  /\ container_' = Append(container_, k)
  /\ UNCHANGED <<now, timerVars, iter, pass, ran, loopVars, maxWait_, breakProcessing_>>

CancelTask(k) ==
  /\ pc \in {"out", "callback", "io"}
  /\ container_' = RemoveFirst(container_, k)
  /\ UNCHANGED <<now, timerVars, iter, pass, ran, loopVars, maxWait_, breakProcessing_>>

\* breakProcessing(b) and setWaitBreakProcessing()
SetBreak(s) ==
  /\ InUserCode
  /\ breakProcessing_' = s
  /\ UNCHANGED <<now, timerVars, taskVars, loopVars, maxWait_>>

\* maxWait(seconds)
SetMaxWait(ms) ==
  /\ InUserCode
  /\ maxWait_' = ms
  /\ UNCHANGED <<now, timerVars, taskVars, loopVars, breakProcessing_>>

\* Timers::clear
Clear == CancelTimers(timeQueue_) /\ timeQueue_' = {}

\* the destructor
Destroy ==
  /\ pc = "out" /\ pc' = "destroyed"
  /\ Clear
  /\ container_' = <<>>
  /\ UNCHANGED <<now, pnow, cur, wakeAt, iter, pass, ran, caller, maxWait_, breakProcessing_>>

-----------------------------------------------------------------------------
(* processUntilBreak and processOnce *)

Reset(s) == IF s # "BREAK" THEN "RUNNING" ELSE s

ProcessUntilBreak ==
  /\ pc = "out"
  /\ breakProcessing_' = Reset(breakProcessing_)
  /\ pc' = IF breakProcessing_ = "BREAK" THEN "out" ELSE "once"
  /\ UNCHANGED <<now, timerVars, taskVars, caller, pnow, cur, wakeAt, maxWait_>>

\* processOnce up to the first task
Begin(by) ==
  /\ pc' = "tasks" /\ caller' = by
  /\ breakProcessing_' = Reset(breakProcessing_)
  /\ pass' = container_
  /\ UNCHANGED <<now, timerVars, container_, iter, ran, pnow, cur, wakeAt, maxWait_>>

\* mutant: the loop never tests breakProcessing_
ProcessOnceAlways == pc = "once" /\ Begin("loop")

\* the loop's test: another processOnce(true), or its end
ProcessOnce ==
  /\ pc = "once"
  /\ IF breakProcessing_ = "BREAK"
     THEN pc' = "out" /\ UNCHANGED <<now, timerVars, taskVars, caller, pnow, cur, wakeAt,
                                     maxWait_, breakProcessing_>>
     ELSE Begin("loop")

\* processOnce(shouldIdle), called by the user
UserProcessOnce(shouldIdle) == pc = "out" /\ Begin(IF shouldIdle THEN "idle" ELSE "busy")

\* processOnce returns to its caller
Leave == /\ pc' = IF caller = "loop" THEN "once" ELSE "out"
         /\ caller' = "loop"

RunTask ==
  /\ pc = "tasks" /\ iter =< Len(container_)
  /\ pc' = "task"
  /\ UNCHANGED <<now, timerVars, taskVars, caller, pnow, cur, wakeAt, maxWait_, breakProcessing_>>

\* mutant: the iterator also moves on after an erase
SkipErased(again) ==
  /\ iter' = iter + 1
  /\ container_' = IF again THEN container_ ELSE RemoveAt(container_, iter)

\* a task that wants no further call is erased, and the iterator is then at the next one
Step(again) ==
  IF again THEN iter' = iter + 1 /\ UNCHANGED container_
  ELSE container_' = RemoveAt(container_, iter) /\ UNCHANGED iter

TaskReturns(again) ==
  /\ pc = "task" /\ pc' = "tasks"
  /\ Step(again)
  /\ ran' = Append(ran, [task |-> container_[iter], again |-> again])
  /\ UNCHANGED <<now, timerVars, pass, caller, pnow, cur, wakeAt, maxWait_, breakProcessing_>>

\* the pass over the tasks is over: on to Timers::process(TIME_NOW), unless a task broke
TasksEnd ==
  /\ pc = "tasks" /\ iter > Len(container_)
  /\ IF breakProcessing_ = "BREAK" THEN Leave /\ UNCHANGED pnow
     ELSE pc' = "timers" /\ pnow' = now /\ UNCHANGED caller
  /\ iter' = 1 /\ pass' = <<>> /\ ran' = <<>>
  /\ UNCHANGED <<now, timerVars, container_, cur, wakeAt, maxWait_, breakProcessing_>>

Tops == {t \in timeQueue_ : \A u \in timeQueue_ : timer[t].time =< timer[u].time}

NotYetDue(t) == timer[t].time > pnow /\ ~isCancelled(t)

\* triggerTimer up to handleTimeout, unless the popped timer was cancelled
Fire(t) ==
  IF isCancelled(t) THEN UNCHANGED <<timer, cur, pc>>
  ELSE /\ timer' = [timer EXCEPT ![t].state = "EXECUTING"]
       /\ cur' = t /\ pc' = "callback"

\* one round of Timers::process's loop
PopTimer ==
  /\ pc = "timers"
  /\ \E t \in Tops : /\ ~NotYetDue(t)
                     /\ timeQueue_' = timeQueue_ \ {t}
                     /\ Fire(t)
  /\ UNCHANGED <<now, numTimesRegistered_, released, taskVars, caller, pnow, wakeAt, maxWait_, breakProcessing_>>

\* mutant: push() is forgotten after a repeat
RequeueNever(t) == timeQueue_
Requeue(t) == timeQueue_ \cup {t}

\* handleTimeout returned: a one-shot timer is cancelled, a repeating one that
\* was not cancelled meanwhile is rescheduled and pushed
CallbackReturns ==
  /\ pc = "callback" /\ pc' = "timers" /\ cur' = NoTimer
  /\ IF isCancelled(cur)
     THEN UNCHANGED timerVars
     ELSE IF timer[cur].interval = 0
     THEN CancelTimers({cur}) /\ UNCHANGED timeQueue_
     ELSE /\ timer' = [timer EXCEPT ![cur].time = @ + timer[cur].interval,
                                    ![cur].state = "PENDING"]
          /\ timeQueue_' = Requeue(cur)
          /\ UNCHANGED <<numTimesRegistered_, released>>
  /\ UNCHANGED <<now, taskVars, caller, pnow, wakeAt, maxWait_, breakProcessing_>>

\* mutant: the loop stops after one timer
OneIsEnough == TRUE
NothingDue == timeQueue_ = {} \/ \E t \in Tops : NotYetDue(t)

TimersEnd ==
  /\ pc = "timers"
  /\ NothingDue
  /\ IF breakProcessing_ = "BREAK" THEN Leave /\ pnow' = 0
     ELSE pc' = "network" /\ UNCHANGED <<caller, pnow>>
  /\ UNCHANGED <<now, timerVars, taskVars, cur, wakeAt, maxWait_, breakProcessing_>>

\* an integer converted to int
ToInt(n) == ((n + IntMod \div 2) % IntMod) - (IntMod \div 2)

\* calculateWait: nextExp().count() is in clock units, maxWait_ in milliseconds
\* mutant: nextExp without its first test
NextExpSigned(t) == timer[t].time - now
NextExp(t) == IF now > timer[t].time THEN 0 ELSE timer[t].time - now

CalculateWait ==
  IF timeQueue_ = {} THEN maxWait_
  ELSE LET top == CHOOSE t \in Tops : TRUE
           wait == ToInt(NextExp(top))
       IN  IF wait < maxWait_ THEN wait ELSE maxWait_

\* processNetwork(shouldIdle): epoll_wait, for which a negative timeout is no timeout
ProcessNetwork ==
  /\ pc = "network" /\ pc' = "asleep"
  /\ LET maxWait == IF caller = "busy" THEN -1 ELSE CalculateWait
     IN  wakeAt' = IF maxWait < 0 THEN Never ELSE now + maxWait * UnitsPerMs
  /\ pnow' = 0
  /\ UNCHANGED <<now, timerVars, taskVars, caller, cur, maxWait_, breakProcessing_>>

\* epoll_wait reports events, whose handlers run ("io"), or times out
EpollReports ==
  /\ pc = "asleep" /\ pc' = "io" /\ wakeAt' = Never
  /\ UNCHANGED <<now, timerVars, taskVars, caller, pnow, cur, maxWait_, breakProcessing_>>

IoReturns ==
  /\ pc = "io" /\ Leave
  /\ UNCHANGED <<now, timerVars, pnow, cur, wakeAt, taskVars, maxWait_, breakProcessing_>>

EpollTimesOut ==
  /\ pc = "asleep" /\ wakeAt # Never /\ (now >= wakeAt \/ now = MaxTime)
  /\ Leave /\ wakeAt' = Never
  /\ UNCHANGED <<now, timerVars, pnow, cur, taskVars, maxWait_, breakProcessing_>>

Tick ==
  /\ now < MaxTime /\ now' = now + 1
  /\ UNCHANGED <<timerVars, taskVars, loopVars, maxWait_, breakProcessing_>>

-----------------------------------------------------------------------------
Looping == ProcessOnce \/ RunTask \/ (\E again \in BOOLEAN : TaskReturns(again)) \/ TasksEnd
           \/ PopTimer \/ CallbackReturns \/ TimersEnd \/ ProcessNetwork
           \/ IoReturns \/ EpollTimesOut

Next ==
  \/ \E h \in Handlers, ms \in Delays, repeat \in BOOLEAN : AddTimer(h, ms, repeat)
  \/ \E t \in Made : Cancel(t)
  \/ \E k \in Tasks : AddTask(k) \/ CancelTask(k)
  \/ \E shouldIdle \in BOOLEAN : UserProcessOnce(shouldIdle)
  \/ \E s \in {"RUNNING", "WAITING_BREAK", "BREAK"} : SetBreak(s)
  \/ \E ms \in MaxWaits : SetMaxWait(ms)
  \/ Destroy \/ ProcessUntilBreak \/ Looping \/ EpollReports \/ Tick

Spec == Init /\ [][Next]_vars

(* Fairness.  The loop goes on, callbacks return, time passes.              *)
FairSpec == Spec /\ WF_vars(Looping) /\ WF_vars(Tick)

-----------------------------------------------------------------------------
(* Properties *)

\* Types.
TypeOK ==
  /\ now \in 0..MaxTime /\ pnow \in 0..MaxTime /\ timeQueue_ \subseteq Made
  /\ cur \in Made \cup {NoTimer} /\ maxWait_ \in Int
  /\ container_ \in Seq(Tasks) /\ iter \in 1..MaxTasks + 1 /\ caller \in {"loop", "idle", "busy"}
  /\ pc \in {"out", "once", "tasks", "task", "timers", "callback", "network", "asleep", "io", "destroyed"}
  /\ breakProcessing_ \in {"RUNNING", "WAITING_BREAK", "BREAK"}
  /\ \A h \in Handlers : numTimesRegistered_[h] \in 0..MaxTimers

\* A timer that was not cancelled is in the queue, or it is the one whose
\* handler runs, and never both: none is lost and none fires twice at once,
\* although handlers add and cancel timers.
LiveTimerIsQueued ==
  \A t \in Live : (t \in timeQueue_) # (t = cur /\ pc = "callback")

\* A handler counts exactly its live timers and each timer releases it once:
\* timer.h:54 asserts the count is 0 when the handler is deleted.
ReleasedOnce ==
  /\ \A t \in Made : released[t] = IF isCancelled(t) THEN 1 ELSE 0
  /\ \A h \in Handlers :
       numTimesRegistered_[h] = Cardinality({t \in Live : timer[t].handler = h})

\* the tasks of rs, the runs of a pass, and those that asked to be run again among its first n
Names(rs) == [i \in 1..Len(rs) |-> rs[i].task]
Listed(tasks, r) == IF r.again THEN Append(tasks, r.task) ELSE tasks
RunAgain(rs) ==
  LET again[n \in 0..Len(rs)] == IF n = 0 THEN <<>> ELSE Listed(again[n - 1], rs[n])
  IN  again

\* A pass over the tasks runs every task of the list once and in order, although
\* the pass erases from the vector it walks over, and what it has left behind
\* are the tasks that asked to be run again (tasks.cpp process).
TasksRunInOrder ==
  LET ahead == SubSeq(container_, iter, Len(container_))
  IN  pc \in {"tasks", "task"} =>
        /\ Names(ran) \o ahead = pass
        /\ RunAgain(ran)[Len(ran)] \o ahead = container_

\* When the loop goes to sleep, no live timer was due at the time the pass over
\* the timers began.
NoDueTimerSkipped ==
  pc = "network" => \A t \in timeQueue_ : isCancelled(t) \/ timer[t].time > pnow

\* inside processUntilBreak
InLoop == pc \notin {"out", "destroyed"} /\ caller = "loop"

\* A timer that is due while the loop runs is taken from the queue, or the loop is
\* left, provided no wait handed to epoll is negative (timers.cpp process, timed
\* by event_dispatcher.cpp calculateWait).
DueTimerFires ==
  \A t \in 1..MaxTimers :
    (t \in timeQueue_ /\ timer[t].time =< now /\ InLoop) ~> (t \notin timeQueue_ \/ ~InLoop)

\* breakProcessing(true), wherever the loop is, ends it, unless it is taken back.
BreakLeavesLoop ==
  (breakProcessing_ = "BREAK" /\ InLoop) ~> (breakProcessing_ # "BREAK" \/ ~InLoop)

\* event_dispatcher.h:78: maxWait sets the longest time the loop waits in epoll.
WaitWithinMax ==
  pc = "asleep" /\ caller = "loop" => wakeAt # Never /\ wakeAt =< now + maxWait_ * UnitsPerMs
=============================================================================
