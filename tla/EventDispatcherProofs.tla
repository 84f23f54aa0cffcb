----------------------- MODULE EventDispatcherProofs -----------------------
(***************************************************************************)
(* Theorems about the timers and the tasks of EventDispatcher, for any     *)
(* tasks, handlers, delays, units, widths of int and numbers of timers.    *)
(***************************************************************************)
EXTENDS EventDispatcher, FiniteSetTheorems, SequenceTheorems, WellFoundedInduction, TLAPS

TimerRec == [time : Nat, interval : Nat, handler : Handlers,
             state : {"PENDING", "EXECUTING", "CANCELLED"}]

\* The timers, the queue and the popped timer, which is not in the queue.
TimerTyping ==
  /\ timer \in Seq(TimerRec) /\ Len(timer) =< MaxTimers
  /\ timeQueue_ \subseteq Made /\ now \in Nat /\ pnow \in Nat
  /\ numTimesRegistered_ \in [Handlers -> Int] /\ released \in [1..MaxTimers -> Nat]
  /\ pc = "callback" => cur \in Made \ timeQueue_

\* LiveTimerIsQueued, as an equivalence.
Queued == \A t \in Live : t \in timeQueue_ <=> ~(t = cur /\ pc = "callback")

Of(h) == {t \in Live : timer[t].handler = h}

\* Who was released, and what the handlers count.
ReleasedIsCancelled == \A t \in 1..MaxTimers : released[t] = IF t \in Made \ Live THEN 1 ELSE 0
CountsLive == \A h \in Handlers : numTimesRegistered_[h] = Cardinality(Of(h))

TimerInv == TimerTyping /\ Queued /\ ReleasedIsCancelled /\ CountsLive /\ NoDueTimerSkipped

\* The tasks, the index of the pass and what else TypeOK says.
LoopTyping ==
  /\ container_ \in Seq(Tasks) /\ Len(container_) =< MaxTasks
  /\ iter \in 1..Len(container_) + 1
  /\ pc = "task" => iter =< Len(container_)
  /\ pc \notin {"tasks", "task"} => iter = 1
  /\ now =< MaxTime /\ pnow =< MaxTime /\ cur \in Made \cup {NoTimer}
  /\ maxWait_ \in Int /\ caller \in {"loop", "idle", "busy"}
  /\ pc \in {"out", "once", "tasks", "task", "timers", "callback", "network", "asleep", "io", "destroyed"}
  /\ breakProcessing_ \in {"RUNNING", "WAITING_BREAK", "BREAK"}

-----------------------------------------------------------------------------
\* How many timers there are.
LEMMA LenIs == ASSUME TimerTyping PROVE Len(timer) \in Nat /\ MaxTimers \in Nat /\ Made \subseteq 1..MaxTimers
BY DispatcherAssumption DEF TimerTyping, Made

\* A set of timers is finite.
LEMMA OfFinite ==
  ASSUME TimerTyping, NEW S \in SUBSET Made
  PROVE  IsFiniteSet(S) /\ Cardinality(S) \in Nat
<1>1. IsFiniteSet(Made) BY LenIs, FS_Interval DEF Made
<1>2. IsFiniteSet(S) BY <1>1, FS_Subset
<1> QED BY <1>2, FS_CardinalityType

\* Timers::add appends a live timer.
LEMMA AddIs ==
  ASSUME TimerTyping, Len(timer) < MaxTimers,
         NEW at \in Nat, NEW interval \in Nat, NEW h \in Handlers, Add(at, interval, h)
  PROVE  /\ timer' \in Seq(TimerRec) /\ Len(timer') = Len(timer) + 1
         /\ \A t \in Made : timer'[t] = timer[t]
         /\ timer'[Len(timer) + 1].handler = h
         /\ Live' = Live \cup {Len(timer) + 1}
         /\ Made' = Made \cup {Len(timer) + 1}
<1> DEFINE r == [time |-> at, interval |-> interval, handler |-> h, state |-> "PENDING"]
<1>1. r \in TimerRec /\ r.handler = h /\ r.state # "CANCELLED" BY DEF TimerRec
<1>2. timer' = Append(timer, r) BY DEF Add
<1> HIDE DEF r
<1>3. /\ timer' \in Seq(TimerRec) /\ Len(timer') = Len(timer) + 1
      /\ \A t \in 1..Len(timer) : timer'[t] = timer[t]
      /\ timer'[Len(timer) + 1] = r
  BY <1>1, <1>2 DEF TimerTyping
<1>4. Made' = Made \cup {Len(timer) + 1} BY <1>3, LenIs DEF Made
<1> QED BY <1>1, <1>3, <1>4 DEF Live, isCancelled, Made

\* Timer::cancel of a set of timers.
LEMMA CancelIs ==
  ASSUME TimerTyping, NEW ts, CancelTimers(ts)
  PROVE  /\ timer' \in Seq(TimerRec) /\ Len(timer') = Len(timer) /\ Made' = Made
         /\ \A t \in Made : timer'[t].handler = timer[t].handler /\ timer'[t].time = timer[t].time
         /\ Live' = Live \ ts
<1> DEFINE live == ts \cap Live
           Off(r) == [r EXCEPT !.state = "CANCELLED"]
<1>1. timer' = [t \in 1..Len(timer) |-> IF t \in live THEN Off(timer[t]) ELSE timer[t]]
  BY DEF CancelTimers, Made
<1>2. \A r \in TimerRec : /\ Off(r) \in TimerRec /\ Off(r).state = "CANCELLED"
                          /\ Off(r).handler = r.handler /\ Off(r).time = r.time
  BY DEF TimerRec
<1>3. \A t \in 1..Len(timer) : timer[t] \in TimerRec BY DEF TimerTyping
<1> HIDE DEF live, Off
<1>4. Len(timer) \in Nat BY LenIs
<1>5. timer' \in [1..Len(timer) -> TimerRec] BY <1>1, <1>2, <1>3
<1>6. timer' \in Seq(TimerRec) /\ Len(timer') = Len(timer) BY <1>4, <1>5, SeqDef, LenProperties
<1>7. \A t \in Made : timer'[t].handler = timer[t].handler /\ timer'[t].time = timer[t].time
  BY <1>1, <1>2, <1>3 DEF Made
<1>8. \A t \in Made : timer'[t].state # "CANCELLED" <=> timer[t].state # "CANCELLED" /\ t \notin ts
  BY <1>1, <1>2, <1>3 DEF Made, live, Live, isCancelled
<1> QED BY <1>6, <1>7, <1>8 DEF Made, Live, isCancelled

\* A live timer changes its time or its state and stays live.
LEMMA EditIs ==
  ASSUME TimerTyping, NEW t \in Live, NEW r \in TimerRec, timer' = [timer EXCEPT ![t] = r],
         r.handler = timer[t].handler, r.state # "CANCELLED"
  PROVE  /\ timer' \in Seq(TimerRec) /\ Len(timer') = Len(timer) /\ Made' = Made
         /\ \A u \in Made : timer'[u].handler = timer[u].handler
         /\ Live' = Live
<1>1. timer' \in Seq(TimerRec) /\ Len(timer') = Len(timer)
  BY DEF TimerTyping, Live, Made
<1>2. \A u \in 1..Len(timer) : timer'[u] = IF u = t THEN r ELSE timer[u] BY DEF TimerTyping
<1> QED BY <1>1, <1>2 DEF Made, Live, isCancelled

-----------------------------------------------------------------------------
(* The queue *)

\* An added timer is in the queue.
LEMMA AddQueued ==
  ASSUME TimerTyping, Queued, Len(timer) < MaxTimers, UNCHANGED <<pc, cur, now, pnow, released>>,
         NEW at \in Nat, NEW interval \in Nat, NEW h \in Handlers, Add(at, interval, h)
  PROVE  TimerTyping' /\ Queued'
<1>1. timeQueue_' = timeQueue_ \cup {Len(timer) + 1} BY DEF Add
<1>2. /\ timer' \in Seq(TimerRec) /\ Len(timer') = Len(timer) + 1
      /\ Live' = Live \cup {Len(timer) + 1} /\ Made' = Made \cup {Len(timer) + 1}
  BY AddIs
<1>3. Len(timer) + 1 \notin Made /\ Len(timer') =< MaxTimers
  BY <1>2, LenIs DEF Made
<1>4. pc = "callback" => cur # Len(timer) + 1 BY <1>3 DEF TimerTyping
<1>5. Queued' BY <1>1, <1>2, <1>3, <1>4 DEF Queued, TimerTyping, Live
<1>6. numTimesRegistered_' \in [Handlers -> Int] BY DEF Add, TimerTyping
<1>7. timeQueue_' \subseteq Made' /\ (pc' = "callback" => cur' \in Made' \ timeQueue_')
  BY <1>1, <1>2, <1>4 DEF TimerTyping
<1> QED BY <1>2, <1>3, <1>5, <1>6, <1>7 DEF TimerTyping

\* Cancelling keeps the types.
LEMMA CancelTyped ==
  ASSUME TimerTyping, NEW ts \in SUBSET Made, CancelTimers(ts), timeQueue_' \subseteq timeQueue_,
         now' \in Nat, pnow' \in Nat, pc' = "callback" => pc = "callback" /\ cur' = cur
  PROVE  TimerTyping'
<1>1. timer' \in Seq(TimerRec) /\ Len(timer') = Len(timer) /\ Made' = Made BY CancelIs
<1>2. numTimesRegistered_' \in [Handlers -> Int]
  <2>1. \A h \in Handlers : Cardinality({t \in ts \cap Live : timer[t].handler = h}) \in Nat
    <3> TAKE h \in Handlers
    <3>1. {t \in ts \cap Live : timer[t].handler = h} \in SUBSET Made OBVIOUS
    <3> QED BY <3>1, OfFinite
  <2>2. numTimesRegistered_' = [h \in Handlers |->
          numTimesRegistered_[h] - Cardinality({t \in ts \cap Live : timer[t].handler = h})]
    BY DEF CancelTimers
  <2> QED BY <2>1, <2>2 DEF TimerTyping
<1>3. released' \in [1..MaxTimers -> Nat]
  <2>1. released' = [t \in 1..MaxTimers |-> released[t] + IF t \in ts \cap Live THEN 1 ELSE 0]
    BY DEF CancelTimers, TimerTyping
  <2> QED BY <2>1 DEF TimerTyping
<1> QED BY <1>1, <1>2, <1>3 DEF TimerTyping

\* Every step keeps each live timer in the queue or at its handler.
LEMMA StepQueued == TimerTyping /\ Queued /\ [Next]_vars => TimerTyping' /\ Queued'
<1> DEFINE Goal == TimerTyping' /\ Queued'
<1> SUFFICES ASSUME TimerTyping, Queued, [Next]_vars PROVE Goal
  OBVIOUS
<1>1. ASSUME UNCHANGED timerVars, now' \in Nat, pnow' \in Nat,
             pc' = "callback" <=> pc = "callback", cur' = cur
      PROVE  Goal
  BY <1>1 DEF timerVars, TimerTyping, Queued, Live, Made, isCancelled
<1>2. now \in Nat /\ pnow \in Nat /\ 0 \in Nat /\ now + 1 \in Nat BY DEF TimerTyping
<1>3. ASSUME NEW h \in Handlers, NEW ms \in Delays, NEW repeat \in BOOLEAN, AddTimer(h, ms, repeat)
      PROVE  Goal
  <2>1. ms * UnitsPerMs \in Nat /\ now + ms * UnitsPerMs \in Nat BY <1>2, DispatcherAssumption
  <2> DEFINE at == now + ms * UnitsPerMs
             interval == IF repeat THEN ms * UnitsPerMs ELSE 0
  <2>2. at \in Nat /\ interval \in Nat /\ Add(at, interval, h) BY <1>3, <2>1 DEF AddTimer
  <2>3. Len(timer) < MaxTimers /\ UNCHANGED <<pc, cur, now, pnow, released>>
    BY <1>3 DEF AddTimer, loopVars
  <2> HIDE DEF at, interval
  <2> QED BY <2>2, <2>3, AddQueued
<1>4. ASSUME NEW t \in Made, Cancel(t) PROVE Goal
  <2>1. CancelTimers({t}) /\ UNCHANGED <<timeQueue_, pc, cur, now, pnow>>
    BY <1>4 DEF Cancel, loopVars
  <2>2. TimerTyping' BY <1>2, <2>1, CancelTyped
  <2>3. Live' = Live \ {t} BY <2>1, CancelIs
  <2> QED BY <2>1, <2>2, <2>3 DEF Queued
<1>5. CASE Destroy
  <2>1. CancelTimers(timeQueue_) /\ timeQueue_' = {} /\ pc = "out" /\ pc' = "destroyed"
        /\ UNCHANGED <<cur, now, pnow>>
    BY <1>5 DEF Destroy, Clear
  <2>2. timeQueue_ \in SUBSET Made BY DEF TimerTyping
  <2>3. TimerTyping' BY <1>2, <2>1, <2>2, CancelTyped
  <2>4. Live' = Live \ timeQueue_ BY <2>1, CancelIs
  <2> QED BY <2>1, <2>3, <2>4 DEF Queued
<1>6. CASE PopTimer
  <2>1. PICK t \in timeQueue_ : timeQueue_' = timeQueue_ \ {t} /\ Fire(t)
    BY <1>6 DEF PopTimer, Tops
  <2>2. pc = "timers" /\ UNCHANGED <<numTimesRegistered_, released, now, pnow>> /\ t \in Made
    BY <1>6 DEF PopTimer, TimerTyping
  <2>3. CASE isCancelled(t)
    <3>1. UNCHANGED <<timer, cur, pc>> BY <2>1, <2>3 DEF Fire
    <3>2. t \notin Live BY <2>3 DEF Live
    <3> QED BY <2>1, <2>2, <3>1, <3>2 DEF TimerTyping, Queued, Live, Made, isCancelled
  <2>4. CASE ~isCancelled(t)
    <3>1. timer' = [timer EXCEPT ![t].state = "EXECUTING"] /\ cur' = t /\ pc' = "callback"
      BY <2>1, <2>4 DEF Fire
    <3>2. timer[t] \in TimerRec BY <2>2 DEF TimerTyping, Made
    <3>3. PICK r : r = [timer[t] EXCEPT !.state = "EXECUTING"] OBVIOUS
    <3>4. r \in TimerRec /\ r.handler = timer[t].handler /\ r.state # "CANCELLED"
      BY <3>2, <3>3 DEF TimerRec
    <3>5. timer' = [timer EXCEPT ![t] = r] BY <3>1, <3>3
    <3>6. t \in Live BY <2>2, <2>4 DEF Live
    <3>7. /\ timer' \in Seq(TimerRec) /\ Len(timer') = Len(timer) /\ Made' = Made /\ Live' = Live
      BY <3>4, <3>5, <3>6, EditIs
    <3>8. TimerTyping' BY <2>1, <2>2, <3>1, <3>7 DEF TimerTyping
    <3> QED BY <2>1, <2>2, <3>1, <3>7, <3>8 DEF Queued
  <2> QED BY <2>3, <2>4
<1>7. CASE CallbackReturns
  <2>1. pc = "callback" /\ pc' = "timers" /\ UNCHANGED <<now, pnow>> /\ cur \in Made \ timeQueue_
    BY <1>7 DEF CallbackReturns, TimerTyping
  <2>2. CASE isCancelled(cur)
    <3>1. UNCHANGED timerVars /\ cur \notin Live BY <1>7, <2>2 DEF CallbackReturns, Live
    <3> QED BY <2>1, <3>1 DEF timerVars, TimerTyping, Queued, Live, Made, isCancelled
  <2>3. CASE ~isCancelled(cur) /\ timer[cur].interval = 0
    <3>1. CancelTimers({cur}) /\ timeQueue_' = timeQueue_ BY <1>7, <2>3 DEF CallbackReturns
    <3>2. TimerTyping' BY <1>2, <2>1, <3>1, CancelTyped
    <3>3. Live' = Live \ {cur} BY <3>1, CancelIs
    <3> QED BY <2>1, <3>1, <3>2, <3>3 DEF Queued
  <2>4. CASE ~isCancelled(cur) /\ timer[cur].interval # 0
    <3>1. /\ timer' = [timer EXCEPT ![cur].time = @ + timer[cur].interval, ![cur].state = "PENDING"]
          /\ timeQueue_' = timeQueue_ \cup {cur} /\ UNCHANGED <<numTimesRegistered_, released>>
      BY <1>7, <2>4 DEF CallbackReturns, Requeue
    <3>2. timer[cur] \in TimerRec BY <2>1 DEF TimerTyping, Made
    <3>3. PICK r : r = [timer[cur] EXCEPT !.time = timer[cur].time + timer[cur].interval,
                                          !.state = "PENDING"]
      OBVIOUS
    <3>4. r \in TimerRec /\ r.handler = timer[cur].handler /\ r.state # "CANCELLED"
      <4>1. PICK n : n = timer[cur].time + timer[cur].interval OBVIOUS
      <4>2. n \in Nat BY <3>2, <4>1 DEF TimerRec
      <4>3. r = [timer[cur] EXCEPT !.time = n, !.state = "PENDING"] BY <3>3, <4>1
      <4> QED BY <3>2, <4>2, <4>3 DEF TimerRec
    <3>5. timer' = [timer EXCEPT ![cur] = r]
      BY <2>1, <3>1, <3>3 DEF TimerTyping, Made
    <3>6. cur \in Live BY <2>1, <2>4 DEF Live
    <3>7. /\ timer' \in Seq(TimerRec) /\ Len(timer') = Len(timer) /\ Made' = Made /\ Live' = Live
      BY <3>4, <3>5, <3>6, EditIs
    <3>8. TimerTyping' BY <2>1, <3>1, <3>7 DEF TimerTyping
    <3> QED BY <2>1, <3>1, <3>7, <3>8 DEF Queued
  <2> QED BY <2>2, <2>3, <2>4
<1>8. ASSUME NEW k \in Tasks, AddTask(k) \/ CancelTask(k) PROVE Goal
  BY <1>1, <1>2, <1>8 DEF AddTask, CancelTask, loopVars
<1>9. ASSUME NEW s, SetBreak(s) \/ SetMaxWait(s) PROVE Goal
  BY <1>1, <1>2, <1>9 DEF SetBreak, SetMaxWait, loopVars
<1>10. ASSUME NEW by, Begin(by), pc # "callback" PROVE Goal BY <1>1, <1>2, <1>10 DEF Begin
<1>11. CASE ProcessUntilBreak \/ RunTask \/ TasksEnd
  BY <1>1, <1>2, <1>11 DEF ProcessUntilBreak, RunTask, TasksEnd, Leave
<1>12. CASE TimersEnd \/ ProcessNetwork \/ EpollReports \/ EpollTimesOut
  BY <1>1, <1>2, <1>12 DEF TimersEnd, ProcessNetwork, EpollReports, EpollTimesOut, Leave
<1>13. CASE ProcessOnce \/ IoReturns
  BY <1>1, <1>2, <1>10, <1>13 DEF ProcessOnce, IoReturns, Leave
<1>14. ASSUME NEW again \in BOOLEAN, TaskReturns(again) PROVE Goal
  BY <1>1, <1>2, <1>14 DEF TaskReturns
<1>15. ASSUME NEW i \in BOOLEAN, UserProcessOnce(i) PROVE Goal
  BY <1>10, <1>15 DEF UserProcessOnce
<1>16. CASE Tick \/ UNCHANGED vars BY <1>1, <1>2, <1>16 DEF Tick, vars, loopVars
<1> QED BY <1>3, <1>4, <1>5, <1>6, <1>7, <1>8, <1>9, <1>11, <1>12, <1>13, <1>14, <1>15, <1>16
        DEF Next, Looping

-----------------------------------------------------------------------------
(* Releases and counts *)

\* A step that makes and cancels no timer changes no count.
LEMMA SameCounts ==
  ASSUME TimerTyping, ReleasedIsCancelled, CountsLive,
         UNCHANGED <<numTimesRegistered_, released>>, Made' = Made, Live' = Live,
         \A t \in Made : timer'[t].handler = timer[t].handler
  PROVE  ReleasedIsCancelled' /\ CountsLive'
<1>1. \A h \in Handlers : Of(h)' = Of(h) BY DEF Of, Live
<1> QED BY <1>1 DEF ReleasedIsCancelled, CountsLive

\* An added timer counts for its handler.
LEMMA AddCounts ==
  ASSUME TimerTyping, ReleasedIsCancelled, CountsLive, Len(timer) < MaxTimers, released' = released,
         NEW at \in Nat, NEW interval \in Nat, NEW h \in Handlers, Add(at, interval, h)
  PROVE  ReleasedIsCancelled' /\ CountsLive'
<1> DEFINE n == Len(timer) + 1
<1>1. /\ Made' = Made \cup {n} /\ Live' = Live \cup {n}
      /\ timer'[n].handler = h /\ \A t \in Made : timer'[t] = timer[t]
  BY AddIs
<1>2. numTimesRegistered_' = [numTimesRegistered_ EXCEPT ![h] = @ + 1] BY DEF Add
<1>3. n \notin Made BY LenIs DEF Made
<1> HIDE DEF n
<1>4. ReleasedIsCancelled' BY <1>1, <1>3 DEF ReleasedIsCancelled, Live
<1>5. \A g \in Handlers : Of(g)' = IF g = h THEN Of(g) \cup {n} ELSE Of(g)
  BY <1>1, <1>3 DEF Of, Live
<1>6. \A g \in Handlers : Of(g) \in SUBSET Made BY DEF Of, Live
<1>7. \A g \in Handlers : IsFiniteSet(Of(g)) /\ Cardinality(Of(g)) \in Nat BY <1>6, OfFinite
<1>8. Cardinality(Of(h) \cup {n}) = Cardinality(Of(h)) + 1
  BY <1>3, <1>6, <1>7, FS_AddElement
<1>9. ASSUME NEW g \in Handlers PROVE numTimesRegistered_'[g] = Cardinality(Of(g)')
  BY <1>2, <1>5, <1>8 DEF CountsLive, TimerTyping
<1> QED BY <1>4, <1>9 DEF CountsLive

\* A cancelled timer is released and counts no more.
LEMMA CancelCounts ==
  ASSUME TimerTyping, ReleasedIsCancelled, CountsLive, NEW ts \in SUBSET Made, CancelTimers(ts)
  PROVE  ReleasedIsCancelled' /\ CountsLive'
<1>1. /\ Made' = Made /\ Live' = Live \ ts
      /\ \A t \in Made : timer'[t].handler = timer[t].handler
  BY CancelIs
<1>2. ReleasedIsCancelled'
  <2>1. released' = [t \in 1..MaxTimers |-> released[t] + IF t \in ts \cap Live THEN 1 ELSE 0]
    BY DEF CancelTimers, TimerTyping
  <2>2. ASSUME NEW t \in 1..MaxTimers
        PROVE  released'[t] = IF t \in Made' \ Live' THEN 1 ELSE 0
    <3>1. released[t] = IF t \in Made \ Live THEN 1 ELSE 0 BY DEF ReleasedIsCancelled
    <3>2. CASE t \in ts \cap Live BY <1>1, <2>1, <3>1, <3>2
    <3>3. CASE t \notin ts \cap Live BY <1>1, <2>1, <3>1, <3>3
    <3> QED BY <3>2, <3>3
  <2> QED BY <2>2 DEF ReleasedIsCancelled
<1>3. ASSUME NEW h \in Handlers PROVE numTimesRegistered_'[h] = Cardinality(Of(h)')
  <2>1. Of(h)' = Of(h) \ ts BY <1>1 DEF Of, Live
  <2>2. {t \in ts \cap Live : timer[t].handler = h} = Of(h) \cap ts BY DEF Of
  <2>3. Of(h) \in SUBSET Made BY DEF Of, Live
  <2>4. IsFiniteSet(Of(h)) BY <2>3, OfFinite
  <2>5. Cardinality(Of(h) \ ts) = Cardinality(Of(h)) - Cardinality(Of(h) \cap ts)
    BY <2>4, FS_Difference
  <2>6. numTimesRegistered_'[h] = numTimesRegistered_[h] - Cardinality(Of(h) \cap ts)
    BY <2>2 DEF CancelTimers
  <2> QED BY <2>1, <2>5, <2>6 DEF CountsLive
<1> QED BY <1>2, <1>3 DEF CountsLive

\* Every step keeps the releases and the counts.
LEMMA StepCounts ==
  TimerTyping /\ ReleasedIsCancelled /\ CountsLive /\ [Next]_vars
    => ReleasedIsCancelled' /\ CountsLive'
<1> DEFINE Goal == ReleasedIsCancelled' /\ CountsLive'
<1> SUFFICES ASSUME TimerTyping, ReleasedIsCancelled, CountsLive, [Next]_vars PROVE Goal
  OBVIOUS
<1>1. CASE UNCHANGED timerVars
  <2>1. Made' = Made /\ Live' = Live BY <1>1 DEF timerVars, Made, Live, isCancelled
  <2> QED BY <1>1, <2>1, SameCounts DEF timerVars
<1>2. ASSUME NEW h \in Handlers, NEW ms \in Delays, NEW repeat \in BOOLEAN, AddTimer(h, ms, repeat)
      PROVE  Goal
  <2>1. now \in Nat /\ ms * UnitsPerMs \in Nat BY DispatcherAssumption DEF TimerTyping
  <2> DEFINE at == now + ms * UnitsPerMs
             interval == IF repeat THEN ms * UnitsPerMs ELSE 0
  <2>2. at \in Nat /\ interval \in Nat /\ Add(at, interval, h) BY <1>2, <2>1 DEF AddTimer
  <2>3. Len(timer) < MaxTimers /\ released' = released BY <1>2 DEF AddTimer
  <2> HIDE DEF at, interval
  <2> QED BY <2>2, <2>3, AddCounts
<1>3. ASSUME NEW t \in Made, Cancel(t) PROVE Goal BY <1>3, CancelCounts DEF Cancel
<1>4. CASE Destroy BY <1>4, CancelCounts DEF Destroy, Clear, TimerTyping
<1>5. ASSUME NEW t \in Live, NEW r \in TimerRec, timer' = [timer EXCEPT ![t] = r],
             r.handler = timer[t].handler, r.state # "CANCELLED",
             UNCHANGED <<numTimesRegistered_, released>>
      PROVE  Goal
  BY <1>5, EditIs, SameCounts
<1>6. CASE PopTimer
  <2>1. PICK t \in timeQueue_ : Fire(t) BY <1>6 DEF PopTimer, Tops
  <2>2. UNCHANGED <<numTimesRegistered_, released>> /\ t \in Made
    BY <1>6 DEF PopTimer, TimerTyping
  <2>3. CASE isCancelled(t)
    <3>1. timer' = timer BY <2>1, <2>3 DEF Fire
    <3>2. Made' = Made /\ Live' = Live BY <3>1 DEF Made, Live, isCancelled
    <3> QED BY <2>2, <3>1, <3>2, SameCounts
  <2>4. CASE ~isCancelled(t)
    <3>1. timer[t] \in TimerRec BY <2>2 DEF TimerTyping, Made
    <3>2. PICK r : r = [timer[t] EXCEPT !.state = "EXECUTING"] OBVIOUS
    <3>3. r \in TimerRec /\ r.handler = timer[t].handler /\ r.state # "CANCELLED"
      BY <3>1, <3>2 DEF TimerRec
    <3>4. timer' = [timer EXCEPT ![t] = r] BY <2>1, <2>4, <3>2 DEF Fire
    <3>5. t \in Live BY <2>2, <2>4 DEF Live
    <3> QED BY <1>5, <2>2, <3>3, <3>4, <3>5
  <2> QED BY <2>3, <2>4
<1>7. CASE CallbackReturns
  <2>1. cur \in Made BY <1>7 DEF CallbackReturns, TimerTyping
  <2>2. CASE isCancelled(cur) BY <1>1, <1>7, <2>2 DEF CallbackReturns
  <2>3. CASE ~isCancelled(cur) /\ timer[cur].interval = 0
    BY <1>7, <2>1, <2>3, CancelCounts DEF CallbackReturns
  <2>4. CASE ~isCancelled(cur) /\ timer[cur].interval # 0
    <3>1. /\ timer' = [timer EXCEPT ![cur].time = @ + timer[cur].interval, ![cur].state = "PENDING"]
          /\ UNCHANGED <<numTimesRegistered_, released>>
      BY <1>7, <2>4 DEF CallbackReturns
    <3>2. timer[cur] \in TimerRec BY <2>1 DEF TimerTyping, Made
    <3>3. PICK n : n = timer[cur].time + timer[cur].interval OBVIOUS
    <3>4. n \in Nat BY <3>2, <3>3 DEF TimerRec
    <3>5. PICK r : r = [timer[cur] EXCEPT !.time = n, !.state = "PENDING"] OBVIOUS
    <3>6. r \in TimerRec /\ r.handler = timer[cur].handler /\ r.state # "CANCELLED"
      BY <3>2, <3>4, <3>5 DEF TimerRec
    <3>7. timer' = [timer EXCEPT ![cur] = r]
      BY <2>1, <3>1, <3>3, <3>5 DEF TimerTyping, Made
    <3>8. cur \in Live BY <2>1, <2>4 DEF Live
    <3> QED BY <1>5, <3>1, <3>6, <3>7, <3>8
  <2> QED BY <2>2, <2>3, <2>4
<1>8. ASSUME NEW k \in Tasks, AddTask(k) \/ CancelTask(k) PROVE Goal
  BY <1>1, <1>8 DEF AddTask, CancelTask
<1>9. ASSUME NEW s, SetBreak(s) \/ SetMaxWait(s) PROVE Goal BY <1>1, <1>9 DEF SetBreak, SetMaxWait
<1>10. ASSUME NEW by, Begin(by) PROVE Goal BY <1>1, <1>10 DEF Begin
<1>11. CASE ProcessUntilBreak \/ RunTask \/ TasksEnd \/ TimersEnd \/ ProcessNetwork
  BY <1>1, <1>11 DEF ProcessUntilBreak, RunTask, TasksEnd, TimersEnd, ProcessNetwork
<1>12. CASE ProcessOnce \/ IoReturns \/ EpollReports \/ EpollTimesOut
  BY <1>1, <1>10, <1>12 DEF ProcessOnce, IoReturns, EpollReports, EpollTimesOut
<1>13. ASSUME NEW again \in BOOLEAN, TaskReturns(again) PROVE Goal
  BY <1>1, <1>13 DEF TaskReturns
<1>14. ASSUME NEW i \in BOOLEAN, UserProcessOnce(i) PROVE Goal
  BY <1>10, <1>14 DEF UserProcessOnce
<1>15. CASE Tick \/ UNCHANGED vars BY <1>1, <1>15 DEF Tick, vars
<1> QED BY <1>2, <1>3, <1>4, <1>6, <1>7, <1>8, <1>9, <1>11, <1>12, <1>13, <1>14, <1>15
        DEF Next, Looping

-----------------------------------------------------------------------------
(* No due timer is left behind *)

\* Every step keeps the pass over the timers from skipping one.
LEMMA StepDue == TimerTyping /\ NoDueTimerSkipped /\ [Next]_vars => NoDueTimerSkipped'
<1> SUFFICES ASSUME TimerTyping, NoDueTimerSkipped, [Next]_vars PROVE NoDueTimerSkipped'
  OBVIOUS
<1>1. CASE pc' # "network" BY <1>1 DEF NoDueTimerSkipped
<1>2. CASE UNCHANGED <<pc, pnow, timer, timeQueue_>>
  BY <1>2 DEF NoDueTimerSkipped, isCancelled
<1>3. CASE TimersEnd
  <2>1. CASE breakProcessing_ = "BREAK"
    <3>1. pc' # "network" BY <1>3, <2>1 DEF TimersEnd, Leave
    <3> QED BY <1>1, <3>1
  <2>2. CASE breakProcessing_ # "BREAK"
    <3>1. NothingDue /\ UNCHANGED <<pnow, timer, timeQueue_>>
      BY <1>3, <2>2 DEF TimersEnd, timerVars
    <3>2. \A t \in timeQueue_ : timer[t].time \in Nat
      <4> TAKE t \in timeQueue_
      <4>1. timer[t] \in TimerRec BY DEF TimerTyping, Made
      <4> QED BY <4>1 DEF TimerRec
    <3>3. \A t \in timeQueue_ : timer[t].time > pnow
      <4>1. CASE timeQueue_ = {} BY <4>1
      <4>2. CASE timeQueue_ # {}
        <5>1. PICK t \in timeQueue_ : /\ \A u \in timeQueue_ : timer[t].time =< timer[u].time
                                     /\ timer[t].time > pnow
          BY <3>1, <4>2 DEF NothingDue, Tops, NotYetDue
        <5> QED BY <3>2, <5>1 DEF TimerTyping
      <4> QED BY <4>1, <4>2
    <3> QED BY <3>1, <3>3 DEF NoDueTimerSkipped
  <2> QED BY <2>1, <2>2
<1>4. ASSUME NEW h, NEW ms, NEW repeat, AddTimer(h, ms, repeat) PROVE NoDueTimerSkipped'
  BY <1>1, <1>4 DEF AddTimer, InUserCode, loopVars
<1>5. ASSUME NEW t, Cancel(t) PROVE NoDueTimerSkipped'
  BY <1>1, <1>5 DEF Cancel, InUserCode, loopVars
<1>6. ASSUME NEW k, AddTask(k) \/ CancelTask(k) \/ SetBreak(k) \/ SetMaxWait(k)
      PROVE  NoDueTimerSkipped'
  BY <1>2, <1>6 DEF AddTask, CancelTask, SetBreak, SetMaxWait, loopVars, timerVars
<1>7. ASSUME NEW by, Begin(by) PROVE NoDueTimerSkipped' BY <1>1, <1>7 DEF Begin
<1>8. CASE Destroy \/ ProcessUntilBreak \/ RunTask \/ TasksEnd \/ ProcessNetwork
  BY <1>1, <1>8 DEF Destroy, ProcessUntilBreak, RunTask, TasksEnd, ProcessNetwork, Leave
<1>9. CASE PopTimer \/ CallbackReturns
  BY <1>1, <1>9 DEF PopTimer, Fire, CallbackReturns
<1>10. CASE ProcessOnce \/ IoReturns \/ EpollReports \/ EpollTimesOut
  BY <1>1, <1>7, <1>10 DEF ProcessOnce, IoReturns, EpollReports, EpollTimesOut, Leave
<1>11. ASSUME NEW again, TaskReturns(again) \/ UserProcessOnce(again) PROVE NoDueTimerSkipped'
  BY <1>1, <1>7, <1>11 DEF TaskReturns, UserProcessOnce
<1>12. CASE Tick \/ UNCHANGED vars BY <1>2, <1>12 DEF Tick, vars, loopVars, timerVars
<1> QED BY <1>3, <1>4, <1>5, <1>6, <1>8, <1>9, <1>10, <1>11, <1>12 DEF Next, Looping

-----------------------------------------------------------------------------
(* The list of tasks *)

\* Numbers have a least one.
LEMMA Least ==
  ASSUME NEW S \in SUBSET Nat, S # {}
  PROVE  \E n \in S : \A m \in S : n =< m
<1> DEFINE R == OpToRel(<, Nat)
<1>1. IsWellFoundedOn(R, Nat) BY NatLessThanWellFounded
<1>2. \A x, y \in Nat : <<x, y>> \in R <=> x < y BY DEF OpToRel
<1> HIDE DEF R
<1>3. PICK n \in S : \A m \in S : <<m, n>> \notin R BY <1>1, WFMin
<1>4. ASSUME NEW m \in S PROVE n =< m
  <2>1. m \in Nat /\ n \in Nat OBVIOUS
  <2>2. ~(m < n) BY <1>2, <1>3, <2>1, Zenon
  <2> QED BY <2>1, <2>2
<1> QED BY <1>4

\* Min picks an element of a set of numbers.
LEMMA MinIn ==
  ASSUME NEW S \in SUBSET Nat, S # {}
  PROVE  Min(S) \in S
<1>1. PICK n \in S : \A m \in S : n =< m BY Least
<1> QED BY <1>1 DEF Min

\* vector::erase of one entry.
LEMMA RemoveAtIs ==
  ASSUME NEW S, NEW s \in Seq(S), NEW i \in 1..Len(s)
  PROVE  RemoveAt(s, i) \in Seq(S) /\ Len(RemoveAt(s, i)) = Len(s) - 1
<1> DEFINE a == SubSeq(s, 1, i - 1)
           b == SubSeq(s, i + 1, Len(s))
<1>1. Len(s) \in Nat /\ i \in Nat /\ 1 =< i /\ i =< Len(s) OBVIOUS
<1>2. a \in Seq(S) /\ Len(a) = i - 1 BY <1>1, SubSeqProperties
<1>3. b \in Seq(S) /\ Len(b) = Len(s) - i BY <1>1, SubSeqProperties
<1> HIDE DEF a, b
<1>4. a \o b \in Seq(S) /\ Len(a \o b) = Len(a) + Len(b) BY <1>2, <1>3, ConcatProperties
<1>5. Len(a \o b) = Len(s) - 1 BY <1>1, <1>2, <1>3, <1>4
<1>6. RemoveAt(s, i) = a \o b BY DEF RemoveAt, a, b
<1> QED BY <1>4, <1>5, <1>6, Zenon

\* Tasks::cancel shortens the list by one entry at most.
LEMMA RemoveFirstIs ==
  ASSUME NEW S, NEW s \in Seq(S), NEW e
  PROVE  RemoveFirst(s, e) \in Seq(S) /\ Len(RemoveFirst(s, e)) =< Len(s)
<1>1. Len(s) \in Nat OBVIOUS
<1>2. CASE \E i \in 1..Len(s) : s[i] = e
  <2> DEFINE I == {i \in 1..Len(s) : s[i] = e}
  <2>1. I # {} /\ I \in SUBSET Nat BY <1>2
  <2>2. Min(I) \in 1..Len(s) BY <2>1, MinIn
  <2>3. RemoveFirst(s, e) = RemoveAt(s, Min(I)) BY <1>2, <2>1 DEF RemoveFirst, SelectInSeq
  <2> HIDE DEF I
  <2> QED BY <1>1, <2>2, <2>3, RemoveAtIs
<1>3. CASE ~(\E i \in 1..Len(s) : s[i] = e) BY <1>1, <1>3 DEF RemoveFirst
<1> QED BY <1>2, <1>3

\* Every step keeps the types of the loop and of the list of tasks.
LEMMA StepLoop == TimerTyping /\ TimerTyping' /\ LoopTyping /\ [Next]_vars => LoopTyping'
<1> SUFFICES ASSUME TimerTyping, TimerTyping', LoopTyping, [Next]_vars PROVE LoopTyping'
  OBVIOUS
<1>1. Len(container_) \in Nat /\ iter \in Nat /\ MaxTasks \in Nat /\ MaxTime \in Nat
  BY DispatcherAssumption DEF LoopTyping
<1>2. ASSUME cur' \in Made \cup {NoTimer}, Made \subseteq Made' PROVE cur' \in Made' \cup {NoTimer}
  BY <1>2
<1>3. ASSUME UNCHANGED timer PROVE Made' = Made BY <1>3 DEF Made
<1>4. ASSUME NEW h \in Handlers, NEW ms \in Delays, NEW repeat \in BOOLEAN, AddTimer(h, ms, repeat)
      PROVE  LoopTyping'
  <2>1. ms * UnitsPerMs \in Nat /\ now + ms * UnitsPerMs \in Nat
    <3>1. ms \in Nat /\ UnitsPerMs \in Nat BY DispatcherAssumption
    <3>2. ms * UnitsPerMs \in Nat BY <3>1
    <3> QED BY <3>2 DEF TimerTyping
  <2> DEFINE at == now + ms * UnitsPerMs
             interval == IF repeat THEN ms * UnitsPerMs ELSE 0
  <2>2. at \in Nat /\ interval \in Nat /\ Add(at, interval, h) BY <1>4, <2>1 DEF AddTimer
  <2>3. Len(timer) < MaxTimers BY <1>4 DEF AddTimer
  <2> HIDE DEF at, interval
  <2>4. Made \subseteq Made' BY <2>2, <2>3, AddIs
  <2> QED BY <1>4, <2>4 DEF AddTimer, LoopTyping, taskVars, loopVars
<1>5. ASSUME NEW t \in Made, Cancel(t) PROVE LoopTyping'
  <2>1. Made' = Made BY <1>5, CancelIs DEF Cancel
  <2> QED BY <1>5, <2>1 DEF Cancel, LoopTyping, taskVars, loopVars
<1>6. ASSUME NEW k \in Tasks, AddTask(k) PROVE LoopTyping'
  <2>1. /\ pc \notin {"tasks", "task"} /\ Len(container_) < MaxTasks
        /\ container_' = Append(container_, k)
        /\ UNCHANGED <<now, timerVars, iter, loopVars, maxWait_, breakProcessing_>>
    BY <1>6 DEF AddTask
  <2>2. container_' \in Seq(Tasks) /\ Len(container_') = Len(container_) + 1
    BY <2>1 DEF LoopTyping
  <2> QED BY <1>1, <1>3, <2>1, <2>2 DEF LoopTyping, timerVars, loopVars
<1>7. ASSUME NEW k \in Tasks, CancelTask(k) PROVE LoopTyping'
  <2>1. /\ pc \notin {"tasks", "task"} /\ container_' = RemoveFirst(container_, k)
        /\ UNCHANGED <<now, timerVars, iter, loopVars, maxWait_, breakProcessing_>>
    BY <1>7 DEF CancelTask
  <2>2. container_' \in Seq(Tasks) /\ Len(container_') =< Len(container_) /\ Len(container_') \in Nat
    BY <2>1, RemoveFirstIs DEF LoopTyping
  <2> QED BY <1>1, <1>3, <2>1, <2>2 DEF LoopTyping, timerVars, loopVars
<1>8. ASSUME NEW s \in {"RUNNING", "WAITING_BREAK", "BREAK"}, SetBreak(s) PROVE LoopTyping'
  BY <1>3, <1>8 DEF SetBreak, LoopTyping, timerVars, taskVars, loopVars
<1>9. ASSUME NEW ms \in MaxWaits, SetMaxWait(ms) PROVE LoopTyping'
  BY <1>3, <1>9, DispatcherAssumption DEF SetMaxWait, LoopTyping, timerVars, taskVars, loopVars
<1>10. CASE Destroy
  <2>1. CancelTimers(timeQueue_) BY <1>10 DEF Destroy, Clear
  <2>2. Made' = Made BY <2>1, CancelIs
  <2>3. /\ container_' = <<>> /\ pc = "out" /\ pc' = "destroyed"
        /\ UNCHANGED <<now, pnow, cur, iter, caller, maxWait_, breakProcessing_>>
    BY <1>10 DEF Destroy
  <2> QED BY <1>1, <2>2, <2>3 DEF LoopTyping
<1>11. CASE PopTimer
  <2>1. pc = "timers" /\ pc' \in {"timers", "callback"}
        /\ UNCHANGED <<now, taskVars, caller, pnow, maxWait_, breakProcessing_>>
    BY <1>11 DEF PopTimer, Fire
  <2>2. cur' \in Made' \cup {NoTimer}
    <3>1. CASE pc' = "callback" BY <3>1 DEF TimerTyping
    <3>2. CASE pc' # "callback" BY <1>3, <1>11, <3>2 DEF PopTimer, Fire, LoopTyping
    <3> QED BY <3>1, <3>2
  <2> QED BY <2>1, <2>2 DEF LoopTyping, taskVars
<1>12. CASE CallbackReturns
  BY <1>12 DEF CallbackReturns, LoopTyping, taskVars
<1>13. ASSUME NEW again \in BOOLEAN, TaskReturns(again) PROVE LoopTyping'
  <2>1. /\ pc = "task" /\ pc' = "tasks" /\ Step(again)
        /\ UNCHANGED <<now, timerVars, cur, caller, pnow, maxWait_, breakProcessing_>>
    BY <1>13 DEF TaskReturns
  <2>2. iter \in 1..Len(container_) BY <2>1, <1>1 DEF LoopTyping
  <2>3. container_' \in Seq(Tasks) /\ Len(container_') =< MaxTasks /\ iter' \in 1..Len(container_') + 1
    <3>1. CASE again BY <1>1, <2>1, <2>2, <3>1 DEF Step, LoopTyping
    <3>2. CASE ~again
      <4>1. container_' = RemoveAt(container_, iter) /\ iter' = iter BY <2>1, <3>2 DEF Step
      <4>2. container_' \in Seq(Tasks) /\ Len(container_') = Len(container_) - 1
        BY <2>2, <4>1, RemoveAtIs DEF LoopTyping
      <4> QED BY <1>1, <2>2, <4>1, <4>2 DEF LoopTyping
    <3> QED BY <3>1, <3>2
  <2> QED BY <1>3, <2>1, <2>3 DEF LoopTyping, timerVars
<1>14. ASSUME NEW by \in {"loop", "idle", "busy"}, Begin(by), pc \notin {"tasks", "task"}
       PROVE LoopTyping'
  BY <1>1, <1>3, <1>14 DEF Begin, Reset, LoopTyping, timerVars
<1>15. CASE ProcessOnce
  BY <1>3, <1>14, <1>15 DEF ProcessOnce, LoopTyping, timerVars, taskVars
<1>16. ASSUME NEW i \in BOOLEAN, UserProcessOnce(i) PROVE LoopTyping'
  BY <1>14, <1>16 DEF UserProcessOnce
<1>17. CASE ProcessUntilBreak
  BY <1>3, <1>17 DEF ProcessUntilBreak, Reset, LoopTyping, timerVars, taskVars
<1>18. CASE RunTask
  BY <1>3, <1>18 DEF RunTask, LoopTyping, timerVars, taskVars
<1>19. CASE TasksEnd
  <2>1. /\ pc' \in {"once", "out", "timers"} /\ caller' \in {"loop", caller}
        /\ iter' = 1 /\ pnow' \in {pnow, now}
        /\ UNCHANGED <<now, timerVars, container_, cur, maxWait_, breakProcessing_>>
    BY <1>19 DEF TasksEnd, Leave
  <2> QED BY <1>1, <1>3, <2>1 DEF LoopTyping, timerVars
<1>20. CASE TimersEnd \/ ProcessNetwork \/ EpollReports \/ IoReturns \/ EpollTimesOut
  <2>1. /\ pc \notin {"tasks", "task"} /\ caller' \in {"loop", caller} /\ pnow' \in {pnow, 0}
        /\ pc' \in {"once", "out", "network", "asleep", "io"}
        /\ UNCHANGED <<now, timerVars, taskVars, cur, maxWait_, breakProcessing_>>
    BY <1>20 DEF TimersEnd, ProcessNetwork, EpollReports, IoReturns, EpollTimesOut, Leave
  <2> QED BY <1>1, <1>3, <2>1 DEF LoopTyping, timerVars, taskVars
<1>21. CASE Tick
  BY <1>1, <1>3, <1>21 DEF Tick, LoopTyping, TimerTyping, timerVars, taskVars, loopVars
<1>22. CASE UNCHANGED vars
  BY <1>3, <1>22 DEF vars, LoopTyping, timerVars, taskVars, loopVars
<1> QED BY <1>4, <1>5, <1>6, <1>7, <1>8, <1>9, <1>10, <1>11, <1>12, <1>13, <1>15, <1>16, <1>17,
           <1>18, <1>19, <1>20, <1>21, <1>22 DEF Next, Looping

-----------------------------------------------------------------------------
(* The pass over the tasks *)

RunRec == [task : Tasks, again : BOOLEAN]
After(c, i) == SubSeq(c, i, Len(c))

\* Whether a task is listed again depends on its answer.
LEMMA ListedIs ==
  ASSUME NEW tasks \in Seq(Tasks), NEW r \in RunRec
  PROVE  Listed(tasks, r) \in Seq(Tasks)
<1>1. r.task \in Tasks BY DEF RunRec
<1>2. Append(tasks, r.task) \in Seq(Tasks) BY <1>1, AppendProperties
<1> QED BY <1>2 DEF Listed

\* RunAgain is what its definition says ...
LEMMA RunAgainIs ==
  ASSUME NEW rs \in Seq(RunRec)
  PROVE  /\ RunAgain(rs)[0] = <<>>
         /\ \A n \in 1..Len(rs) : RunAgain(rs)[n] = Listed(RunAgain(rs)[n - 1], rs[n])
<1> DEFINE Is(g, m) == g = [n \in 0..m |-> IF n = 0 THEN <<>> ELSE Listed(g[n - 1], rs[n])]
           Without == {m \in 0..Len(rs) : ~\E g : Is(g, m)}
<1>1. Len(rs) \in Nat
  OBVIOUS
<1>2. Without = {}
  <2>1. SUFFICES ASSUME Without # {} PROVE FALSE
    OBVIOUS
  <2>2. PICK m \in Without : \A k \in Without : m =< k
    <3>1. Without \in SUBSET Nat BY <1>1
    <3> HIDE DEF Without
    <3> QED BY <2>1, <3>1, Least
  <2>3. m \in 0..Len(rs) /\ ~\E g : Is(g, m)
    OBVIOUS
  <2>4. m # 0
    <3>1. SUFFICES ASSUME m = 0 PROVE FALSE
      OBVIOUS
    <3>2. PICK g : g = [n \in 0..0 |-> <<>>]
      OBVIOUS
    <3>3. g = [n \in 0..0 |-> IF n = 0 THEN <<>> ELSE Listed(g[n - 1], rs[n])] BY <3>2
    <3> QED BY <2>3, <3>1, <3>3
  <2>5. m - 1 \in 0..Len(rs) /\ ~(m =< m - 1) BY <1>1, <2>3, <2>4
  <2>6. PICK g : Is(g, m - 1)
    <3>1. m - 1 \notin Without BY <2>2, <2>5
    <3> QED BY <2>5, <3>1
  <2>7. PICK h : h = [n \in 0..m |-> IF n = m THEN Listed(g[m - 1], rs[m]) ELSE g[n]]
    OBVIOUS
  <2>8. ASSUME NEW n \in 0..m PROVE h[n] = IF n = 0 THEN <<>> ELSE Listed(h[n - 1], rs[n])
    <3>1. CASE n = m BY <1>1, <2>3, <2>4, <2>7, <3>1
    <3>2. CASE n # m
      <4>1. n \in 0..(m - 1) /\ (n # 0 => n - 1 \in 0..m /\ n - 1 # m) BY <1>1, <2>3, <3>2
      <4>2. g[n] = IF n = 0 THEN <<>> ELSE Listed(g[n - 1], rs[n]) BY <2>6, <4>1
      <4> QED BY <2>7, <3>2, <4>1, <4>2
    <3> QED BY <3>1, <3>2
  <2>9. Is(h, m) BY <2>7, <2>8
  <2> QED BY <2>3, <2>9
<1>3. \E g : Is(g, Len(rs)) BY <1>1, <1>2
<1>4. Is(RunAgain(rs), Len(rs)) BY <1>3 DEF RunAgain
<1> HIDE DEF Without
<1>5. ASSUME NEW n \in 0..Len(rs)
      PROVE  RunAgain(rs)[n] = IF n = 0 THEN <<>> ELSE Listed(RunAgain(rs)[n - 1], rs[n])
  <2>1. PICK g : g = RunAgain(rs)
    OBVIOUS
  <2>2. g = [k \in 0..Len(rs) |-> IF k = 0 THEN <<>> ELSE Listed(g[k - 1], rs[k])] BY <1>4, <2>1
  <2> HIDE DEF Is
  <2> QED BY <2>1, <2>2
<1> HIDE DEF Is
<1> QED BY <1>1, <1>5

\* ... a list of tasks ...
LEMMA RunAgainTyped ==
  ASSUME NEW rs \in Seq(RunRec), NEW n \in 0..Len(rs)
  PROVE  RunAgain(rs)[n] \in Seq(Tasks)
<1> DEFINE Bad == {m \in 0..Len(rs) : RunAgain(rs)[m] \notin Seq(Tasks)}
<1>1. SUFFICES ASSUME Bad # {} PROVE FALSE
  OBVIOUS
<1>2. Len(rs) \in Nat
  OBVIOUS
<1>3. PICK m \in Bad : \A k \in Bad : m =< k
  <2>1. Bad \in SUBSET Nat BY <1>2
  <2> HIDE DEF Bad
  <2> QED BY <1>1, <2>1, Least
<1>4. m \in 0..Len(rs) /\ RunAgain(rs)[m] \notin Seq(Tasks)
  OBVIOUS
<1>5. m # 0
  <2>1. <<>> \in Seq(Tasks)
    OBVIOUS
  <2> QED BY <1>4, <2>1, RunAgainIs
<1>6. m \in 1..Len(rs) /\ m - 1 \in 0..Len(rs) /\ ~(m =< m - 1) BY <1>2, <1>4, <1>5
<1>7. RunAgain(rs)[m - 1] \in Seq(Tasks) BY <1>3, <1>6
<1>8. rs[m] \in RunRec BY <1>6
<1> HIDE DEF Bad
<1>9. RunAgain(rs)[m] = Listed(RunAgain(rs)[m - 1], rs[m]) BY <1>6, RunAgainIs
<1> QED BY <1>4, <1>7, <1>8, <1>9, ListedIs

\* ... that grows with the answers.
LEMMA RunAgainGrows ==
  ASSUME NEW rs \in Seq(RunRec), NEW r \in RunRec
  PROVE  RunAgain(Append(rs, r))[Len(Append(rs, r))] = Listed(RunAgain(rs)[Len(rs)], r)
<1>1. PICK more \in Seq(RunRec) : more = Append(rs, r) BY AppendProperties
<1>2. /\ Len(rs) \in Nat /\ Len(more) = Len(rs) + 1 /\ more[Len(rs) + 1] = r
      /\ \A j \in 1..Len(rs) : more[j] = rs[j]
  BY <1>1, AppendProperties
<1> DEFINE Bad == {k \in 0..Len(rs) : RunAgain(more)[k] # RunAgain(rs)[k]}
<1>3. Bad = {}
  <2>1. SUFFICES ASSUME Bad # {} PROVE FALSE
    OBVIOUS
  <2>2. PICK k \in Bad : \A j \in Bad : k =< j
    <3>1. Bad \in SUBSET Nat BY <1>2
    <3> HIDE DEF Bad
    <3> QED BY <2>1, <3>1, Least
  <2>3. k \in 0..Len(rs) /\ RunAgain(more)[k] # RunAgain(rs)[k]
    OBVIOUS
  <2>4. k # 0 BY <2>3, RunAgainIs
  <2>5. k \in 1..Len(rs) /\ k \in 1..Len(more) /\ k - 1 \in 0..Len(rs) /\ ~(k =< k - 1)
    BY <1>2, <2>3, <2>4
  <2>6. RunAgain(more)[k - 1] = RunAgain(rs)[k - 1] BY <2>2, <2>5
  <2>7. RunAgain(more)[k] = Listed(RunAgain(more)[k - 1], more[k])
        /\ RunAgain(rs)[k] = Listed(RunAgain(rs)[k - 1], rs[k])
    BY <2>5, RunAgainIs
  <2> HIDE DEF Bad
  <2> QED BY <1>2, <2>3, <2>5, <2>6, <2>7
<1>4. Len(rs) \in 0..Len(rs) BY <1>2
<1>5. RunAgain(more)[Len(rs)] = RunAgain(rs)[Len(rs)] BY <1>3, <1>4
<1> HIDE DEF Bad
<1>6. PICK n \in 1..Len(more) : n = Len(rs) + 1 BY <1>2
<1>7. RunAgain(more)[n] = Listed(RunAgain(more)[n - 1], more[n]) BY RunAgainIs
<1>8. n - 1 = Len(rs) BY <1>2, <1>6
<1> QED BY <1>1, <1>2, <1>5, <1>6, <1>7, <1>8

\* The iterator moves on: the task at it joins the ones before it.
LEMMA TurnIs ==
  ASSUME NEW T, NEW c \in Seq(T), NEW i \in 1..Len(c), NEW seq \in Seq(T)
  PROVE  Append(seq, c[i]) \o After(c, i + 1) = seq \o After(c, i)
<1>1. Len(c) \in Nat /\ i \in Nat /\ i + 1 \in Int /\ Len(c) \in Int /\ Len(c) \in i..Len(c) /\ c[i] \in T
  OBVIOUS
<1>2. PICK a : a = After(c, i + 1)
  OBVIOUS
<1>3. a \in Seq(T)
  <2>1. PICK m \in Int : m = i + 1 /\ m >= 1 BY <1>1
  <2>2. \A j \in m..Len(c) : c[j] \in T BY <1>1, <2>1
  <2> QED BY <1>1, <1>2, <2>1, <2>2, SubSeqProperties DEF After
<1>4. After(c, i) = <<c[i]>> \o a BY <1>1, <1>2, SubSeqRecursiveFirst DEF After
<1>5. Append(seq, c[i]) = seq \o <<c[i]>> BY <1>1, AppendIsConcat
<1>6. <<c[i]>> \in Seq(T) BY <1>1
<1>7. (seq \o <<c[i]>>) \o a = seq \o (<<c[i]>> \o a) BY <1>3, <1>6, ConcatAssociative
<1> QED BY <1>2, <1>4, <1>5, <1>7

\* A list up to its iterator and from it on.
LEMMA SplitIs ==
  ASSUME NEW T, NEW c \in Seq(T), NEW i \in 1..Len(c) + 1
  PROVE  /\ SubSeq(c, 1, i - 1) \in Seq(T) /\ After(c, i) \in Seq(T) /\ Len(SubSeq(c, 1, i - 1)) = i - 1
         /\ (\A j \in 1..(i - 1) : SubSeq(c, 1, i - 1)[j] = c[j])
         /\ SubSeq(c, 1, i - 1) \o After(c, i) = c
<1>1. Len(c) \in Nat /\ \A j \in 1..Len(c) : c[j] \in T
  OBVIOUS
<1>2. PICK k \in 0..Len(c) : k = i - 1 /\ k + 1 = i BY <1>1
<1>3. SubSeq(c, 1, k) \in Seq(T) /\ Len(SubSeq(c, 1, k)) = k /\ \A j \in 1..k : SubSeq(c, 1, k)[j] = c[j]
  <2>1. 1 \in Int /\ k \in Int /\ (\A j \in 1..k : c[j] \in T) BY <1>1
  <2>2. /\ SubSeq(c, 1, k) \in Seq(T) /\ Len(SubSeq(c, 1, k)) = IF 1 <= k THEN k - 1 + 1 ELSE 0
        /\ \A j \in 1..(k - 1 + 1) : SubSeq(c, 1, k)[j] = c[1 + j - 1]
    BY <2>1, SubSeqProperties
  <2> QED BY <1>1, <2>2
<1>4. SubSeq(c, k + 1, Len(c)) \in Seq(T)
  <2>1. PICK m, n \in Int : m = k + 1 /\ n = Len(c) BY <1>1
  <2>2. \A j \in m..n : c[j] \in T BY <1>1, <2>1
  <2> QED BY <2>1, <2>2, SubSeqProperties
<1>5. SubSeq(c, 1, k) \o SubSeq(c, k + 1, Len(c)) = SubSeq(c, 1, Len(c))
  <2>1. 1 \in 1..Len(c) + 1 /\ k \in 1 - 1..Len(c) /\ Len(c) \in k..Len(c) BY <1>1
  <2> QED BY <2>1, ConcatAdjacentSubSeq
<1>6. SubSeq(c, 1, Len(c)) = c BY SubSeqFull
<1> QED BY <1>2, <1>3, <1>4, <1>5, <1>6 DEF After

\* The task at the iterator is erased: the ones behind it move up to it.
LEMMA ErasedIs ==
  ASSUME NEW T, NEW c \in Seq(T), NEW i \in 1..Len(c), NEW seq \in Seq(T), seq \o After(c, i) = c
  PROVE  /\ seq \o After(RemoveAt(c, i), i) = RemoveAt(c, i)
         /\ After(RemoveAt(c, i), i) = After(c, i + 1)
<1>1. Len(c) \in Nat /\ i \in 1..Len(c) + 1 /\ i + 1 \in 1..Len(c) + 1 /\ i \in Nat
  OBVIOUS
<1>2. PICK p, a, b \in Seq(T) : p = SubSeq(c, 1, i - 1) /\ a = After(c, i) /\ b = After(c, i + 1)
  BY <1>1, SplitIs
<1>3. p \o a = c /\ Len(p) = i - 1 BY <1>1, <1>2, SplitIs
<1>4. seq = p
  <2>1. seq \o a = p \o a BY <1>2, <1>3
  <2> QED BY <2>1, ConcatSimplifications
<1>5. PICK d : d = RemoveAt(c, i)
  OBVIOUS
<1>6. d = p \o b BY <1>2, <1>5 DEF RemoveAt, After
<1>7. d \in Seq(T) /\ Len(d) = Len(c) - 1 BY <1>5, RemoveAtIs
<1>8. i \in 1..Len(d) + 1 BY <1>1, <1>7
<1>9. PICK q, e \in Seq(T) : q = SubSeq(d, 1, i - 1) /\ e = After(d, i) BY <1>7, <1>8, SplitIs
<1>10. Len(q) = i - 1 /\ (\A j \in 1..(i - 1) : q[j] = d[j]) /\ q \o e = d BY <1>7, <1>8, <1>9, SplitIs
<1>11. q = p
  <2>1. \A j \in 1..(i - 1) : d[j] = p[j]
    <3>1. SUFFICES ASSUME NEW j \in 1..(i - 1) PROVE d[j] = p[j]
      OBVIOUS
    <3>2. j \in 1..Len(p) + Len(b) /\ j <= Len(p) BY <1>1, <1>3
    <3> QED BY <1>6, <3>2, ConcatProperties
  <2> QED BY <1>3, <1>10, <2>1, SeqEqual
<1>12. e = b
  <2>1. p \o e = p \o b BY <1>6, <1>10, <1>11
  <2> QED BY <2>1, ConcatSimplifications
<1> QED BY <1>2, <1>4, <1>5, <1>6, <1>9, <1>12

\* One more task has run.
LEMMA NamesGrow ==
  ASSUME NEW rs \in Seq(RunRec), NEW r \in RunRec
  PROVE  /\ Append(rs, r) \in Seq(RunRec) /\ Names(rs) \in Seq(Tasks)
         /\ Names(Append(rs, r)) = Append(Names(rs), r.task)
<1>1. Len(rs) \in Nat /\ (\A i \in 1..Len(rs) : rs[i].task \in Tasks) /\ r.task \in Tasks
  <2>1. \A i \in 1..Len(rs) : rs[i] \in RunRec
    OBVIOUS
  <2> QED BY <2>1 DEF RunRec
<1>2. PICK f : f = Names(rs)
  OBVIOUS
<1>3. f = [i \in 1..Len(rs) |-> rs[i].task] BY <1>2 DEF Names
<1>4. f \in Seq(Tasks) /\ Len(f) = Len(rs)
  <2>1. f \in [1..Len(rs) -> Tasks] BY <1>1, <1>3
  <2> QED BY <1>1, <2>1
<1>5. PICK more \in Seq(RunRec) : more = Append(rs, r) BY AppendProperties
<1>6. /\ Len(more) = Len(rs) + 1 /\ more[Len(rs) + 1] = r /\ \A j \in 1..Len(rs) : more[j] = rs[j]
  BY <1>5, AppendProperties
<1>7. PICK g : g = Names(more)
  OBVIOUS
<1>8. g = [i \in 1..Len(more) |-> more[i].task] BY <1>7 DEF Names
<1>9. g \in Seq(Tasks) /\ Len(g) = Len(more)
  <2>1. \A i \in 1..Len(more) : more[i] \in RunRec BY <1>5
  <2>2. g \in [1..Len(more) -> Tasks] BY <1>8, <2>1 DEF RunRec
  <2>3. Len(more) \in Nat BY <1>5
  <2> QED BY <2>2, <2>3
<1>10. /\ Append(f, r.task) \in Seq(Tasks) /\ Len(Append(f, r.task)) = Len(f) + 1
       /\ (\A i \in 1..Len(f) : Append(f, r.task)[i] = f[i]) /\ Append(f, r.task)[Len(f) + 1] = r.task
  BY <1>1, <1>4, AppendProperties
<1>11. \A i \in 1..Len(g) : g[i] = Append(f, r.task)[i]
  <2>1. SUFFICES ASSUME NEW i \in 1..Len(g) PROVE g[i] = Append(f, r.task)[i]
    OBVIOUS
  <2>2. i \in 1..Len(rs) \/ i = Len(rs) + 1 BY <1>1, <1>6, <1>9
  <2>3. g[i] = more[i].task BY <1>8, <1>9, <2>1
  <2>4. CASE i \in 1..Len(rs) BY <1>3, <1>4, <1>6, <1>10, <2>3, <2>4
  <2>5. CASE i = Len(rs) + 1 BY <1>4, <1>6, <1>10, <2>3, <2>5
  <2> QED BY <2>2, <2>4, <2>5
<1>12. g = Append(f, r.task)
  <2>1. Len(g) = Len(Append(f, r.task)) BY <1>4, <1>6, <1>9, <1>10
  <2>2. Append(f, r.task) \in Seq(Tasks) BY <1>10
  <2> QED BY <1>9, <1>11, <2>1, <2>2, SeqEqual
<1> QED BY <1>2, <1>4, <1>5, <1>7, <1>12

\* What the pass has run, and TasksRunInOrder.
PassInv ==
  /\ ran \in Seq(RunRec) /\ (pc \notin {"tasks", "task"} => ran = <<>>)
  /\ TasksRunInOrder

\* Before its first task the pass has left nothing behind.
LEMMA BeginOrdered ==
  ASSUME NEW by, Begin(by), LoopTyping, PassInv, pc \notin {"tasks", "task"}
  PROVE  PassInv'
<1>1. /\ ran = <<>> /\ iter = 1 /\ container_ \in Seq(Tasks) /\ pc' = "tasks"
      /\ ran' = <<>> /\ iter' = 1 /\ container_' = container_ /\ pass' = container_
  BY DEF Begin, LoopTyping, PassInv
<1>2. Len(container_) \in Nat /\ SubSeq(container_, 1, Len(container_)) = container_
  BY <1>1, SubSeqFull
<1>3. PICK rs \in Seq(RunRec) : rs = <<>> /\ Len(rs) = 0
  <2>1. <<>> \in Seq(RunRec) /\ Len(<<>>) = 0
    OBVIOUS
  <2> QED BY <2>1
<1>4. Names(rs) = <<>>
  <2>1. Names(rs) = [i \in {} |-> rs[i].task] BY <1>3 DEF Names
  <2> QED BY <2>1
<1>5. RunAgain(rs)[Len(rs)] = <<>> BY <1>3, RunAgainIs
<1>6. <<>> \o container_ = container_ BY <1>1, ConcatEmptySeq
<1>7. ran' \in Seq(RunRec) BY <1>1, <1>3
<1>8. TasksRunInOrder' BY <1>1, <1>2, <1>3, <1>4, <1>5, <1>6 DEF TasksRunInOrder
<1> QED BY <1>1, <1>7, <1>8 DEF PassInv

\* A task is left in its place or erased, and joins those that ran.
LEMMA TurnOrdered ==
  ASSUME NEW again \in BOOLEAN, TaskReturns(again), LoopTyping, PassInv
  PROVE  PassInv'
<1>1. /\ pc = "task" /\ pc' = "tasks" /\ Step(again) /\ pass' = pass
      /\ ran' = Append(ran, [task |-> container_[iter], again |-> again])
  BY DEF TaskReturns
<1>2. /\ container_ \in Seq(Tasks) /\ Len(container_) \in Nat /\ iter \in 1..Len(container_)
      /\ container_[iter] \in Tasks
  BY <1>1 DEF LoopTyping
<1>3. PICK c \in Seq(Tasks), i \in 1..Len(container_), rs \in Seq(RunRec) :
        c = container_ /\ i = iter /\ rs = ran /\ i \in 1..Len(c)
  BY <1>2 DEF PassInv
<1>4. PICK r \in RunRec : /\ r = [task |-> c[i], again |-> again]
                          /\ r.task = c[i] /\ (r.again <=> again)
  <2>1. [task |-> c[i], again |-> again] \in RunRec BY <1>2, <1>3 DEF RunRec
  <2> QED BY <2>1
<1>5. ran' = Append(rs, r) BY <1>1, <1>3, <1>4
<1>6. /\ ran' \in Seq(RunRec) /\ Names(rs) \in Seq(Tasks)
      /\ Names(ran') = Append(Names(rs), c[i])
  BY <1>4, <1>5, NamesGrow
<1>7. PICK seq \in Seq(Tasks) : seq = RunAgain(rs)[Len(rs)]
  <2>1. Len(rs) \in 0..Len(rs)
    OBVIOUS
  <2> QED BY <2>1, RunAgainTyped
<1>8. RunAgain(ran')[Len(ran')] = IF r.again THEN Append(seq, c[i]) ELSE seq
  BY <1>4, <1>5, <1>7, RunAgainGrows DEF Listed
<1>9. Names(rs) \o After(c, i) = pass /\ seq \o After(c, i) = c
  BY <1>1, <1>3, <1>7 DEF PassInv, TasksRunInOrder, After
<1>10. Names(ran') \o After(c, i + 1) = pass BY ZenonT(30), <1>3, <1>6, <1>9, TurnIs
<1>11. /\ Names(ran') \o After(container_', iter') = pass'
       /\ RunAgain(ran')[Len(ran')] \o After(container_', iter') = container_'
  <2>1. CASE again
    <3>1. container_' = c /\ iter' = i + 1 BY <1>1, <1>3, <2>1 DEF Step
    <3>2. Append(seq, c[i]) \o After(c, i + 1) = c BY <1>3, <1>9, TurnIs
    <3>3. RunAgain(ran')[Len(ran')] = Append(seq, c[i]) BY <1>4, <1>8, <2>1
    <3> QED BY <1>1, <1>10, <3>1, <3>2, <3>3
  <2>2. CASE ~again
    <3>1. container_' = RemoveAt(c, i) /\ iter' = i BY <1>1, <1>3, <2>2 DEF Step
    <3>2. /\ seq \o After(RemoveAt(c, i), i) = RemoveAt(c, i)
          /\ After(RemoveAt(c, i), i) = After(c, i + 1)
      BY <1>3, <1>9, ErasedIs
    <3>3. RunAgain(ran')[Len(ran')] = seq BY <1>4, <1>8, <2>2
    <3> QED BY <1>1, <1>10, <3>1, <3>2, <3>3
  <2> QED BY <2>1, <2>2
<1>12. TasksRunInOrder' BY <1>11 DEF TasksRunInOrder, After
<1> QED BY <1>1, <1>6, <1>12 DEF PassInv

\* Every step keeps the pass over the tasks in order.
LEMMA StepPass == LoopTyping /\ PassInv /\ [Next]_vars => PassInv'
<1> SUFFICES ASSUME LoopTyping, PassInv, [Next]_vars PROVE PassInv'
  OBVIOUS
<1> DEFINE InPass == pc \in {"tasks", "task"}
<1>1. ASSUME UNCHANGED taskVars, InPass' <=> InPass PROVE PassInv'
  BY <1>1 DEF taskVars, PassInv, TasksRunInOrder
<1>2. ASSUME ~InPass', ran' = <<>> PROVE PassInv'
  <2>1. <<>> \in Seq(RunRec)
    OBVIOUS
  <2> QED BY <1>2, <2>1 DEF PassInv, TasksRunInOrder
<1>3. ~InPass => ran = <<>> BY DEF PassInv
<1>4. ASSUME NEW h \in Handlers, NEW ms \in Delays, NEW repeat \in BOOLEAN, AddTimer(h, ms, repeat)
      PROVE  PassInv'
  BY <1>1, <1>4 DEF AddTimer, loopVars
<1>5. ASSUME NEW t \in Made, Cancel(t) PROVE PassInv' BY <1>1, <1>5 DEF Cancel, loopVars
<1>6. ASSUME NEW k \in Tasks, AddTask(k) \/ CancelTask(k) PROVE PassInv'
  BY <1>2, <1>3, <1>6 DEF AddTask, CancelTask, loopVars
<1>7. ASSUME NEW i \in BOOLEAN, UserProcessOnce(i) PROVE PassInv'
  BY <1>7, BeginOrdered DEF UserProcessOnce
<1>8. ASSUME NEW s, SetBreak(s) \/ SetMaxWait(s) PROVE PassInv'
  BY <1>1, <1>8 DEF SetBreak, SetMaxWait, loopVars
<1>9. CASE Destroy BY <1>2, <1>3, <1>9 DEF Destroy
<1>10. CASE ProcessUntilBreak BY <1>1, <1>10 DEF ProcessUntilBreak
<1>11. CASE ProcessOnce
  <2>1. CASE Begin("loop") BY <1>11, <2>1, BeginOrdered DEF ProcessOnce
  <2>2. CASE ~Begin("loop") BY <1>1, <1>11, <2>2 DEF ProcessOnce
  <2> QED BY <2>1, <2>2
<1>12. CASE RunTask BY <1>1, <1>12 DEF RunTask
<1>13. ASSUME NEW again \in BOOLEAN, TaskReturns(again) PROVE PassInv' BY <1>13, TurnOrdered
<1>14. CASE TasksEnd BY <1>2, <1>14 DEF TasksEnd, Leave
<1>15. CASE PopTimer BY <1>1, <1>15 DEF PopTimer, Fire
<1>16. CASE CallbackReturns BY <1>1, <1>16 DEF CallbackReturns
<1>17. CASE TimersEnd \/ ProcessNetwork BY <1>1, <1>17 DEF TimersEnd, ProcessNetwork, Leave
<1>18. CASE EpollReports \/ IoReturns \/ EpollTimesOut
  BY <1>1, <1>18 DEF EpollReports, IoReturns, EpollTimesOut, Leave
<1>19. CASE Tick \/ UNCHANGED vars BY <1>1, <1>19 DEF Tick, vars, loopVars
<1> QED BY <1>4, <1>5, <1>6, <1>7, <1>8, <1>9, <1>10, <1>11, <1>12, <1>13, <1>14, <1>15, <1>16, <1>17, <1>18, <1>19
        DEF Next, Looping

-----------------------------------------------------------------------------
(* The theorems *)

\* The invariant of the timers.
LEMMA Invariant == Spec => []TimerInv
<1>1. Init => TimerInv
  <2> SUFFICES ASSUME Init PROVE TimerInv
    OBVIOUS
  <2>1. timer = <<>> /\ Len(timer) = 0 /\ timeQueue_ = {} /\ pc = "out" /\ now = 0 /\ pnow = 0
    BY DEF Init
  <2>2. Made = {} /\ Live = {} BY <2>1 DEF Made, Live
  <2>3. /\ numTimesRegistered_ = [h \in Handlers |-> 0]
        /\ released = [t \in 1..MaxTimers |-> 0]
    BY DEF Init
  <2>4. TimerTyping BY <2>1, <2>2, <2>3, DispatcherAssumption DEF TimerTyping
  <2>5. \A h \in Handlers : Of(h) = {} BY <2>2 DEF Of
  <2>6. CountsLive BY <2>3, <2>5, FS_EmptySet DEF CountsLive
  <2>7. Queued /\ ReleasedIsCancelled /\ NoDueTimerSkipped
    BY <2>1, <2>2, <2>3 DEF Queued, ReleasedIsCancelled, NoDueTimerSkipped
  <2> QED BY <2>4, <2>6, <2>7 DEF TimerInv
<1>2. TimerInv /\ [Next]_vars => TimerInv' BY StepQueued, StepCounts, StepDue DEF TimerInv
<1> QED BY <1>1, <1>2, PTL DEF Spec

\* The loop and the list of tasks.
LEMMA LoopInvariant == Spec => []LoopTyping
<1>1. Init => LoopTyping
  <2> SUFFICES ASSUME Init PROVE LoopTyping
    OBVIOUS
  <2>1. /\ container_ = <<>> /\ iter = 1 /\ pc = "out" /\ caller = "loop" /\ now = 0 /\ pnow = 0
        /\ cur = NoTimer /\ maxWait_ \in Int /\ breakProcessing_ = "RUNNING"
    BY DispatcherAssumption DEF Init
  <2> QED BY <2>1, DispatcherAssumption DEF LoopTyping
<1>2. TimerInv /\ TimerInv' /\ LoopTyping /\ [Next]_vars => LoopTyping' BY StepLoop DEF TimerInv
<1> QED BY <1>1, <1>2, Invariant, PTL DEF Spec

\* Type correctness: in particular the iterator of Tasks::process never leaves the
\* list, and no handler counts fewer than no timers.
THEOREM Types == Spec => []TypeOK
<1>1. TimerInv /\ LoopTyping => TypeOK
  <2> SUFFICES ASSUME TimerInv, LoopTyping PROVE TypeOK
    OBVIOUS
  <2>1. TimerTyping /\ CountsLive BY DEF TimerInv
  <2>2. iter \in 1..MaxTasks + 1 /\ now \in 0..MaxTime /\ pnow \in 0..MaxTime
    BY <2>1, DispatcherAssumption DEF LoopTyping, TimerTyping
  <2>3. ASSUME NEW h \in Handlers PROVE numTimesRegistered_[h] \in 0..MaxTimers
    <3>1. Len(timer) \in Nat /\ Cardinality(1..Len(timer)) = Len(timer) /\ IsFiniteSet(1..Len(timer))
      <4>1. Len(timer) \in Nat BY <2>1, LenIs
      <4> QED BY SMTT(30), <4>1, FS_Interval
    <3>2. Of(h) \in SUBSET (1..Len(timer)) BY DEF Of, Live, Made
    <3>3. Cardinality(Of(h)) =< Len(timer) BY <3>1, <3>2, FS_Subset
    <3>4. Cardinality(Of(h)) \in Nat BY <2>1, <3>2, OfFinite DEF Made
    <3> QED BY <2>1, <3>1, <3>3, <3>4, DispatcherAssumption DEF CountsLive, TimerTyping
  <2> QED BY <2>1, <2>2, <2>3 DEF TypeOK, LoopTyping, TimerTyping
<1> QED BY <1>1, Invariant, LoopInvariant, PTL

\* A timer that was not cancelled is in the queue or its handler runs, never both,
\* whatever the handlers, tasks and descriptors' handlers add and cancel.
THEOREM LiveIsQueued == Spec => []LiveTimerIsQueued
<1>1. TimerInv => LiveTimerIsQueued BY DEF TimerInv, Queued, LiveTimerIsQueued
<1> QED BY <1>1, Invariant, PTL

\* A timer releases its handler once, when it is cancelled, and a handler counts
\* its live timers: what the assert of ~TimerHandler relies on.
THEOREM Released == Spec => []ReleasedOnce
<1>1. TimerInv => ReleasedOnce
  <2> SUFFICES ASSUME TimerInv PROVE ReleasedOnce
    OBVIOUS
  <2>1. \A t \in Made : released[t] = IF isCancelled(t) THEN 1 ELSE 0
    BY LenIs DEF TimerInv, ReleasedIsCancelled, Live
  <2> QED BY <2>1 DEF TimerInv, CountsLive, Of, ReleasedOnce
<1> QED BY <1>1, Invariant, PTL

\* Timers::process leaves no timer that was due when it began.
THEOREM NoneSkipped == Spec => []NoDueTimerSkipped
<1>1. TimerInv => NoDueTimerSkipped BY DEF TimerInv
<1> QED BY <1>1, Invariant, PTL

\* A pass over the tasks runs each of them once, in the order of the list, and
\* leaves behind, in that order, those that asked to be run again, although
\* Tasks::process erases from the vector it walks over.
THEOREM InOrder == Spec => []TasksRunInOrder
<1>1. Init => PassInv
  <2> SUFFICES ASSUME Init PROVE PassInv
    OBVIOUS
  <2>1. pc = "out" /\ ran = <<>> BY DEF Init
  <2>2. <<>> \in Seq(RunRec)
    OBVIOUS
  <2> QED BY <2>1, <2>2 DEF PassInv, TasksRunInOrder
<1>2. LoopTyping /\ PassInv /\ [Next]_vars => PassInv' BY StepPass
<1>3. PassInv => TasksRunInOrder BY DEF PassInv
<1> QED BY <1>1, <1>2, <1>3, LoopInvariant, PTL DEF Spec
=============================================================================
