-------------------------- MODULE ThreadPoolProofs --------------------------
(***************************************************************************)
(* Theorems about ThreadPool, for any number of tasks, clients and threads *)
(* and any initial_, grow_ and max_.                                       *)
(***************************************************************************)
EXTENDS ThreadPool, FiniteSetTheorems, SequenceTheorems, TLAPS

\* A worker holds a task exactly while it processes it.
Holding == \A w \in Thread : wpc[w] = "process" <=> cur[w] # NoTask

\* Thread ids are handed out in increasing order.
Numbered == \A w \in Thread : wpc[w] = "unborn" <=> w > born

TypeInv == TypeOK /\ Holding /\ Numbered

\* What Wrap leaves of an integer is a machine word.
LEMMA WrapTyped == /\ 0 \in Word
                   /\ \A n \in Int : Wrap(n) \in Word
BY PoolAssumption DEF Wrap, Word

\* Words are integers.
LEMMA WordIsInt == \A n \in Word : n + 1 \in Int /\ n - 1 \in Int
BY PoolAssumption DEF Word

\* Creating threads keeps the ids in Thread and the workers' pc typed.
LEMMA SpawnTyped ==
  ASSUME TypeInv, NEW n \in Nat, Spawn(n), UNCHANGED cur
  PROVE  /\ born' \in 0..ThreadBound
         /\ threads_' \in SUBSET Thread
         /\ wpc' \in [Thread -> WorkerPC]
         /\ Holding' /\ Numbered'
BY PoolAssumption DEF Spawn, New, EntryPoint, TypeInv, TypeOK, Holding, Numbered, WorkerPC, Thread

\* The strengthened type invariant is inductive.
LEMMA TypeInvHolds == Spec => []TypeInv
<1>1. Init => TypeInv
  <2> SUFFICES ASSUME Init PROVE TypeInv
    OBVIOUS
  <2>1. tasks_ \in Seq(Tasks) /\ queued \in Seq(Tasks) /\ started \in Seq(Tasks)
        /\ recycle_ \in Seq(Thread)
    BY DEF Init
  <2>2. \A w \in Thread : w > 0
    BY DEF Thread
  <2>3. /\ isInitialize_ \in BOOLEAN /\ isDestroyed_ \in BOOLEAN /\ stats_lock_ \in BOOLEAN /\ stolen \in BOOLEAN
        /\ timedOut \in [Thread -> BOOLEAN]
    BY DEF Init
  <2>4. /\ idles_ \in Word /\ reg \in [Thread -> Word]
        /\ born \in 0..ThreadBound
    BY WrapTyped, PoolAssumption DEF Init
  <2>5. /\ wpc \in [Thread -> WorkerPC]
        /\ cur \in [Thread -> Tasks \cup {NoTask}]
        /\ Holding /\ Numbered
    BY <2>2 DEF Init, WorkerPC, Holding, Numbered
  <2>6. /\ cpc \in [Clients -> ClientPC]
        /\ arg \in [Clients -> Tasks \cup {NoTask}]
        /\ result \in [Tasks -> Result]
        /\ opc \in OwnerPC
    BY DEF Init, ClientPC, OwnerPC, Result
  <2>7. done \in SUBSET Tasks /\ threads_ \in SUBSET Thread /\ waiting \in SUBSET Thread
    BY DEF Init
  <2> QED BY <2>1, <2>3, <2>4, <2>5, <2>6, <2>7 DEF TypeInv, TypeOK
<1>2. TypeInv /\ [Next]_vars => TypeInv'
  <2> SUFFICES ASSUME TypeInv, [Next]_vars PROVE TypeInv'
    OBVIOUS
  <2> USE PoolAssumption DEF TypeInv, Holding, Numbered, TypeOK, poolVars, statVars, workerVars, clientVars, taskVars,
          WorkerPC, ClientPC, OwnerPC, Result, Goto, Step, Return
  <2>1. ASSUME NEW w \in Thread, Work(w) PROVE TypeInv'
    <3>1. CASE WorkerLoop(w)   BY <3>1 DEF WorkerLoop
    <3>2. CASE FetchTask(w)    
      <4>1. CASE tasks_ = <<>> BY <3>2, <4>1 DEF FetchTask
      <4>2. CASE tasks_ # <<>>
        <5>1. Head(tasks_) \in Tasks /\ Tail(tasks_) \in Seq(Tasks)
          BY <4>2
        <5>2. tasks_' \in Seq(Tasks) /\ started' \in Seq(Tasks)
          <6>1. Append(started, Head(tasks_)) \in Seq(Tasks)
            BY <5>1
          <6> QED BY <3>2, <4>2, <5>1, <6>1 DEF FetchTask, PopFront
        <5>3. /\ wpc[w] = "fetch" /\ wpc' = [wpc EXCEPT ![w] = "process"]
              /\ cur' = [cur EXCEPT ![w] = Head(tasks_)]
              /\ UNCHANGED <<poolVars, statVars, reg, timedOut, clientVars, opc, queued, done>>
          BY <3>2, <4>2 DEF FetchTask
        <5> QED BY <5>1, <5>2, <5>3
      <4> QED BY <4>1, <4>2
    <3>3. CASE Process(w)      BY <3>3 DEF Process
    <3>4. CASE LockStats(w)    BY <3>4 DEF LockStats
    <3>5. CASE LoadIdles(w)    BY <3>5 DEF LoadIdles
    <3>6. CASE StoreIdles(w)   
      <4>1. idles_' \in Word
        <5>1. reg[w] + 1 \in Int /\ reg[w] - 1 \in Int
          BY WordIsInt
        <5>2. Wrap(reg[w] + 1) \in Word /\ Wrap(reg[w] - 1) \in Word
          BY <5>1, WrapTyped
        <5> QED BY <3>6, <5>2 DEF StoreIdles
      <4> QED BY <3>6, <4>1, WrapTyped DEF StoreIdles
    <3>7. CASE Wait(w)         BY <3>7 DEF Wait
    <3>8. CASE Wake(w)         BY <3>8 DEF Wake
    <3>9. CASE RelockStats(w)  BY ZenonT(30), <3>9 DEF RelockStats, TimeoutStatus
    <3>10. CASE UnlockStats(w) BY <3>10 DEF UnlockStats
    <3>11. CASE WorkerExit(w)  BY <3>11 DEF WorkerExit
    <3> QED BY <2>1, <3>1, <3>2, <3>3, <3>4, <3>5, <3>6, <3>7, <3>8, <3>9, <3>10, <3>11 DEF Work
  <2>2. ASSUME NEW w \in Thread, WakeByItself(w) PROVE TypeInv'
    BY <2>2 DEF WakeByItself
  <2>3. ASSUME NEW c \in Clients, Executing(c) PROVE TypeInv'
    <3>1. CASE ExecuteLock(c)   BY <3>1 DEF ExecuteLock
    <3>2. CASE ExecuteCheck(c)  BY <3>2 DEF ExecuteCheck
    <3>3. CASE ExecuteUnlock(c) BY <3>3 DEF ExecuteUnlock
    <3>4. CASE ExecuteNotify(c) BY <3>4 DEF ExecuteNotify
    <3>5. CASE ExecuteUnlockAgain(c) BY <3>5 DEF ExecuteUnlockAgain
    <3>6. CASE ExecuteGrow(c)   
      <4>1. CASE Full 
        <5>1. /\ Return(c, "out", "full")
              /\ UNCHANGED <<poolVars, wpc, statVars, cur, reg, timedOut, taskVars, opc>>
          BY <3>6, <4>1 DEF ExecuteGrow
        <5> QED BY <5>1
      <4>2. CASE ~Full
        <5>1. /\ Return(c, "out", "grown")
              /\ Spawn(Grow)
              /\ UNCHANGED <<isInitialize_, isDestroyed_, recycle_, statVars, cur, reg,
                             timedOut, taskVars, opc>>
          BY <3>6, <4>2 DEF ExecuteGrow
        <5> QED BY <5>1, SpawnTyped
      <4> QED BY <4>1, <4>2
    <3> QED BY <2>3, <3>1, <3>2, <3>3, <3>4, <3>5, <3>6 DEF Executing
  <2>4. ASSUME NEW c \in Clients, NEW t \in Tasks, Execute(c, t) PROVE TypeInv'
    <3>1. Append(tasks_, t) \in Seq(Tasks) /\ Append(queued, t) \in Seq(Tasks)
      OBVIOUS
    <3>2. tasks_' \in Seq(Tasks) /\ queued' \in Seq(Tasks)
      BY <2>4, <3>1 DEF Execute, Push
    <3> QED BY <2>4, <3>2 DEF Execute
  <2>5. CASE Initialize BY <2>5, SpawnTyped DEF Initialize
  <2>6. CASE Recycle    
    <3>1. recycle_' \in Seq(Thread) BY <2>6 DEF Recycle, Reap
    <3> QED BY <2>6, <3>1 DEF Recycle, Reap
  <2>7. CASE Destroy    BY <2>7 DEF Destroy
  <2>8. CASE Owning
    <3>1. CASE InitializeEnd    BY <3>1 DEF InitializeEnd
    <3>2. CASE DestroyNotifyAll BY <3>2 DEF DestroyNotifyAll
    <3>3. CASE DestroyJoin      BY <3>3 DEF DestroyJoin
    <3>4. CASE DestroyReap
      <4>1. recycle_' \in Seq(Thread) BY <3>4 DEF DestroyReap, Reap
      <4> QED BY <3>4, <4>1 DEF DestroyReap, Reap
    <3> QED BY <2>8, <3>1, <3>2, <3>3, <3>4 DEF Owning
  <2>9. CASE UNCHANGED vars BY <2>9 DEF vars
  <2> QED BY <2>1, <2>2, <2>3, <2>4, <2>5, <2>6, <2>7, <2>8, <2>9 DEF Next
<1> QED BY <1>1, <1>2, PTL DEF Spec

\* The variables have their types in every reachable state: idles_ in
\* particular stays a machine word although its updates race.
THEOREM Typing == Spec => []TypeOK
<1>1. TypeInv => TypeOK
  BY DEF TypeInv
<1> QED BY <1>1, TypeInvHolds, PTL

-----------------------------------------------------------------------------
(* stats_lock_ and idles_: they do their work until a second unlock in     *)
(* execute releases the lock of another thread.                            *)

\* Arithmetic of the machine word: the remainder is determined ...
LEMMA ModUnique ==
  ASSUME NEW M \in Nat \ {0}, NEW q \in Int, NEW r \in 0..M-1
  PROVE  (M * q + r) % M = r
BY SMTT(20)

\* ... so ++ of a count taken modulo M is the count plus one modulo M ...
LEMMA ModSucc ==
  ASSUME NEW M \in Nat \ {0}, NEW n \in Nat
  PROVE  ((n % M) + 1) % M = (n + 1) % M
<1> DEFINE q == n \div M  r == n % M
<1>1. n = M * q + r /\ r \in 0..M-1 /\ q \in Int
  OBVIOUS
<1> HIDE DEF q, r
<1>2. CASE r + 1 < M
  <2>1. n + 1 = M * q + (r + 1) /\ r + 1 \in 0..M-1
    BY <1>1, <1>2
  <2>2. (n + 1) % M = r + 1
    BY <2>1, <1>1, ModUnique
  <2>3. r + 1 = M * 0 + (r + 1)
    BY <1>1
  <2>4. (r + 1) % M = r + 1
    BY <2>1, <2>3, ModUnique
  <2> QED BY <2>2, <2>4 DEF r
<1>3. CASE r + 1 = M
  <2>1. n + 1 = M * (q + 1) + 0 /\ 0 \in 0..M-1 /\ q + 1 \in Int
    BY <1>1, <1>3
  <2>2. (n + 1) % M = 0
    BY <2>1, ModUnique
  <2>3. r + 1 = M * 1 + 0
    BY <1>1, <1>3
  <2>4. (r + 1) % M = 0
    BY <2>1, <2>3, ModUnique
  <2> QED BY <2>2, <2>4 DEF r
<1> QED BY <1>1, <1>2, <1>3

\* ... and -- the count minus one.
LEMMA ModPred ==
  ASSUME NEW M \in Nat \ {0}, NEW n \in Nat \ {0}
  PROVE  ((n % M) - 1) % M = (n - 1) % M
<1> DEFINE q == n \div M  r == n % M
<1>1. n = M * q + r /\ r \in 0..M-1 /\ q \in Int
  OBVIOUS
<1> HIDE DEF q, r
<1>2. CASE r > 0
  <2>1. n - 1 = M * q + (r - 1) /\ r - 1 \in 0..M-1
    BY <1>1, <1>2
  <2>2. (n - 1) % M = r - 1
    BY <2>1, <1>1, ModUnique
  <2>3. r - 1 = M * 0 + (r - 1)
    BY <1>1
  <2>4. (r - 1) % M = r - 1
    BY <2>1, <2>3, ModUnique
  <2> QED BY <2>2, <2>4 DEF r
<1>3. CASE r = 0
  <2>1. n - 1 = M * (q - 1) + (M - 1) /\ M - 1 \in 0..M-1 /\ q - 1 \in Int
    BY <1>1, <1>3
  <2>2. (n - 1) % M = M - 1
    BY <2>1, ModUnique
  <2>3. r - 1 = M * (-1) + (M - 1) /\ -1 \in Int
    BY <1>1, <1>3
  <2>4. (r - 1) % M = M - 1
    BY <2>1, <2>3, ModUnique
  <2> QED BY <2>2, <2>4 DEF r
<1> QED BY <1>1, <1>2, <1>3

-----------------------------------------------------------------------------
\* At most one thread is in a section of stats_lock_.
Exclusive ==
  /\ \A v, w \in HoldingWorkers : v = w
  /\ \A c, d \in HoldingClients : c = d
  /\ HoldingWorkers = {} \/ HoldingClients = {}

\* The word of the mutex says whether somebody is.
WordTrue == stats_lock_ <=> (HoldingWorkers # {} \/ HoldingClients # {})

\* What a worker loaded is still the value of idles_ when it stores.
Fresh == \A w \in Thread : wpc[w] \in {"incStore", "decStore"} => reg[w] = idles_

\* idles_ counts, as a machine word.
Counts == idles_ = Cardinality(Idling) % IdleMod

LockInv == ~stolen => Exclusive /\ WordTrue /\ Fresh /\ Counts

\* Exclusive and WordTrue say of the two kinds of threads what CountsUntilStolen
\* says of all holders.
LEMMA HoldersSplit ==
  /\ Holders = {} <=> HoldingWorkers = {} /\ HoldingClients = {}
  /\ Exclusive => \A g, h \in Holders : g = h
<1>1. Holders = {} <=> HoldingWorkers = {} /\ HoldingClients = {}
  BY DEF Holders
<1>2. ASSUME Exclusive, NEW g \in Holders, NEW h \in Holders PROVE g = h
  BY <1>2 DEF Exclusive, Holders
<1> QED BY <1>1, <1>2

\* Finitely many threads idle.
LEMMA IdlingFinite == IsFiniteSet(Idling) /\ Cardinality(Idling) \in Nat
<1>1. IsFiniteSet(Thread)
  BY FS_Interval, PoolAssumption DEF Thread
<1>2. Idling \in SUBSET Thread
  BY DEF Idling
<1> QED BY <1>1, <1>2, FS_Subset, FS_CardinalityType

\* A step that leaves the sections, the load registers and the counted workers
\* alone keeps the invariant.
LEMMA Untouched ==
  ASSUME LockInv, UNCHANGED <<stats_lock_, idles_, stolen>>,
         HoldingWorkers' = HoldingWorkers, HoldingClients' = HoldingClients,
         Idling' = Idling,
         \A w \in Thread : wpc'[w] \in {"incStore", "decStore"} =>
           wpc[w] = wpc'[w] /\ reg'[w] = reg[w]
  PROVE  LockInv'
BY DEF LockInv, Exclusive, WordTrue, Fresh, Counts

\* Initially nobody is in a section and nobody is counted.
LEMMA LockInit == Init => LockInv
<1> SUFFICES ASSUME Init PROVE LockInv
  OBVIOUS
<1>1. HoldingWorkers = {} /\ HoldingClients = {} /\ Idling = {}
  BY DEF Init, HoldingWorkers, HoldingClients, Idling
<1>2. Counts
  <2>1. 0 = IdleMod * 0 + 0 /\ 0 \in 0..IdleMod - 1
    BY PoolAssumption
  <2>2. 0 % IdleMod = 0
    BY <2>1, ModUnique, PoolAssumption
  <2> QED BY <1>1, <2>2, FS_EmptySet DEF Init, Counts
<1> QED BY <1>1, <1>2 DEF Init, LockInv, Exclusive, WordTrue, Fresh

\* Every step of a worker keeps the invariant.
LEMMA LockWorker ==
  ASSUME TypeInv, LockInv, NEW w \in Thread, Work(w) \/ WakeByItself(w)
  PROVE  LockInv'
<1> USE DEF HoldingWorkers, HoldingClients, Idling
<1>0. wpc \in [Thread -> WorkerPC] /\ reg \in [Thread -> Word]
  BY DEF TypeInv, TypeOK
<1>1. CASE WorkerLoop(w)
  <2>1. /\ HoldingWorkers' = HoldingWorkers /\ HoldingClients' = HoldingClients
        /\ Idling' = Idling
    BY <1>0, <1>1 DEF WorkerLoop, Goto, clientVars
  <2> QED BY <1>0, <1>1, <2>1, Untouched DEF WorkerLoop, Goto, statVars
<1>2. CASE FetchTask(w)
  <2>1. /\ HoldingWorkers' = HoldingWorkers /\ HoldingClients' = HoldingClients
        /\ Idling' = Idling
    BY <1>0, <1>2 DEF FetchTask, Goto, clientVars
  <2> QED BY <1>0, <1>2, <2>1, Untouched DEF FetchTask, Goto, statVars
<1>3. CASE Process(w)
  <2>1. /\ HoldingWorkers' = HoldingWorkers /\ HoldingClients' = HoldingClients
        /\ Idling' = Idling
    BY <1>0, <1>3 DEF Process, Goto, clientVars
  <2> QED BY <1>0, <1>3, <2>1, Untouched DEF Process, Goto, statVars
<1>4. CASE LockStats(w)
  <2>1. HoldingWorkers' = HoldingWorkers \cup {w} /\ HoldingClients' = HoldingClients
        /\ Idling' = Idling
    BY <1>0, <1>4 DEF LockStats, Goto, clientVars
  <2>2. stats_lock_' /\ ~stats_lock_ /\ UNCHANGED <<idles_, stolen, reg>>
        /\ \A v \in Thread : wpc'[v] \in {"incStore", "decStore"} => wpc[v] = wpc'[v]
    BY <1>0, <1>4 DEF LockStats, Goto
  <2> QED BY <2>1, <2>2 DEF LockInv, Exclusive, WordTrue, Fresh, Counts
<1>5. CASE LoadIdles(w)
  <2>1. HoldingWorkers' = HoldingWorkers /\ HoldingClients' = HoldingClients
        /\ Idling' = Idling
    BY <1>0, <1>5 DEF LoadIdles, Goto, clientVars
  <2>2. /\ UNCHANGED <<idles_, stolen, stats_lock_>> /\ reg'[w] = idles_
        /\ \A v \in Thread \ {w} : wpc'[v] = wpc[v] /\ reg'[v] = reg[v]
    BY <1>0, <1>5 DEF LoadIdles, Goto, statVars
  <2> QED BY SMTT(30), <2>1, <2>2 DEF LockInv, Exclusive, WordTrue, Fresh, Counts
<1>6. CASE StoreIdles(w)
  <2>1. HoldingWorkers' = HoldingWorkers /\ HoldingClients' = HoldingClients
        /\ w \in HoldingWorkers /\ UNCHANGED <<stolen, stats_lock_>>
    BY <1>0, <1>6 DEF StoreIdles, Goto, clientVars
  <2>2. \A v \in Thread \ {w} : wpc'[v] = wpc[v] /\ reg'[v] = reg[v]
    BY <1>0, <1>6 DEF StoreIdles, Goto
  <2>3. wpc'[w] \in {"wait", "unlock"}
    BY <1>0, <1>6 DEF StoreIdles, Goto
  <2> SUFFICES ASSUME ~stolen PROVE LockInv'
    BY <2>1 DEF LockInv
  <2>4. \A v \in Thread : wpc'[v] \notin {"incStore", "decStore"}
    BY <2>1, <2>2, <2>3 DEF LockInv, Exclusive
  <2>5. Counts'
    <3>1. reg[w] = idles_ /\ idles_ = Cardinality(Idling) % IdleMod
      BY <1>6 DEF StoreIdles, Goto, LockInv, Fresh, Counts
    <3>2. CASE wpc[w] = "incStore"
      <4>1. Idling' = Idling \cup {w} /\ w \notin Idling
        BY <1>0, <1>6, <3>2 DEF StoreIdles, Goto
      <4>2. Cardinality(Idling') = Cardinality(Idling) + 1
        <5> HIDE DEF Idling
        <5> QED BY <4>1, IdlingFinite, FS_AddElement
      <4>3. idles_' = (idles_ + 1) % IdleMod
        BY <1>6, <3>1, <3>2 DEF StoreIdles, Goto, Wrap
      <4> HIDE DEF Idling
      <4>4. (idles_ + 1) % IdleMod = (Cardinality(Idling) + 1) % IdleMod
        BY <3>1, IdlingFinite, PoolAssumption, ModSucc
      <4> QED BY <4>2, <4>3, <4>4 DEF Counts
    <3>3. CASE wpc[w] = "decStore"
      <4>1. Idling' = Idling \ {w} /\ w \in Idling
        BY <1>0, <1>6, <3>3 DEF StoreIdles, Goto
      <4>2. Cardinality(Idling') = Cardinality(Idling) - 1 /\ Cardinality(Idling) # 0
        <5> HIDE DEF Idling
        <5> QED BY <4>1, IdlingFinite, FS_RemoveElement, FS_EmptySet
      <4>3. idles_' = (idles_ - 1) % IdleMod
        BY <1>6, <3>1, <3>3 DEF StoreIdles, Goto, Wrap
      <4> HIDE DEF Idling
      <4>4. (idles_ - 1) % IdleMod = (Cardinality(Idling) - 1) % IdleMod
        BY <3>1, <4>2, IdlingFinite, PoolAssumption, ModPred
      <4> QED BY <4>2, <4>3, <4>4 DEF Counts
    <3> QED BY <1>6, <3>2, <3>3 DEF StoreIdles, Goto
  <2> QED BY <2>1, <2>4, <2>5 DEF LockInv, Exclusive, WordTrue, Fresh
<1>7. CASE Wait(w)
  <2>1. HoldingWorkers' = HoldingWorkers \ {w} /\ HoldingClients' = HoldingClients
        /\ Idling' = Idling /\ w \in HoldingWorkers
    BY <1>0, <1>7 DEF Wait, Goto, clientVars
  <2>2. ~stats_lock_' /\ UNCHANGED <<idles_, stolen, reg>>
        /\ \A v \in Thread : wpc'[v] \in {"incStore", "decStore"} => wpc[v] = wpc'[v]
    BY <1>0, <1>7 DEF Wait, Goto
  <2> QED BY <2>1, <2>2 DEF LockInv, Exclusive, WordTrue, Fresh, Counts
<1>8. CASE Wake(w)
  <2>1. /\ HoldingWorkers' = HoldingWorkers /\ HoldingClients' = HoldingClients
        /\ Idling' = Idling
    BY <1>0, <1>8 DEF Wake, Goto, clientVars
  <2> QED BY <1>0, <1>8, <2>1, Untouched DEF Wake, Goto, statVars
<1>9. CASE RelockStats(w)
  <2>1. HoldingWorkers' = HoldingWorkers \cup {w} /\ HoldingClients' = HoldingClients
        /\ Idling' = Idling
    BY <1>0, <1>9 DEF RelockStats, Goto, clientVars
  <2>2. stats_lock_' /\ ~stats_lock_ /\ UNCHANGED <<idles_, stolen, reg>>
        /\ \A v \in Thread : wpc'[v] \in {"incStore", "decStore"} => wpc[v] = wpc'[v]
    BY <1>0, <1>9 DEF RelockStats, Goto
  <2> QED BY <2>1, <2>2 DEF LockInv, Exclusive, WordTrue, Fresh, Counts
<1>10. CASE UnlockStats(w)
  <2>1. HoldingWorkers' = HoldingWorkers \ {w} /\ HoldingClients' = HoldingClients
        /\ Idling' = Idling /\ w \in HoldingWorkers
    BY <1>0, <1>10 DEF UnlockStats, Goto, clientVars
  <2>2. ~stats_lock_' /\ UNCHANGED <<idles_, stolen, reg>>
        /\ \A v \in Thread : wpc'[v] \in {"incStore", "decStore"} => wpc[v] = wpc'[v]
    BY <1>0, <1>10 DEF UnlockStats, Goto
  <2> QED BY <2>1, <2>2 DEF LockInv, Exclusive, WordTrue, Fresh, Counts
<1>11. CASE WorkerExit(w)
  <2>1. /\ HoldingWorkers' = HoldingWorkers /\ HoldingClients' = HoldingClients
        /\ Idling' = Idling
    BY <1>0, <1>11 DEF WorkerExit, Goto, clientVars
  <2> QED BY <1>0, <1>11, <2>1, Untouched DEF WorkerExit, Goto, statVars
<1>12. CASE WakeByItself(w)
  <2>1. /\ HoldingWorkers' = HoldingWorkers /\ HoldingClients' = HoldingClients
        /\ Idling' = Idling
    BY <1>0, <1>12 DEF WakeByItself, Goto, clientVars
  <2> QED BY <1>0, <1>12, <2>1, Untouched DEF WakeByItself, Goto
<1> QED BY <1>1, <1>2, <1>3, <1>4, <1>5, <1>6, <1>7, <1>8, <1>9, <1>10, <1>11, <1>12 DEF Work

\* New threads are in no section and are not counted.
LEMMA LockSpawn ==
  ASSUME TypeInv, LockInv, NEW n \in Nat, Spawn(n), HoldingClients' = HoldingClients,
         UNCHANGED <<statVars, reg>>
  PROVE  LockInv'
<1>1. \A v \in Thread : /\ wpc'[v] = wpc[v] \/ wpc'[v] = "loop"
                        /\ wpc'[v] # wpc[v] => wpc[v] = "unborn"
  BY PoolAssumption DEF Spawn, New, EntryPoint, TypeInv, TypeOK, Numbered, Thread
<1>2. HoldingWorkers' = HoldingWorkers /\ Idling' = Idling
  BY <1>1 DEF HoldingWorkers, Idling
<1> QED BY <1>1, <1>2, Untouched DEF statVars

\* Every step of a client keeps the invariant; the second unlock does, for it is
\* recorded in stolen when it was somebody else's.
LEMMA LockClient ==
  ASSUME TypeInv, LockInv, NEW c \in Clients, Executing(c)
  PROVE  LockInv'
<1> USE DEF HoldingClients
<1>0. cpc \in [Clients -> ClientPC]
  BY DEF TypeInv, TypeOK
<1>a. ASSUME UNCHANGED wpc PROVE HoldingWorkers' = HoldingWorkers /\ Idling' = Idling
  BY <1>a DEF HoldingWorkers, Idling
<1>1. CASE ExecuteLock(c)
  <2>1. HoldingClients' = HoldingClients \cup {c}
    BY <1>0, <1>1 DEF ExecuteLock, Step
  <2>2. stats_lock_' /\ ~stats_lock_ /\ UNCHANGED <<idles_, stolen, reg, wpc>>
    BY <1>1 DEF ExecuteLock, workerVars
  <2> HIDE DEF HoldingClients
  <2> QED BY <1>a, <2>1, <2>2 DEF LockInv, Exclusive, WordTrue, Fresh, Counts
<1>2. CASE ExecuteCheck(c)
  <2>1. HoldingClients' = HoldingClients
    BY <1>0, <1>2 DEF ExecuteCheck, Step
  <2>2. UNCHANGED <<statVars, reg, wpc>>
    BY <1>2 DEF ExecuteCheck, workerVars
  <2> QED BY <1>a, <2>1, <2>2, Untouched DEF statVars
<1>3. CASE ExecuteUnlock(c)
  <2>1. HoldingClients' = HoldingClients \ {c} /\ c \in HoldingClients
    BY <1>0, <1>3 DEF ExecuteUnlock, Step
  <2>2. ~stats_lock_' /\ UNCHANGED <<idles_, stolen, reg, wpc>>
    BY <1>3 DEF ExecuteUnlock, workerVars
  <2> HIDE DEF HoldingClients
  <2> QED BY <1>a, <2>1, <2>2 DEF LockInv, Exclusive, WordTrue, Fresh, Counts
<1>4. CASE ExecuteNotify(c)
  <2>1. HoldingClients' = HoldingClients
    BY <1>0, <1>4 DEF ExecuteNotify, Step
  <2>2. UNCHANGED <<idles_, stats_lock_, stolen, reg, wpc>>
    BY <1>4 DEF ExecuteNotify, workerVars
  <2> QED BY <1>a, <2>1, <2>2, Untouched
<1>5. CASE ExecuteUnlockAgain(c)
  <2>1. HoldingClients' = HoldingClients
    BY <1>0, <1>5 DEF ExecuteUnlockAgain, Return
  <2>2. /\ ~stats_lock_' /\ UNCHANGED <<idles_, reg, wpc>>
        /\ stolen' = (stolen \/ Holders # {})
    BY <1>5 DEF ExecuteUnlockAgain, workerVars
  <2> HIDE DEF HoldingClients
  <2> SUFFICES ASSUME ~stolen' PROVE LockInv'
    BY DEF LockInv
  <2>3. ~stolen /\ HoldingWorkers = {} /\ HoldingClients = {}
    BY <2>2, HoldersSplit
  <2> QED BY <1>a, <2>1, <2>2, <2>3 DEF LockInv, Exclusive, WordTrue, Fresh, Counts
<1>6. CASE ExecuteGrow(c)
  <2>1. HoldingClients' = HoldingClients /\ UNCHANGED <<statVars, reg>>
    BY <1>0, <1>6 DEF ExecuteGrow, Return
  <2>2. CASE Full
    <3>1. UNCHANGED wpc
      BY <1>6, <2>2 DEF ExecuteGrow
    <3> QED BY <1>a, <2>1, <3>1, Untouched DEF statVars
  <2>3. CASE ~Full
    <3>1. Spawn(Grow)
      BY <1>6, <2>3 DEF ExecuteGrow
    <3> QED BY <2>1, <3>1, LockSpawn, PoolAssumption
  <2> QED BY <2>2, <2>3
<1> QED BY <1>1, <1>2, <1>3, <1>4, <1>5, <1>6 DEF Executing

\* The invariant is inductive, relative to the types.
LEMMA LockNext == TypeInv /\ LockInv /\ [Next]_vars => LockInv'
<1> SUFFICES ASSUME TypeInv, LockInv, [Next]_vars PROVE LockInv'
  OBVIOUS
<1>a. ASSUME UNCHANGED <<idles_, stats_lock_, stolen, reg, wpc, cpc>> PROVE LockInv'
  <2>1. /\ HoldingWorkers' = HoldingWorkers /\ HoldingClients' = HoldingClients
        /\ Idling' = Idling
    BY <1>a DEF HoldingWorkers, HoldingClients, Idling
  <2> QED BY <1>a, <2>1, Untouched
<1>1. ASSUME NEW w \in Thread, Work(w) \/ WakeByItself(w) PROVE LockInv'
  BY <1>1, LockWorker
<1>2. ASSUME NEW c \in Clients, Executing(c) PROVE LockInv'
  BY <1>2, LockClient
<1>3. ASSUME NEW c \in Clients, NEW t \in Tasks, Execute(c, t) PROVE LockInv'
  <2>1. HoldingClients' = HoldingClients
    BY <1>3 DEF Execute, HoldingClients, TypeInv, TypeOK
  <2>2. UNCHANGED <<statVars, reg, wpc>>
    BY <1>3 DEF Execute, workerVars
  <2>3. HoldingWorkers' = HoldingWorkers /\ Idling' = Idling
    BY <2>2 DEF HoldingWorkers, Idling
  <2> QED BY <2>1, <2>2, <2>3, Untouched DEF statVars
<1>4. CASE Initialize
  <2>1. HoldingClients' = HoldingClients
    BY <1>4 DEF Initialize, clientVars, HoldingClients
  <2> QED BY <1>4, <2>1, LockSpawn, PoolAssumption DEF Initialize
<1>5. CASE Recycle
  BY <1>5, <1>a DEF Recycle, statVars, workerVars, clientVars
<1>6. CASE Destroy
  BY <1>6, <1>a DEF Destroy, statVars, workerVars, clientVars
<1>7. CASE Owning
  BY <1>7, <1>a DEF Owning, InitializeEnd, DestroyNotifyAll, DestroyJoin, DestroyReap,
     statVars, workerVars, clientVars
<1>8. CASE UNCHANGED vars
  BY <1>8, <1>a DEF vars, statVars, workerVars, clientVars
<1> QED BY <1>1, <1>2, <1>3, <1>4, <1>5, <1>6, <1>7, <1>8 DEF Next

\* threadpool.h:75 and the lock guards: until the second unlock of an execute
\* (threadpool.cpp:55) releases the lock of another thread, at most one thread is in
\* a section of stats_lock_, the mutex word says so, and idles_ is the number of the
\* workers between their ++ and their --.
THEOREM CountingSound == Spec => []CountsUntilStolen
<1>1. LockInv => CountsUntilStolen
  BY HoldersSplit DEF LockInv, WordTrue, Counts, CountsUntilStolen
<1> QED BY <1>1, LockInit, LockNext, TypeInvHolds, PTL DEF Spec

-----------------------------------------------------------------------------
(* threads_ and recycle_: which threads are in the two lists, how many     *)
(* there are, and what destroy's comparison of sizes means.                *)

\* What the steps do to the sets behind the lists.
LEMMA RangeAppend ==
  ASSUME NEW S, NEW s \in Seq(S), NEW e \in S
  PROVE  RangeOf(Append(s, e)) = RangeOf(s) \cup {e}
<1>1. /\ Len(Append(s, e)) = Len(s) + 1 /\ Len(s) \in Nat
      /\ \A i \in 1..Len(s) : Append(s, e)[i] = s[i]
      /\ Append(s, e)[Len(s) + 1] = e
  OBVIOUS
<1> QED BY <1>1 DEF RangeOf

\* An empty list has no entries.
LEMMA RangeEmpty == RangeOf(<<>>) = {}
BY DEF RangeOf

\* There are finitely many threads.
LEMMA ThreadFinite == IsFiniteSet(Thread) /\ \A T \in SUBSET Thread : IsFiniteSet(T) /\ Cardinality(T) \in Nat
<1>1. IsFiniteSet(Thread)
  BY FS_Interval, PoolAssumption DEF Thread
<1> QED BY <1>1, FS_Subset, FS_CardinalityType

\* RecycleSound depends only on the two lists and on which threads are ended or not
\* yet born; RecycleSound is inductive relative to the types.
LEMMA SameLists ==
  ASSUME RecycleSound, UNCHANGED <<threads_, recycle_>>,
         \A w \in Thread : /\ wpc'[w] = "ended" <=> wpc[w] = "ended"
                           /\ wpc'[w] = "unborn" <=> wpc[w] = "unborn",
         TypeInv
  PROVE  RecycleSound'
<1>1. RangeOf(recycle_)' = RangeOf(recycle_)
  BY DEF RangeOf
<1>2. threads_ \subseteq Thread
  BY DEF TypeInv, TypeOK
<1> QED BY <1>1, <1>2 DEF RecycleSound

\* New threads are not in the list of the ended ones.
LEMMA ListSpawn ==
  ASSUME TypeInv, RecycleSound, NEW n \in Nat, Spawn(n), UNCHANGED recycle_
  PROVE  RecycleSound'
<1>1. /\ threads_' = threads_ \cup New(n)
      /\ \A w \in New(n) : w \in Thread /\ wpc[w] = "unborn" /\ wpc'[w] = "loop"
      /\ \A w \in Thread \ New(n) : wpc'[w] = wpc[w]
  BY PoolAssumption DEF Spawn, New, EntryPoint, TypeInv, TypeOK, Numbered, Thread
<1>2. RangeOf(recycle_)' = RangeOf(recycle_) /\ threads_ \subseteq Thread
  BY DEF RangeOf, TypeInv, TypeOK
<1>3. {w \in threads_' : wpc'[w] = "ended"} = {w \in threads_ : wpc[w] = "ended"}
  BY <1>1, <1>2
<1> QED BY <1>1, <1>2, <1>3 DEF RecycleSound

\* Joining empties the list of the ended ones.
LEMMA ListReap ==
  ASSUME TypeInv, RecycleSound, Reap, UNCHANGED wpc
  PROVE  RecycleSound'
<1>1. recycle_' = <<>> /\ RangeOf(recycle_') = {}
  BY RangeEmpty DEF Reap
<1>2. threads_' = {w \in threads_ : wpc[w] # "ended"}
  BY DEF Reap, RecycleSound
<1> QED BY <1>1, <1>2 DEF RecycleSound

\* Every step keeps the list of the ended threads sound.
LEMMA ListNext == TypeInv /\ RecycleSound /\ [Next]_vars => RecycleSound'
<1> SUFFICES ASSUME TypeInv, RecycleSound, [Next]_vars PROVE RecycleSound'
  OBVIOUS
<1>0. wpc \in [Thread -> WorkerPC]
  BY DEF TypeInv, TypeOK
<1>1. ASSUME NEW w \in Thread, Work(w) PROVE RecycleSound'
  <2>1. CASE WorkerExit(w)
    <3>1. recycle_' = Append(recycle_, w) /\ UNCHANGED threads_ /\ wpc[w] = "exit"
          /\ wpc' = [wpc EXCEPT ![w] = "ended"]
      BY <2>1 DEF WorkerExit, Goto
    <3>2. recycle_ \in Seq(Thread) /\ threads_ \subseteq Thread
      BY DEF TypeInv, TypeOK
    <3>3. w \in threads_ /\ w \notin RangeOf(recycle_)
      BY <3>1 DEF RecycleSound
    <3>4. RangeOf(recycle_') = RangeOf(recycle_) \cup {w}
      BY <3>1, <3>2, RangeAppend
    <3>5. {v \in threads_' : wpc'[v] = "ended"} = {v \in threads_ : wpc[v] = "ended"} \cup {w}
      BY <1>0, <3>1, <3>2, <3>3
    <3>6. \A i, j \in 1..Len(recycle_') : recycle_'[i] = recycle_'[j] => i = j
      <4>1. \A i \in 1..Len(recycle_) : recycle_[i] # w
        BY <3>3 DEF RangeOf
      <4>2. /\ Len(recycle_') = Len(recycle_) + 1 /\ Len(recycle_) \in Nat
            /\ \A i \in 1..Len(recycle_) : recycle_'[i] = recycle_[i]
            /\ recycle_'[Len(recycle_) + 1] = w
        BY <3>1, <3>2
      <4> QED BY <4>1, <4>2 DEF RecycleSound
    <3>7. \A v \in Thread : v \notin threads_' => wpc'[v] \in {"unborn", "ended"}
      BY <1>0, <3>1, <3>3 DEF RecycleSound
    <3> QED BY <3>4, <3>5, <3>6, <3>7 DEF RecycleSound
  <2>2. CASE ~WorkerExit(w)
    <3>1. UNCHANGED <<threads_, recycle_>>
      BY <1>1, <2>2 DEF Work, WorkerLoop, FetchTask, Process, LockStats, LoadIdles, StoreIdles,
         Wait, Wake, RelockStats, UnlockStats, poolVars
    <3>2. /\ wpc[w] \notin {"unborn", "ended"} /\ wpc'[w] \notin {"unborn", "ended"}
          /\ \A v \in Thread \ {w} : wpc'[v] = wpc[v]
      BY <1>0, <1>1, <2>2 DEF Work, WorkerLoop, FetchTask, Process, LockStats, LoadIdles,
         StoreIdles, Wait, Wake, RelockStats, UnlockStats, Goto
    <3> QED BY <3>1, <3>2, SameLists
  <2> QED BY <2>1, <2>2
<1>2. ASSUME NEW w \in Thread, WakeByItself(w) PROVE RecycleSound'
  BY <1>0, <1>2, SameLists DEF WakeByItself, Goto, poolVars
<1>a. ASSUME UNCHANGED <<threads_, recycle_, wpc>> PROVE RecycleSound'
  BY <1>a, SameLists
<1>3. ASSUME NEW c \in Clients, Executing(c) PROVE RecycleSound'
  <2>1. CASE ExecuteGrow(c)
    <3>1. CASE Full
      BY <2>1, <3>1, <1>a DEF ExecuteGrow, poolVars
    <3>2. CASE ~Full
      BY <2>1, <3>2, ListSpawn, PoolAssumption DEF ExecuteGrow
    <3> QED BY <3>1, <3>2
  <2>2. CASE ~ExecuteGrow(c)
    BY <1>3, <2>2, <1>a DEF Executing, ExecuteLock, ExecuteCheck, ExecuteUnlock, ExecuteNotify,
       ExecuteUnlockAgain, poolVars, workerVars
  <2> QED BY <2>1, <2>2
<1>4. ASSUME NEW c \in Clients, NEW t \in Tasks, Execute(c, t) PROVE RecycleSound'
  BY <1>4, <1>a DEF Execute, poolVars, workerVars
<1>5. CASE Initialize
  BY <1>5, ListSpawn, PoolAssumption DEF Initialize
<1>6. CASE Recycle \/ DestroyReap
  BY <1>6, ListReap DEF Recycle, DestroyReap, workerVars
<1>7. CASE Destroy \/ InitializeEnd \/ DestroyNotifyAll \/ DestroyJoin
  BY <1>7, <1>a DEF Destroy, InitializeEnd, DestroyNotifyAll, DestroyJoin, poolVars, workerVars
<1>8. CASE UNCHANGED vars
  BY <1>8, <1>a DEF vars, poolVars, workerVars
<1> QED BY <1>1, <1>2, <1>3, <1>4, <1>5, <1>6, <1>7, <1>8 DEF Next, Owning

\* recycle() joins and erases only threads that ended, and finds all of them.
THEOREM Recycling == Spec => []RecycleSound
<1>1. Init => RecycleSound
  BY RangeEmpty DEF Init, RecycleSound
<1> QED BY <1>1, ListNext, TypeInvHolds, PTL DEF Spec

\* When recycle_ is as long as threads_ it holds the same threads.
LEMMA SizesAgree ==
  ASSUME TypeInv, RecycleSound, AllRecycled
  PROVE  \A w \in threads_ : wpc[w] = "ended"
<1> DEFINE n == Len(recycle_)
<1>1. recycle_ \in Seq(Thread) /\ threads_ \in SUBSET Thread /\ n \in Nat
  BY DEF TypeInv, TypeOK
<1>2. recycle_ \in [1..n -> threads_]
  <2>1. \A i \in 1..n : recycle_[i] \in threads_
    BY DEF RecycleSound, RangeOf
  <2> QED BY <1>1, <2>1
<1>3. recycle_ \in Injection(1..n, threads_)
  BY <1>2 DEF Injection, IsInjective, RecycleSound
<1>4. IsFiniteSet(threads_) /\ Cardinality(1..n) = Cardinality(threads_)
  <2>1. IsFiniteSet(threads_) /\ n = Cardinality(threads_)
    BY <1>1, ThreadFinite DEF AllRecycled
  <2>2. Cardinality(1..n) = n
    <3>1. 1 \in Int /\ n \in Int
      BY <1>1
    <3>2. Cardinality(1..n) = IF 1 > n THEN 0 ELSE n - 1 + 1
      BY <3>1, FS_Interval
    <3> QED BY <3>2, <1>1
  <2> QED BY <2>1, <2>2
<1>5. recycle_ \in Surjection(1..n, threads_)
  BY <1>3, <1>4, FS_Injection
<1>6. \A w \in threads_ : w \in RangeOf(recycle_)
  BY <1>5 DEF Surjection, RangeOf
<1> QED BY <1>6 DEF RecycleSound

\* destroy's wait compares two sizes; when it ends every thread of the pool has ended,
\* so that the joins of the recycle() that follows cannot leave one running.
THEOREM JoinSound == Spec => JoinWaitsForAll
<1>1. TypeInv /\ RecycleSound /\ [Next]_vars
        => [opc = "join" /\ opc' = "reap" => \A w \in threads_ : wpc[w] = "ended"]_vars
  <2> SUFFICES ASSUME TypeInv, RecycleSound, [Next]_vars, opc = "join", opc' = "reap"
               PROVE  \A w \in threads_ : wpc[w] = "ended"
    OBVIOUS
  <2>1. DestroyJoin
    BY DEF Next, Work, WorkerLoop, FetchTask, Process, LockStats, LoadIdles, StoreIdles,
       Wait, Wake, WakeByItself, RelockStats, UnlockStats, WorkerExit, Executing, ExecuteLock, ExecuteCheck,
       ExecuteUnlock, ExecuteNotify, ExecuteUnlockAgain, ExecuteGrow, Execute, Initialize,
       Recycle, Destroy, Owning, InitializeEnd, DestroyNotifyAll, DestroyReap, vars
  <2> QED BY <2>1, SizesAgree DEF DestroyJoin
<1> QED BY <1>1, Recycling, TypeInvHolds, PTL DEF Spec, JoinWaitsForAll

-----------------------------------------------------------------------------
\* Before initialize() there is no thread and no execute goes beyond its first test.
Begun ==
  /\ \A c \in Clients : cpc[c] # "out" => isInitialize_
  /\ isInitialize_ => opc # "initialized"
  /\ ~isInitialize_ /\ opc # "initialized" => born = 0
  /\ threads_ \subseteq 1..born

\* Residents wait without a deadline.
NoTimeout == \A w \in Thread : Resident(w) => timedOut[w] = FALSE

\* ResidentsStay, from the moment initialize() has created them.
Residing ==
  (isInitialize_ \/ opc = "initialized") /\ ~isDestroyed_ =>
    \A w \in 1..Initial : w \in threads_ /\ wpc[w] \notin {"unborn", "exit", "ended"}

\* What starting threads changes.
LEMMA SpawnFacts ==
  ASSUME TypeInv, NEW n \in Nat, Spawn(n)
  PROVE  /\ threads_' = threads_ \cup New(n) /\ born' = born + n
         /\ \A w \in New(n) : w \in Thread /\ w > born /\ w =< born + n /\ wpc'[w] = "loop"
         /\ \A w \in Thread \ New(n) : wpc'[w] = wpc[w]
         /\ \A w \in Thread : wpc[w] # "unborn" => wpc'[w] = wpc[w]
BY PoolAssumption DEF Spawn, New, EntryPoint, TypeInv, TypeOK, Numbered, Thread

\* The phases of the pool follow each other.
LEMMA BegunNext == TypeInv /\ Begun /\ [Next]_vars => Begun'
<1> SUFFICES ASSUME TypeInv, Begun, [Next]_vars PROVE Begun'
  OBVIOUS
<1>0. cpc \in [Clients -> ClientPC] /\ born \in Nat /\ threads_ \subseteq Nat
  BY PoolAssumption DEF TypeInv, TypeOK, Thread
<1>a. ASSUME UNCHANGED <<poolVars, opc>>, \A c \in Clients : cpc'[c] # "out" => isInitialize_
      PROVE Begun'
  BY <1>a DEF Begun, poolVars
<1>1. ASSUME NEW w \in Thread, Work(w) \/ WakeByItself(w) PROVE Begun'
  <2>1. UNCHANGED <<isInitialize_, threads_, born, cpc, opc>>
    BY <1>1 DEF Work, WorkerLoop, FetchTask, Process, LockStats, LoadIdles, StoreIdles, Wait,
       Wake, WakeByItself, RelockStats, UnlockStats, WorkerExit, poolVars, clientVars
  <2> QED BY <2>1 DEF Begun
<1>2. ASSUME NEW c \in Clients, Executing(c) PROVE Begun'
  <2>1. cpc[c] # "out" /\ isInitialize_ /\ UNCHANGED <<isInitialize_, opc>>
    BY <1>2 DEF Begun, Executing, ExecuteLock, ExecuteCheck, ExecuteUnlock, ExecuteNotify,
       ExecuteUnlockAgain, ExecuteGrow, Step, poolVars
  <2>2. UNCHANGED <<threads_, born>> \/ Spawn(Grow)
    BY <1>2 DEF Executing, ExecuteLock, ExecuteCheck, ExecuteUnlock, ExecuteNotify,
       ExecuteUnlockAgain, ExecuteGrow, poolVars
  <2>3. threads_' \subseteq 1..born'
    <3>1. CASE UNCHANGED <<threads_, born>>
      BY <3>1 DEF Begun
    <3>2. CASE Spawn(Grow)
      BY <1>0, <3>2, PoolAssumption DEF Spawn, New, Begun
    <3> QED BY <2>2, <3>1, <3>2
  <2> QED BY <2>1, <2>3 DEF Begun
<1>3. ASSUME NEW c \in Clients, NEW t \in Tasks, Execute(c, t) PROVE Begun'
  <2>1. UNCHANGED <<poolVars, opc>>
    BY <1>3 DEF Execute
  <2>2. \A d \in Clients : cpc'[d] # "out" => isInitialize_
    BY <1>0, <1>3 DEF Execute, Begun
  <2> QED BY <1>a, <2>1, <2>2
<1>4. CASE Initialize
  BY <1>0, <1>4, PoolAssumption DEF Initialize, Spawn, New, Begun, clientVars
<1>5. CASE InitializeEnd
  BY <1>5 DEF InitializeEnd, Begun, clientVars
<1>6. CASE Recycle \/ Destroy \/ DestroyNotifyAll \/ DestroyJoin \/ DestroyReap
  <2>1. UNCHANGED <<isInitialize_, born, cpc>> /\ opc # "initialized" /\ opc' # "initialized"
    BY <1>6 DEF Recycle, Destroy, DestroyNotifyAll, DestroyJoin, DestroyReap, clientVars, poolVars
  <2>2. threads_' \subseteq threads_
    BY <1>6 DEF Recycle, Destroy, DestroyNotifyAll, DestroyJoin, DestroyReap, Reap, poolVars
  <2> QED BY <2>1, <2>2 DEF Begun
<1>7. CASE UNCHANGED vars
  BY <1>7 DEF vars, poolVars, clientVars, Begun
<1> QED BY <1>1, <1>2, <1>3, <1>4, <1>5, <1>6, <1>7 DEF Next, Owning

\* Before initialize() nothing begins.
LEMMA BegunHolds == Spec => []Begun
<1>1. Init => Begun
  BY DEF Init, Begun
<1> QED BY <1>1, BegunNext, TypeInvHolds, PTL DEF Spec

\* No resident is ever told that its wait timed out.
LEMMA NoTimeoutNext == TypeInv /\ NoTimeout /\ [Next]_vars => NoTimeout'
<1> SUFFICES ASSUME TypeInv, NoTimeout, [Next]_vars PROVE NoTimeout'
  OBVIOUS
<1>0. timedOut \in [Thread -> BOOLEAN]
  BY DEF TypeInv, TypeOK
<1>1. ASSUME NEW w \in Thread, RelockStats(w) PROVE NoTimeout'
  BY <1>0, <1>1 DEF RelockStats, TimeoutStatus, NoTimeout
<1>2. ASSUME NEW w \in Thread, UnlockStats(w) PROVE NoTimeout'
  BY <1>0, <1>2 DEF UnlockStats, NoTimeout
<1>3. CASE UNCHANGED timedOut
  BY <1>3 DEF NoTimeout
<1>4. ASSUME NEW w \in Thread, Work(w) \/ WakeByItself(w),
             ~RelockStats(w), ~UnlockStats(w)
      PROVE  UNCHANGED timedOut
  BY <1>4 DEF Work, WorkerLoop, FetchTask, Process, LockStats, LoadIdles, StoreIdles, Wait,
     Wake, WakeByItself, WorkerExit
<1>5. ASSUME NEW c \in Clients, Executing(c) \/ \E t \in Tasks : Execute(c, t)
      PROVE  UNCHANGED timedOut
  BY <1>5 DEF Executing, ExecuteLock, ExecuteCheck, ExecuteUnlock, ExecuteNotify,
     ExecuteUnlockAgain, ExecuteGrow, Execute, workerVars
<1>6. ASSUME Initialize \/ Recycle \/ Destroy \/ Owning \/ UNCHANGED vars
      PROVE  UNCHANGED timedOut
  BY <1>6 DEF Initialize, Recycle, Destroy, Owning, InitializeEnd, DestroyNotifyAll,
     DestroyJoin, DestroyReap, vars, workerVars
<1> QED BY <1>1, <1>2, <1>3, <1>4, <1>5, <1>6 DEF Next

\* A resident never times out.
LEMMA NoTimeoutHolds == Spec => []NoTimeout
<1>1. Init => NoTimeout
  BY DEF Init, NoTimeout
<1> QED BY <1>1, NoTimeoutNext, TypeInvHolds, PTL DEF Spec

\* What a step does to a resident that runs: only a worker that saw isDestroyed_ or
\* timed out goes to its exit.
LEMMA ResidingNext ==
  TypeInv /\ RecycleSound /\ Begun /\ NoTimeout /\ Residing /\ [Next]_vars => Residing'
<1> SUFFICES ASSUME TypeInv, RecycleSound, Begun, NoTimeout, Residing, [Next]_vars,
                    isInitialize_' \/ opc' = "initialized", ~isDestroyed_',
                    NEW v \in 1..Initial
             PROVE  v \in threads_' /\ wpc'[v] \notin {"unborn", "exit", "ended"}
  BY DEF Residing
<1>0. wpc \in [Thread -> WorkerPC] /\ v \in Thread /\ Resident(v) /\ born \in Nat
  BY PoolAssumption DEF TypeInv, TypeOK, Thread, Resident
<1> DEFINE Before == (isInitialize_ \/ opc = "initialized") /\ ~isDestroyed_
<1>b. Before => v \in threads_ /\ wpc[v] \notin {"unborn", "exit", "ended"}
  BY DEF Residing
<1>1. ASSUME NEW w \in Thread, Work(w) \/ WakeByItself(w)
      PROVE  v \in threads_' /\ wpc'[v] \notin {"unborn", "exit", "ended"}
  <2>1. UNCHANGED <<isInitialize_, isDestroyed_, threads_, opc>>
    BY <1>1 DEF Work, WorkerLoop, FetchTask, Process, LockStats, LoadIdles, StoreIdles, Wait,
       Wake, WakeByItself, RelockStats, UnlockStats, WorkerExit, poolVars
  <2>2. v \in threads_ /\ wpc[v] \notin {"unborn", "exit", "ended"} /\ ~isDestroyed_
    BY <1>b, <2>1
  <2>3. wpc'[v] \notin {"unborn", "exit", "ended"}
    <3>1. CASE w = v /\ (WorkerLoop(w) \/ UnlockStats(w))
      BY <1>0, <2>2, <3>1 DEF WorkerLoop, UnlockStats, Goto, NoTimeout
    <3>2. CASE w = v /\ ~WorkerLoop(w) /\ ~UnlockStats(w)
      BY <1>0, <1>1, <2>2, <3>2 DEF Work, FetchTask, Process, LockStats, LoadIdles, StoreIdles,
         Wait, Wake, WakeByItself, RelockStats, WorkerExit, Goto
    <3>3. CASE w # v
      BY <1>0, <1>1, <2>2, <3>3 DEF Work, WorkerLoop, FetchTask, Process, LockStats, LoadIdles,
         StoreIdles, Wait, Wake, WakeByItself, RelockStats, UnlockStats, WorkerExit, Goto
    <3> QED BY <3>1, <3>2, <3>3
  <2> QED BY <2>1, <2>2, <2>3
<1>2. ASSUME NEW c \in Clients, Executing(c)
      PROVE  v \in threads_' /\ wpc'[v] \notin {"unborn", "exit", "ended"}
  <2>1. UNCHANGED <<isInitialize_, isDestroyed_, opc>>
        /\ (UNCHANGED <<threads_, wpc>> \/ Spawn(Grow))
    BY <1>2 DEF Executing, ExecuteLock, ExecuteCheck, ExecuteUnlock, ExecuteNotify,
       ExecuteUnlockAgain, ExecuteGrow, poolVars, workerVars
  <2> QED BY <1>b, <1>0, <2>1, SpawnFacts, PoolAssumption
<1>3. ASSUME NEW c \in Clients, NEW t \in Tasks, Execute(c, t)
      PROVE  v \in threads_' /\ wpc'[v] \notin {"unborn", "exit", "ended"}
  BY <1>b, <1>3 DEF Execute, poolVars, workerVars
<1>4. CASE Initialize
  <2>1. Spawn(Initial) /\ born = 0
    BY <1>4 DEF Initialize, Begun
  <2>2. v \in New(Initial)
    BY <2>1, PoolAssumption DEF New
  <2> QED BY <2>1, <2>2, SpawnFacts, PoolAssumption
<1>5. CASE Recycle \/ DestroyReap
  <2>1. Before /\ UNCHANGED wpc /\ Reap
    BY <1>5 DEF Recycle, DestroyReap, workerVars
  <2>2. v \notin RangeOf(recycle_)
    BY <1>b, <2>1 DEF RecycleSound
  <2> QED BY <1>b, <2>1, <2>2 DEF Reap
<1>6. CASE Destroy
  BY <1>6 DEF Destroy
<1>7. CASE InitializeEnd \/ DestroyNotifyAll \/ DestroyJoin \/ UNCHANGED vars
  <2>1. Before /\ UNCHANGED <<threads_, wpc>>
    BY <1>7 DEF InitializeEnd, DestroyNotifyAll, DestroyJoin, vars, poolVars, workerVars
  <2> QED BY <1>b, <2>1
<1> QED BY <1>1, <1>2, <1>3, <1>4, <1>5, <1>6, <1>7 DEF Next, Owning

\* threadpool.h:20: from initialize() to destroy() the initial threads are in the pool
\* and do not end, whatever times out, wakes up or is recycled.
THEOREM Residence == Spec => []ResidentsStay
<1>1. Init => Residing
  BY DEF Init, Residing
<1>2. Residing => ResidentsStay
  BY DEF Residing, ResidentsStay
<1> QED BY <1>1, <1>2, ResidingNext, BegunHolds, NoTimeoutHolds, Recycling, TypeInvHolds, PTL
    DEF Spec

-----------------------------------------------------------------------------
\* A batch of threads adds its number to the size of the pool, at most.
LEMMA SpawnSize ==
  ASSUME TypeInv, NEW n \in Nat, Spawn(n)
  PROVE  Cardinality(threads_') =< Cardinality(threads_) + n
<1>1. threads_' = threads_ \cup New(n)
  BY DEF Spawn
<1>2. IsFiniteSet(threads_) /\ Cardinality(threads_) \in Nat
  BY ThreadFinite DEF TypeInv, TypeOK
<1>3. IsFiniteSet(New(n)) /\ Cardinality(New(n)) = n
  <2>1. born \in Nat /\ born + 1 \in Int /\ born + n \in Int
    BY PoolAssumption DEF TypeInv, TypeOK
  <2>2. /\ IsFiniteSet((born + 1)..(born + n))
        /\ Cardinality((born + 1)..(born + n)) =
             IF born + 1 > born + n THEN 0 ELSE born + n - (born + 1) + 1
    BY <2>1, FS_Interval
  <2> QED BY <2>1, <2>2 DEF New
<1>4. /\ Cardinality(threads_ \cup New(n)) =
           Cardinality(threads_) + Cardinality(New(n)) - Cardinality(threads_ \cap New(n))
      /\ IsFiniteSet(threads_ \cap New(n))
  BY <1>2, <1>3, FS_Union, FS_Intersection
<1>5. Cardinality(threads_ \cap New(n)) \in Nat
  BY <1>4, FS_CardinalityType
<1> QED BY <1>1, <1>2, <1>3, <1>4, <1>5

\* Every step keeps the pool within its size.
LEMMA SizeNext == TypeInv /\ Begun /\ SizeBounded /\ [Next]_vars => SizeBounded'
<1> SUFFICES ASSUME TypeInv, Begun, SizeBounded, [Next]_vars PROVE SizeBounded'
  OBVIOUS
<1>0. /\ threads_ \subseteq Thread /\ IsFiniteSet(threads_) /\ Cardinality(threads_) \in Nat
  BY ThreadFinite DEF TypeInv, TypeOK
<1>a. ASSUME UNCHANGED threads_ PROVE SizeBounded'
  BY <1>a DEF SizeBounded
<1>b. ASSUME Reap PROVE SizeBounded'
  <2>1. threads_' \in SUBSET threads_
    BY <1>b DEF Reap
  <2>2. Cardinality(threads_') =< Cardinality(threads_) /\ Cardinality(threads_') \in Nat
    BY <1>0, <2>1, FS_Subset, FS_CardinalityType
  <2> QED BY <1>0, <2>2, PoolAssumption DEF SizeBounded
<1>1. ASSUME NEW w \in Thread, Work(w) \/ WakeByItself(w) PROVE SizeBounded'
  <2>1. UNCHANGED threads_
    BY <1>1 DEF Work, WorkerLoop, FetchTask, Process, LockStats, LoadIdles, StoreIdles, Wait,
       Wake, WakeByItself, RelockStats, UnlockStats, WorkerExit, poolVars
  <2> QED BY <1>a, <2>1
<1>2. ASSUME NEW c \in Clients, Executing(c) PROVE SizeBounded'
  <2>1. CASE ExecuteGrow(c) /\ ~Full
    <3>1. Spawn(Grow) /\ Cardinality(threads_) < Max
      BY <1>0, <2>1, PoolAssumption DEF ExecuteGrow, Full
    <3>2. Cardinality(threads_') =< Cardinality(threads_) + Grow
      BY <3>1, SpawnSize, PoolAssumption
    <3>3. threads_' \subseteq Thread
      BY <3>1, PoolAssumption, SpawnTyped, SpawnFacts DEF TypeInv, TypeOK
    <3>4. Cardinality(threads_') \in Nat
      BY <3>3, ThreadFinite
    <3> QED BY <1>0, <3>1, <3>2, <3>4, PoolAssumption DEF SizeBounded
  <2>2. CASE ~(ExecuteGrow(c) /\ ~Full)
    <3>1. UNCHANGED threads_
      BY <1>2, <2>2 DEF Executing, ExecuteLock, ExecuteCheck, ExecuteUnlock, ExecuteNotify,
         ExecuteUnlockAgain, ExecuteGrow, poolVars
    <3> QED BY <1>a, <3>1
  <2> QED BY <2>1, <2>2
<1>3. ASSUME NEW c \in Clients, NEW t \in Tasks, Execute(c, t) PROVE SizeBounded'
  BY <1>3, <1>a DEF Execute, poolVars
<1>4. CASE Initialize
  <2>1. Spawn(Initial) /\ threads_ = {}
    <3>1. Spawn(Initial) /\ born = 0
      BY <1>4 DEF Initialize, Begun
    <3> QED BY <3>1 DEF Begun
  <2>2. Cardinality(threads_) = 0
    BY <2>1, FS_EmptySet
  <2>3. Cardinality(threads_') =< 0 + Initial
    BY <2>1, <2>2, SpawnSize, PoolAssumption
  <2>4. threads_' \subseteq Thread
    BY <1>0, <2>1, PoolAssumption, SpawnFacts
  <2>5. Cardinality(threads_') \in Nat
    BY <2>4, ThreadFinite
  <2> QED BY <2>3, <2>5, PoolAssumption DEF SizeBounded
<1>5. CASE Recycle \/ DestroyReap
  BY <1>5, <1>b DEF Recycle, DestroyReap
<1>6. CASE Destroy \/ InitializeEnd \/ DestroyNotifyAll \/ DestroyJoin \/ UNCHANGED vars
  BY <1>6, <1>a DEF Destroy, InitializeEnd, DestroyNotifyAll, DestroyJoin, vars, poolVars
<1> QED BY <1>1, <1>2, <1>3, <1>4, <1>5, <1>6 DEF Next, Owning

\* threadpool.cpp:66: the size test before each batch of grow_ threads, repeated by any
\* number of clients, keeps the pool at max_ - 1 + grow_ threads or its initial size.
THEOREM PoolSize == Spec => []SizeBounded
<1>1. Init => SizeBounded
  BY FS_EmptySet, PoolAssumption DEF Init, SizeBounded
<1> QED BY <1>1, SizeNext, BegunHolds, TypeInvHolds, PTL DEF Spec

-----------------------------------------------------------------------------
\* No worker looks at the queue, runs a task or waits ...
Quiet == \A w \in Thread : wpc[w] \in {"unborn", "loop", "exit", "ended"}

\* ... and none will, since each of them reads isDestroyed_ next.
Over == isDestroyed_ /\ Quiet

Destroying == opc \in {"notifyAll", "join", "reap"} => isDestroyed_
JoinedIsOver == opc = "reap" => Over

\* A destroyed pool whose workers are at rest stays so.
LEMMA OverStays == TypeInv /\ Over /\ [Next]_vars => Over'
<1> SUFFICES ASSUME TypeInv, Over, [Next]_vars PROVE Over'
  OBVIOUS
<1>0. wpc \in [Thread -> WorkerPC]
  BY DEF TypeInv, TypeOK
<1>1. isDestroyed_'
  <2>1. ASSUME NEW w \in Thread, Work(w) \/ WakeByItself(w) PROVE isDestroyed_' = isDestroyed_
    BY <2>1 DEF Work, WorkerLoop, FetchTask, Process, LockStats, LoadIdles, StoreIdles, Wait,
       Wake, WakeByItself, RelockStats, UnlockStats, WorkerExit, poolVars
  <2>2. ASSUME NEW c \in Clients, Executing(c) \/ \E t \in Tasks : Execute(c, t)
        PROVE  isDestroyed_' = isDestroyed_
    BY <2>2 DEF Executing, ExecuteLock, ExecuteCheck, ExecuteUnlock, ExecuteNotify,
       ExecuteUnlockAgain, ExecuteGrow, Execute, poolVars
  <2>3. ASSUME Initialize \/ Recycle \/ Destroy \/ Owning \/ UNCHANGED vars
        PROVE  isDestroyed_' \/ isDestroyed_' = isDestroyed_
    BY <2>3 DEF Initialize, Recycle, Destroy, Owning, InitializeEnd, DestroyNotifyAll,
       DestroyJoin, DestroyReap, vars, poolVars
  <2> QED BY <2>1, <2>2, <2>3 DEF Next, Over
<1>2. Quiet'
  <2>1. ASSUME NEW w \in Thread, Work(w) \/ WakeByItself(w) PROVE Quiet'
    <3>1. WorkerLoop(w) \/ WorkerExit(w)
      BY <2>1 DEF Over, Quiet, Work, FetchTask, Process, LockStats, LoadIdles, StoreIdles, Wait,
         Wake, WakeByItself, RelockStats, UnlockStats, Goto
    <3> QED BY <1>0, <3>1 DEF WorkerLoop, WorkerExit, Goto, Over, Quiet
  <2>2. ASSUME Spawn(Grow) \/ Spawn(Initial) \/ UNCHANGED wpc PROVE Quiet'
    <3>1. CASE UNCHANGED wpc
      BY <3>1 DEF Over, Quiet
    <3>2. ASSUME NEW n \in Nat, Spawn(n) PROVE Quiet'
      BY <3>2, SpawnFacts DEF Over, Quiet
    <3> QED BY <2>2, <3>1, <3>2, PoolAssumption
  <2>3. ASSUME NEW c \in Clients, Executing(c) \/ \E t \in Tasks : Execute(c, t)
        PROVE  Spawn(Grow) \/ UNCHANGED wpc
    BY <2>3 DEF Executing, ExecuteLock, ExecuteCheck, ExecuteUnlock, ExecuteNotify,
       ExecuteUnlockAgain, ExecuteGrow, Execute, workerVars
  <2>4. ASSUME Initialize \/ Recycle \/ Destroy \/ Owning \/ UNCHANGED vars
        PROVE  Spawn(Initial) \/ UNCHANGED wpc
    BY <2>4 DEF Initialize, Recycle, Destroy, Owning, InitializeEnd, DestroyNotifyAll,
       DestroyJoin, DestroyReap, vars, workerVars
  <2> QED BY <2>1, <2>2, <2>3, <2>4 DEF Next
<1> QED BY <1>1, <1>2 DEF Over

\* When destroy's wait is over, so is every worker.
LEMMA JoinedNext ==
  TypeInv /\ RecycleSound /\ Destroying /\ JoinedIsOver /\ [Next]_vars
    => Destroying' /\ JoinedIsOver'
<1> SUFFICES ASSUME TypeInv, RecycleSound, Destroying, JoinedIsOver, [Next]_vars
             PROVE  Destroying' /\ JoinedIsOver'
  OBVIOUS
<1>1. CASE UNCHANGED <<opc, isDestroyed_>>
  BY <1>1, OverStays DEF Destroying, JoinedIsOver
<1>2. CASE DestroyJoin
  <2>1. isDestroyed_' /\ opc' = "reap" /\ UNCHANGED wpc
    BY <1>2 DEF DestroyJoin, Destroying, poolVars, workerVars
  <2>2. \A w \in Thread : wpc[w] \in {"unborn", "ended"}
    BY <1>2, SizesAgree DEF DestroyJoin, RecycleSound
  <2> QED BY <2>1, <2>2 DEF Destroying, JoinedIsOver, Over, Quiet
<1>3. CASE Initialize \/ InitializeEnd \/ Destroy \/ DestroyNotifyAll \/ DestroyReap
  BY <1>3 DEF Initialize, InitializeEnd, Destroy, DestroyNotifyAll, DestroyReap, Destroying,
     JoinedIsOver, poolVars
<1>4. CASE Recycle \/ UNCHANGED vars
  BY <1>1, <1>4 DEF Recycle, vars, poolVars
<1>5. ASSUME NEW w \in Thread, Work(w) \/ WakeByItself(w) PROVE UNCHANGED <<opc, isDestroyed_>>
  BY <1>5 DEF Work, WorkerLoop, FetchTask, Process, LockStats, LoadIdles, StoreIdles, Wait,
     Wake, WakeByItself, RelockStats, UnlockStats, WorkerExit, poolVars
<1>6. ASSUME NEW c \in Clients, Executing(c) \/ \E t \in Tasks : Execute(c, t)
      PROVE  UNCHANGED <<opc, isDestroyed_>>
  BY <1>6 DEF Executing, ExecuteLock, ExecuteCheck, ExecuteUnlock, ExecuteNotify,
     ExecuteUnlockAgain, ExecuteGrow, Execute, poolVars
<1> QED BY <1>1, <1>2, <1>3, <1>4, <1>5, <1>6 DEF Next, Owning

\* Once destroy's wait is over no task is running and none is ever started, not even
\* by threads that an execute racing with destroy still creates.
THEOREM DestroyIsFinal == Spec => QuietAfterJoin
<1>1. Init => Destroying /\ JoinedIsOver
  BY DEF Init, Destroying, JoinedIsOver
<1>2. Spec => [](JoinedIsOver)
  BY <1>1, JoinedNext, Recycling, TypeInvHolds, PTL DEF Spec
<1>3. JoinedIsOver => (opc = "reap" => Over)
  BY DEF JoinedIsOver
<1>4. Over => \A w \in Thread : wpc[w] \in {"unborn", "loop", "exit", "ended"}
  BY DEF Over, Quiet
<1> QED BY <1>2, <1>3, <1>4, OverStays, TypeInvHolds, PTL DEF Spec, QuietAfterJoin

-----------------------------------------------------------------------------
(* The tasks: the queue is a FIFO and every task is processed at most      *)
(* once, by any number of workers.                                         *)

\* Steps that are neither a push nor a fetch leave the tasks alone.
LEMMA QuietWorker ==
  ASSUME NEW w \in Thread, Work(w) \/ WakeByItself(w), ~FetchTask(w), ~Process(w)
  PROVE  UNCHANGED <<taskVars, cur, clientVars>>
BY DEF Work, WorkerLoop, LockStats, LoadIdles, StoreIdles, Wait, Wake, WakeByItself,
   RelockStats, UnlockStats, WorkerExit

\* A client at its call moves no task.
LEMMA QuietClient ==
  ASSUME NEW c \in Clients, Executing(c)
  PROVE  UNCHANGED <<taskVars, cur>>
BY DEF Executing, ExecuteLock, ExecuteCheck, ExecuteUnlock, ExecuteNotify, ExecuteUnlockAgain,
   ExecuteGrow, workerVars

\* The owner moves no task.
LEMMA QuietOwner ==
  ASSUME Initialize \/ Recycle \/ Destroy \/ Owning \/ UNCHANGED vars
  PROVE  UNCHANGED <<taskVars, cur, clientVars>>
BY DEF Initialize, Recycle, Destroy, Owning, InitializeEnd, DestroyNotifyAll, DestroyJoin,
   DestroyReap, vars, workerVars

\* Taking the head of the second of two sequences to the end of the first.
LEMMA MoveHead ==
  ASSUME NEW S, NEW s \in Seq(S), NEW t \in Seq(S), t # <<>>
  PROVE  Append(s, Head(t)) \o Tail(t) = s \o t
<1>1. Head(t) \in S /\ Tail(t) \in Seq(S) /\ <<Head(t)>> \in Seq(S)
  OBVIOUS
<1>2. Append(s, Head(t)) = s \o <<Head(t)>>
  BY <1>1, AppendIsConcat
<1>3. (s \o <<Head(t)>>) \o Tail(t) = s \o (<<Head(t)>> \o Tail(t))
  BY <1>1, ConcatAssociative
<1>4. <<Head(t)>> \o Tail(t) = t
  <2> DEFINE u == <<Head(t)>> \o Tail(t)
  <2>1. u \in Seq(S) /\ Len(u) = 1 + Len(Tail(t))
        /\ \A i \in 1..1 + Len(Tail(t)) : u[i] = IF i =< 1 THEN <<Head(t)>>[i] ELSE Tail(t)[i - 1]
    BY <1>1, ConcatProperties
  <2>2. Len(Tail(t)) = Len(t) - 1 /\ \A i \in 1..Len(Tail(t)) : Tail(t)[i] = t[i + 1]
    BY HeadTailProperties
  <2>3. Len(u) = Len(t) /\ \A i \in 1..Len(u) : u[i] = t[i]
    BY <1>1, <2>1, <2>2
  <2> HIDE DEF u
  <2> QED BY <2>1, <2>3, SeqEqual
<1> QED BY <1>2, <1>3, <1>4

\* Appending to the second of two lists appends to both.
LEMMA PushLast ==
  ASSUME NEW s \in Seq(Tasks), NEW t \in Seq(Tasks), NEW e \in Tasks
  PROVE  Append(s \o t, e) = s \o Append(t, e)
<1>1. s \o t \in Seq(Tasks) /\ <<e>> \in Seq(Tasks)
  BY ConcatProperties
<1>2. Append(s \o t, e) = (s \o t) \o <<e>> /\ Append(t, e) = t \o <<e>>
  BY <1>1, AppendIsConcat
<1> QED BY <1>1, <1>2, ConcatAssociative

\* Every step keeps what was pushed equal to what was fetched and what is queued.
LEMMA FifoNext == TypeInv /\ FirstInFirstOut /\ [Next]_vars => FirstInFirstOut'
<1> SUFFICES ASSUME TypeInv, FirstInFirstOut, [Next]_vars PROVE FirstInFirstOut'
  OBVIOUS
<1>0. tasks_ \in Seq(Tasks) /\ started \in Seq(Tasks)
  BY DEF TypeInv, TypeOK
<1>a. ASSUME UNCHANGED taskVars PROVE FirstInFirstOut'
  BY <1>a DEF taskVars, FirstInFirstOut
<1>1. ASSUME NEW w \in Thread, FetchTask(w) PROVE FirstInFirstOut'
  <2>1. CASE tasks_ = <<>>
    BY <1>1, <1>a, <2>1 DEF FetchTask
  <2>2. CASE tasks_ # <<>>
    <3>1. started' = Append(started, Head(tasks_)) /\ tasks_' = Tail(tasks_) /\ queued' = queued
      BY <1>1, <2>2 DEF FetchTask, PopFront
    <3> QED BY <1>0, <2>2, <3>1, MoveHead DEF FirstInFirstOut
  <2> QED BY <2>1, <2>2
<1>2. ASSUME NEW w \in Thread, Process(w) PROVE FirstInFirstOut'
  BY <1>2 DEF Process, FirstInFirstOut
<1>3. ASSUME NEW w \in Thread, Work(w) \/ WakeByItself(w), ~FetchTask(w), ~Process(w)
      PROVE  FirstInFirstOut'
  BY <1>3, <1>a, QuietWorker
<1>4. ASSUME NEW c \in Clients, Executing(c) PROVE FirstInFirstOut'
  BY <1>4, <1>a, QuietClient
<1>5. ASSUME NEW c \in Clients, NEW t \in Tasks, Execute(c, t) PROVE FirstInFirstOut'
  <2>1. started' = started /\ (UNCHANGED <<tasks_, queued>>
          \/ (tasks_' = Append(tasks_, t) /\ queued' = Append(queued, t)))
    BY <1>5 DEF Execute, Push
  <2>2. Append(started \o tasks_, t) = started \o Append(tasks_, t)
    BY <1>0, PushLast
  <2> QED BY <2>1, <2>2 DEF FirstInFirstOut
<1>6. CASE Initialize \/ Recycle \/ Destroy \/ Owning \/ UNCHANGED vars
  BY <1>6, <1>a, QuietOwner
<1> QED BY <1>1, <1>2, <1>3, <1>4, <1>5, <1>6 DEF Next

\* Tasks are started in the order execute pushed them and none disappears.
THEOREM Fifo == Spec => []FirstInFirstOut
<1>1. Init => FirstInFirstOut
  BY ConcatEmptySeq, EmptySeq DEF Init, FirstInFirstOut
<1> QED BY <1>1, FifoNext, TypeInvHolds, PTL DEF Spec

-----------------------------------------------------------------------------
\* No task is pushed twice, because a task that was pushed is in the hands of the
\* client that submits it, or was answered.
Distinct == \A i, j \in 1..Len(queued) : queued[i] = queued[j] => i = j
Submitted == \A i \in 1..Len(queued) :
  result[queued[i]] # "none" \/ \E c \in Clients : arg[c] = queued[i]
InHand == \A c \in Clients : cpc[c] = "out" <=> arg[c] = NoTask

PushInv == Distinct /\ Submitted /\ InHand

\* Every step keeps the tasks in the order they were pushed.
LEMMA PushNext == TypeInv /\ PushInv /\ [Next]_vars => PushInv'
<1> SUFFICES ASSUME TypeInv, PushInv, [Next]_vars PROVE PushInv'
  OBVIOUS
<1>0. /\ queued \in Seq(Tasks) /\ cpc \in [Clients -> ClientPC]
      /\ arg \in [Clients -> Tasks \cup {NoTask}] /\ result \in [Tasks -> Result]
  BY DEF TypeInv, TypeOK
<1>a. ASSUME UNCHANGED <<queued, clientVars>> PROVE PushInv'
  BY <1>a DEF clientVars, PushInv, Distinct, Submitted, InHand
<1>1. ASSUME NEW w \in Thread, Work(w) \/ WakeByItself(w) PROVE PushInv'
  <2>1. CASE FetchTask(w)
    BY <1>a, <2>1 DEF FetchTask, taskVars
  <2>2. CASE Process(w)
    BY <1>a, <2>2 DEF Process
  <2>3. CASE ~FetchTask(w) /\ ~Process(w)
    BY <1>1, <1>a, <2>3, QuietWorker DEF taskVars
  <2> QED BY <2>1, <2>2, <2>3
<1>2. ASSUME NEW c \in Clients, Executing(c) PROVE PushInv'
  <2>1. queued' = queued
    BY <1>2, QuietClient DEF taskVars
  <2>2. CASE \E r \in {"notified", "full", "grown"} : cpc[c] # "out" /\ Return(c, "out", r)
    <3>1. PICK r \in {"notified", "full", "grown"} : cpc[c] # "out" /\ Return(c, "out", r)
      BY <2>2
    <3>2. arg[c] \in Tasks
      BY <1>0, <3>1 DEF PushInv, InHand
    <3>3. Submitted'
      <4> SUFFICES ASSUME NEW i \in 1..Len(queued)
                   PROVE  result'[queued[i]] # "none" \/ \E d \in Clients : arg'[d] = queued[i]
        BY <2>1 DEF Submitted
      <4>1. queued[i] \in Tasks
        BY <1>0
      <4>2. CASE queued[i] = arg[c]
        BY <1>0, <3>1, <3>2, <4>2 DEF Return
      <4>3. CASE queued[i] # arg[c]
        BY <1>0, <3>1, <4>1, <4>3 DEF Return, PushInv, Submitted
      <4> QED BY <4>2, <4>3
    <3>4. InHand'
      BY <1>0, <3>1 DEF Return, PushInv, InHand
    <3> QED BY <2>1, <3>3, <3>4 DEF PushInv, Distinct
  <2>3. CASE cpc[c] # "out" /\ cpc'[c] # "out" /\ UNCHANGED <<arg, result>>
             /\ \A d \in Clients \ {c} : cpc'[d] = cpc[d]
    BY <2>1, <2>3 DEF PushInv, Distinct, Submitted, InHand
  <2>4. ExecuteUnlockAgain(c) => cpc[c] # "out" /\ Return(c, "out", "notified")
    BY DEF ExecuteUnlockAgain
  <2>5. ExecuteGrow(c) => cpc[c] # "out" /\ (Return(c, "out", "full") \/ Return(c, "out", "grown"))
    BY DEF ExecuteGrow
  <2>6. ASSUME ~ExecuteUnlockAgain(c), ~ExecuteGrow(c)
        PROVE  cpc[c] # "out" /\ cpc'[c] # "out" /\ UNCHANGED <<arg, result>>
               /\ \A d \in Clients \ {c} : cpc'[d] = cpc[d]
    BY <1>0, <1>2, <2>6 DEF Executing, ExecuteLock, ExecuteCheck, ExecuteUnlock, ExecuteNotify, Step
  <2> QED BY <2>2, <2>3, <2>4, <2>5, <2>6
<1>3. ASSUME NEW c \in Clients, NEW t \in Tasks, Execute(c, t) PROVE PushInv'
  <2>1. cpc[c] = "out" /\ result[t] = "none" /\ \A d \in Clients : arg[d] # t
    BY <1>3 DEF Execute
  <2>2. \A i \in 1..Len(queued) : queued[i] \in Tasks /\ queued[i] # t
    BY <1>0, <2>1 DEF PushInv, Submitted
  <2>3. CASE ~isInitialize_
    <3>1. result' = [result EXCEPT ![t] = "uninitialized"] /\ UNCHANGED <<cpc, arg, queued>>
      BY <1>3, <2>3 DEF Execute
    <3> QED BY <1>0, <2>2, <3>1 DEF PushInv, Distinct, Submitted, InHand
  <2>4. CASE isInitialize_
    <3>1. /\ cpc' = [cpc EXCEPT ![c] = "lock"] /\ arg' = [arg EXCEPT ![c] = t]
          /\ queued' = Append(queued, t) /\ UNCHANGED result
      BY <1>3, <2>4 DEF Execute
    <3>2. /\ Len(queued') = Len(queued) + 1 /\ Len(queued) \in Nat
          /\ \A i \in 1..Len(queued) : queued'[i] = queued[i]
          /\ queued'[Len(queued) + 1] = t
      BY <1>0, <3>1
    <3>3. Distinct'
      BY <2>2, <3>2 DEF PushInv, Distinct
    <3>4. arg[c] = NoTask /\ NoTask \notin Tasks
      BY <2>1, PoolAssumption DEF PushInv, InHand
    <3>5. Submitted'
      <4> SUFFICES ASSUME NEW i \in 1..Len(queued')
                   PROVE  result[queued'[i]] # "none" \/ \E d \in Clients : arg'[d] = queued'[i]
        BY <3>1 DEF Submitted
      <4>1. CASE i = Len(queued) + 1
        BY <1>0, <3>1, <3>2, <4>1
      <4>2. CASE i # Len(queued) + 1
        <5>1. i \in 1..Len(queued) /\ queued'[i] = queued[i] /\ queued[i] # NoTask
          BY <2>2, <3>2, <3>4, <4>2
        <5>2. result[queued[i]] # "none" \/ \E d \in Clients : arg[d] = queued[i]
          BY <5>1 DEF PushInv, Submitted
        <5>3. \A d \in Clients : arg[d] = queued[i] => arg'[d] = queued[i]
          BY <1>0, <3>1, <3>4, <5>1
        <5> QED BY <5>1, <5>2, <5>3
      <4> QED BY <4>1, <4>2
    <3>6. InHand'
      BY <1>0, <3>1, <3>4 DEF PushInv, InHand
    <3> QED BY <3>3, <3>5, <3>6 DEF PushInv
  <2> QED BY <2>3, <2>4
<1>4. CASE Initialize \/ Recycle \/ Destroy \/ Owning \/ UNCHANGED vars
  BY <1>4, <1>a, QuietOwner DEF taskVars
<1> QED BY <1>1, <1>2, <1>3, <1>4 DEF Next

\* The tasks are in the order they were pushed.
LEMMA PushHolds == Spec => []PushInv
<1>1. Init => PushInv
  BY DEF Init, PushInv, Distinct, Submitted, InHand
<1> QED BY <1>1, PushNext, TypeInvHolds, PTL DEF Spec

-----------------------------------------------------------------------------
\* ProcessedOnce without its first conjunct, which is Distinct.
InWork ==
  /\ \A v, w \in Thread : cur[v] = cur[w] /\ cur[v] # NoTask => v = w
  /\ \A w \in Thread : cur[w] # NoTask => cur[w] \notin done
  /\ RangeOf(started) = done \cup ({cur[w] : w \in Thread} \ {NoTask})

\* The head of the queue was not fetched before.
LEMMA HeadIsNew ==
  ASSUME TypeInv, FirstInFirstOut, Distinct, tasks_ # <<>>
  PROVE  Head(tasks_) \notin RangeOf(started)
<1>1. /\ tasks_ \in Seq(Tasks) /\ started \in Seq(Tasks)
      /\ queued = started \o tasks_
  BY DEF TypeInv, TypeOK, FirstInFirstOut
<1>2. /\ Len(queued) = Len(started) + Len(tasks_)
      /\ \A i \in 1..Len(started) + Len(tasks_) :
           queued[i] = IF i =< Len(started) THEN started[i] ELSE tasks_[i - Len(started)]
  BY <1>1, ConcatProperties
<1>3. /\ Len(started) \in Nat /\ Len(tasks_) \in Nat \ {0}
      /\ Head(tasks_) = tasks_[1]
  BY <1>1
<1>4. queued[Len(started) + 1] = Head(tasks_)
  <2>1. Len(started) + 1 \in 1..Len(started) + Len(tasks_) /\ ~(Len(started) + 1 =< Len(started))
        /\ Len(started) + 1 - Len(started) = 1
    BY <1>3
  <2>2. queued[Len(started) + 1] = tasks_[Len(started) + 1 - Len(started)]
    BY <1>2, <2>1
  <2> QED BY <1>3, <2>1, <2>2
<1>5. \A i \in 1..Len(started) : queued[i] = started[i] /\ i # Len(started) + 1
  BY <1>2, <1>3
<1>6. \A i \in 1..Len(started) : started[i] # Head(tasks_)
  BY <1>2, <1>3, <1>4, <1>5 DEF Distinct
<1> QED BY <1>6 DEF RangeOf

\* Every step keeps each task started with one worker, or done.
LEMMA InWorkNext ==
  TypeInv /\ FirstInFirstOut /\ Distinct /\ InWork /\ [Next]_vars => InWork'
<1> SUFFICES ASSUME TypeInv, FirstInFirstOut, Distinct, InWork, [Next]_vars PROVE InWork'
  OBVIOUS
<1>0. /\ cur \in [Thread -> Tasks \cup {NoTask}] /\ tasks_ \in Seq(Tasks)
      /\ started \in Seq(Tasks) /\ NoTask \notin Tasks
  BY PoolAssumption DEF TypeInv, TypeOK
<1>a. ASSUME UNCHANGED <<started, done, cur>> PROVE InWork'
  <2>1. RangeOf(started)' = RangeOf(started)
    BY <1>a DEF RangeOf
  <2> QED BY <1>a, <2>1 DEF InWork
<1>1. ASSUME NEW w \in Thread, FetchTask(w) PROVE InWork'
  <2>1. CASE tasks_ = <<>>
    BY <1>1, <1>a, <2>1 DEF FetchTask, taskVars
  <2>2. CASE tasks_ # <<>>
    <3> DEFINE h == Head(tasks_)
    <3>1. /\ started' = Append(started, h) /\ done' = done
          /\ cur' = [cur EXCEPT ![w] = h] /\ wpc[w] = "fetch"
      BY <1>1, <2>2 DEF FetchTask, Goto
    <3>2. h \in Tasks /\ h \notin RangeOf(started)
      BY <1>0, <2>2, HeadIsNew
    <3> HIDE DEF h
    <3>3. cur[w] = NoTask
      BY <3>1 DEF TypeInv, Holding
    <3>4. /\ Len(started') = Len(started) + 1 /\ Len(started) \in Nat
          /\ \A i \in 1..Len(started) : started'[i] = started[i]
          /\ started'[Len(started) + 1] = h
      BY <1>0, <3>1, <3>2
    <3>5. RangeOf(started') = RangeOf(started) \cup {h}
      BY <3>4 DEF RangeOf
    <3>6. {cur'[v] : v \in Thread} \ {NoTask} = ({cur[v] : v \in Thread} \ {NoTask}) \cup {h}
      BY <1>0, <3>1, <3>2, <3>3
    <3>7. h \notin done /\ \A v \in Thread : cur[v] # h
      BY <1>0, <3>2 DEF InWork
    <3>8. \A v \in Thread : cur'[v] = IF v = w THEN h ELSE cur[v]
      BY <1>0, <3>1
    <3>9. RangeOf(started') = done' \cup ({cur'[v] : v \in Thread} \ {NoTask})
      BY <3>1, <3>5, <3>6 DEF InWork
    <3>10. /\ \A u, v \in Thread : cur'[u] = cur'[v] /\ cur'[u] # NoTask => u = v
           /\ \A v \in Thread : cur'[v] # NoTask => cur'[v] \notin done'
      BY <3>1, <3>7, <3>8 DEF InWork
    <3> QED BY <3>9, <3>10 DEF InWork
  <2> QED BY <2>1, <2>2
<1>2. ASSUME NEW w \in Thread, Process(w) PROVE InWork'
  <2>1. /\ started' = started /\ done' = done \cup {cur[w]}
        /\ cur' = [cur EXCEPT ![w] = NoTask] /\ wpc[w] = "process"
    BY <1>2 DEF Process, Goto
  <2>2. cur[w] # NoTask
    BY <2>1 DEF TypeInv, Holding
  <2>3. \A v \in Thread : cur'[v] = IF v = w THEN NoTask ELSE cur[v]
    BY <1>0, <2>1
  <2>4. \A v \in Thread : v # w => cur[v] # cur[w]
    BY <2>2 DEF InWork
  <2>5. {cur'[v] : v \in Thread} \ {NoTask} = ({cur[v] : v \in Thread} \ {NoTask}) \ {cur[w]}
    BY <2>2, <2>3, <2>4
  <2>6. cur[w] \in {cur[v] : v \in Thread} \ {NoTask}
    BY <2>2
  <2>7. RangeOf(started') = done' \cup ({cur'[v] : v \in Thread} \ {NoTask})
    BY <2>1, <2>5, <2>6 DEF InWork
  <2>8. /\ \A u, v \in Thread : cur'[u] = cur'[v] /\ cur'[u] # NoTask => u = v
        /\ \A v \in Thread : cur'[v] # NoTask => cur'[v] \notin done'
    BY <2>1, <2>3, <2>4 DEF InWork
  <2> QED BY <2>7, <2>8 DEF InWork
<1>3. ASSUME NEW w \in Thread, Work(w) \/ WakeByItself(w), ~FetchTask(w), ~Process(w)
      PROVE  InWork'
  BY <1>3, <1>a, QuietWorker DEF taskVars
<1>4. ASSUME NEW c \in Clients, Executing(c) PROVE InWork'
  BY <1>4, <1>a, QuietClient DEF taskVars
<1>5. ASSUME NEW c \in Clients, NEW t \in Tasks, Execute(c, t) PROVE InWork'
  BY <1>5, <1>a DEF Execute, workerVars
<1>6. CASE Initialize \/ Recycle \/ Destroy \/ Owning \/ UNCHANGED vars
  BY <1>6, <1>a, QuietOwner DEF taskVars
<1> QED BY <1>1, <1>2, <1>3, <1>4, <1>5, <1>6 DEF Next

\* A task is processed at most once: no task is in the queue twice, and each fetched
\* task is either done or in the hands of exactly one worker.
THEOREM OnceOnly == Spec => []ProcessedOnce
<1>1. Init => InWork
  <2> SUFFICES ASSUME Init PROVE InWork
    OBVIOUS
  <2>1. RangeOf(started) = {} /\ done = {} /\ \A w \in Thread : cur[w] = NoTask
    BY DEF Init, RangeOf
  <2> QED BY <2>1 DEF InWork
<1>2. PushInv /\ InWork => ProcessedOnce
  BY DEF PushInv, Distinct, InWork, ProcessedOnce
<1>3. PushInv => Distinct
  BY DEF PushInv
<1> QED BY <1>1, <1>2, <1>3, InWorkNext, Fifo, PushHolds, TypeInvHolds, PTL DEF Spec

-----------------------------------------------------------------------------
(* ThreadPool implements JobQueue: the refinement mapping is the INSTANCE  *)
(* Pool of ThreadPool.  What a step of JobQueue asks of the tasks (a new   *)
(* one is pushed, a fresh one is started) follows from the invariants      *)
(* above, that the end is final and reached before destroy's wait is over  *)
(* from those of ThreadPoolListProofs.                                     *)

ImplInv ==
  /\ TypeInv /\ PushInv /\ FirstInFirstOut /\ InWork
  /\ RecycleSound /\ Destroying /\ JoinedIsOver

\* What the refinement rests on.
LEMMA ImplInvHolds == Spec => []ImplInv
<1>1. InWork /\ Distinct => ProcessedOnce
  BY DEF InWork, Distinct, ProcessedOnce
<1>2. ProcessedOnce => InWork
  BY DEF ProcessedOnce, InWork
<1>3. Init => Destroying /\ JoinedIsOver
  BY DEF Init, Destroying, JoinedIsOver
<1>4. Spec => [](Destroying /\ JoinedIsOver)
  BY <1>3, JoinedNext, Recycling, TypeInvHolds, PTL DEF Spec
<1> QED BY <1>2, <1>4, Fifo, OnceOnly, PushHolds, Recycling, TypeInvHolds, PTL DEF ImplInv

-----------------------------------------------------------------------------
\* The end of the pool is final, and nothing runs when it has come.
LEMMA EndIsFinal == ImplInv /\ ImplInv' /\ [Next]_vars => Pool!MayEnd
<1> SUFFICES ASSUME ImplInv, ImplInv', [Next]_vars PROVE Pool!MayEnd
  OBVIOUS
<1>1. (Idle <=> Quiet) /\ (Idle' <=> Quiet')
  BY DEF Idle, Quiet
<1>2. isDestroyed_ /\ Idle => (isDestroyed_ /\ Idle)'
  BY <1>1, OverStays DEF ImplInv, Over
<1>3. isDestroyed_' \in BOOLEAN /\ Idle' \in BOOLEAN
  BY DEF ImplInv, TypeInv, TypeOK, Idle
<1>4. Idle' => InWorkers' = {}
  BY DEF ImplInv, TypeInv, Holding, Idle, InWorkers
<1> QED BY <1>2, <1>3, <1>4 DEF Pool!MayEnd

\* what a job queue consists of, but for its end
jobs == <<tasks_, InWorkers, done, Owner>>

\* The jobs are a function of the queue and of who works.
LEMMA SameJobs ==
  ASSUME UNCHANGED <<tasks_, cur, done, opc>> PROVE UNCHANGED jobs
BY DEF jobs, InWorkers, Owner

\* fetchTask starts the head of the queue, which is not running or finished.
LEMMA FetchStarts ==
  ASSUME ImplInv, NEW w \in Thread, FetchTask(w)
  PROVE  Pool!Start \/ UNCHANGED jobs
<1>1. CASE tasks_ = <<>>
  BY <1>1, SameJobs DEF FetchTask, taskVars
<1>2. CASE tasks_ # <<>>
  <2>1. /\ cur' = [cur EXCEPT ![w] = Head(tasks_)] /\ tasks_' = Tail(tasks_)
        /\ wpc[w] = "fetch" /\ UNCHANGED <<done, opc>>
    BY <1>2 DEF FetchTask, PopFront, Goto
  <2>2. cur[w] = NoTask /\ cur \in [Thread -> Tasks \cup {NoTask}]
    BY <2>1 DEF ImplInv, TypeInv, TypeOK, Holding
  <2>3. Head(tasks_) \in Tasks /\ NoTask \notin Tasks
    BY <1>2, PoolAssumption DEF ImplInv, TypeInv, TypeOK
  <2>4. Head(tasks_) \notin InWorkers \cup done
    <3>1. Head(tasks_) \notin RangeOf(started)
      BY <1>2, HeadIsNew DEF ImplInv, PushInv
    <3> QED BY <3>1 DEF ImplInv, InWork, InWorkers
  <2>5. InWorkers' = InWorkers \cup {Head(tasks_)}
    BY <2>1, <2>2, <2>3 DEF InWorkers
  <2>6. Owner' = Owner
    BY <2>1 DEF Owner
  <2> QED BY <1>2, <2>1, <2>4, <2>5, <2>6 DEF Pool!Start
<1> QED BY <1>1, <1>2

\* The thread that started a job finishes it.
LEMMA ProcessFinishes ==
  ASSUME ImplInv, NEW w \in Thread, Process(w)
  PROVE  Pool!Finish(cur[w])
<1>1. /\ wpc[w] = "process" /\ cur' = [cur EXCEPT ![w] = NoTask]
      /\ done' = done \cup {cur[w]} /\ UNCHANGED <<tasks_, opc>>
  BY DEF Process, Goto
<1>2. cur[w] # NoTask /\ cur \in [Thread -> Tasks \cup {NoTask}]
  BY <1>1 DEF ImplInv, TypeInv, TypeOK, Holding
<1>3. \A v \in Thread : cur[v] = cur[w] => v = w
  BY <1>2 DEF ImplInv, InWork
<1>4. InWorkers' = InWorkers \ {cur[w]}
  BY <1>1, <1>2, <1>3 DEF InWorkers
<1>5. cur[w] \in InWorkers /\ Owner' = Owner
  BY <1>1, <1>2 DEF InWorkers, Owner
<1> QED BY <1>1, <1>4, <1>5 DEF Pool!Finish

\* execute pushes a job that was never in the queue.
LEMMA ExecuteSubmits ==
  ASSUME ImplInv, NEW c \in Clients, NEW t \in Tasks, Execute(c, t)
  PROVE  Pool!Submit(t) \/ UNCHANGED jobs
<1>1. CASE ~isInitialize_
  BY <1>1, SameJobs DEF Execute, workerVars
<1>2. CASE isInitialize_
  <2>1. /\ tasks_' = Append(tasks_, t) /\ UNCHANGED <<cur, done, opc>>
        /\ result[t] = "none" /\ \A d \in Clients : arg[d] # t
    BY <1>2 DEF Execute, Push, workerVars
  <2>2. t \notin RangeOf(queued)
    BY <2>1 DEF ImplInv, PushInv, Submitted, RangeOf
  <2>3. /\ tasks_ \in Seq(Tasks) /\ started \in Seq(Tasks) /\ queued = started \o tasks_
    BY DEF ImplInv, TypeInv, TypeOK, FirstInFirstOut
  <2>4. /\ Len(queued) = Len(started) + Len(tasks_)
        /\ \A i \in 1..Len(started) + Len(tasks_) :
             queued[i] = IF i =< Len(started) THEN started[i] ELSE tasks_[i - Len(started)]
    BY <2>3, ConcatProperties
  <2>5. t \notin RangeOf(started)
    BY <2>2, <2>3, <2>4 DEF RangeOf
  <2>6. ASSUME NEW i \in 1..Len(tasks_) PROVE tasks_[i] # t
    <3>1. /\ Len(started) + i \in 1..Len(started) + Len(tasks_)
          /\ ~(Len(started) + i =< Len(started)) /\ Len(started) + i - Len(started) = i
      BY <2>3
    <3>2. queued[Len(started) + i] = tasks_[i]
      BY <2>4, <3>1
    <3> QED BY <2>2, <2>4, <3>1, <3>2 DEF RangeOf
  <2>7. t \notin InWorkers \cup done
    BY <2>5 DEF ImplInv, InWork, InWorkers
  <2>8. DOMAIN tasks_ = 1..Len(tasks_)
    BY <2>3
  <2>9. t \notin Pool!Waiting
    BY <2>6, <2>8 DEF Pool!Waiting
  <2>10. InWorkers' = InWorkers /\ Owner' = Owner
    BY <2>1 DEF InWorkers, Owner
  <2> QED BY <2>1, <2>7, <2>9, <2>10 DEF Pool!Submit
<1> QED BY <1>1, <1>2

\* The owner's steps: only DestroyJoin is told that the pool is over.
LEMMA OwnerAsks ==
  ASSUME ImplInv, ImplInv', Initialize \/ Recycle \/ Destroy \/ Owning \/ UNCHANGED vars
  PROVE  Pool!Ask \/ Pool!Tell \/ Pool!Part \/ UNCHANGED jobs
<1>1. UNCHANGED <<tasks_, cur, done>> /\ InWorkers' = InWorkers
  BY QuietOwner DEF taskVars, InWorkers
<1>2. CASE Destroy
  BY <1>1, <1>2 DEF Destroy, Pool!Ask, Owner
<1>3. CASE DestroyJoin
  <2>1. isDestroyed_ /\ UNCHANGED wpc /\ opc = "join" /\ opc' = "reap"
    BY <1>3 DEF DestroyJoin, ImplInv, Destroying, workerVars
  <2>2. Idle
    BY <2>1 DEF ImplInv, JoinedIsOver, Over, Quiet, Idle
  <2> QED BY <1>1, <2>1, <2>2 DEF Pool!Tell, Owner
<1>4. CASE DestroyReap
  BY <1>1, <1>4 DEF DestroyReap, Pool!Part, Owner
<1>5. CASE Initialize \/ InitializeEnd \/ DestroyNotifyAll
  BY <1>1, <1>5 DEF Initialize, InitializeEnd, DestroyNotifyAll, Owner, jobs
<1>6. CASE Recycle \/ UNCHANGED vars
  BY <1>1, <1>6 DEF Recycle, vars, Owner, jobs
<1> QED BY <1>2, <1>3, <1>4, <1>5, <1>6 DEF Owning

\* Every step of the pool is a step of the queue of jobs, or none.
LEMMA StepImplements ==
  ImplInv /\ ImplInv' /\ [Next]_vars => [Pool!Next]_(Pool!vars)
<1> SUFFICES ASSUME ImplInv, ImplInv', [Next]_vars PROVE Pool!Next
  OBVIOUS
<1>0. Pool!MayEnd
  BY EndIsFinal
<1>a. ASSUME UNCHANGED jobs PROVE Pool!Next
  BY <1>0, <1>a DEF Pool!Next, jobs
<1>1. ASSUME NEW w \in Thread, FetchTask(w) PROVE Pool!Next
  BY <1>0, <1>1, <1>a, FetchStarts DEF Pool!Next
<1>2. ASSUME NEW w \in Thread, Process(w) PROVE Pool!Next
  <2>1. cur[w] \in Tasks
    BY <1>2, PoolAssumption DEF Process, Goto, ImplInv, TypeInv, TypeOK, Holding
  <2> QED BY <1>0, <1>2, <2>1, ProcessFinishes DEF Pool!Next
<1>3. ASSUME NEW w \in Thread, Work(w) \/ WakeByItself(w), ~FetchTask(w), ~Process(w)
      PROVE  Pool!Next
  <2>1. UNCHANGED opc
    BY <1>3 DEF Work, WorkerLoop, LockStats, LoadIdles, StoreIdles, Wait, Wake, WakeByItself,
       RelockStats, UnlockStats, WorkerExit
  <2> QED BY <1>3, <1>a, <2>1, QuietWorker, SameJobs DEF taskVars
<1>4. ASSUME NEW c \in Clients, Executing(c) PROVE Pool!Next
  <2>1. UNCHANGED opc
    BY <1>4 DEF Executing, ExecuteLock, ExecuteCheck, ExecuteUnlock, ExecuteNotify,
       ExecuteUnlockAgain, ExecuteGrow
  <2> QED BY <1>4, <1>a, <2>1, QuietClient, SameJobs DEF taskVars
<1>5. ASSUME NEW c \in Clients, NEW t \in Tasks, Execute(c, t) PROVE Pool!Next
  BY <1>0, <1>5, <1>a, ExecuteSubmits DEF Pool!Next
<1>6. CASE Initialize \/ Recycle \/ Destroy \/ Owning \/ UNCHANGED vars
  BY <1>0, <1>6, <1>a, OwnerAsks DEF Pool!Next
<1> QED BY <1>1, <1>2, <1>3, <1>4, <1>5, <1>6 DEF Next

\* The pool implements the queue of jobs: tasks start in order, each at most once, are
\* finished by the thread that started them, and what destroy promises holds.
THEOREM Implements == Spec => ImplementsJobQueue
<1>1. Init => Pool!Init
  BY DEF Init, Pool!Init, InWorkers, Owner
<1> QED BY <1>1, StepImplements, ImplInvHolds, PTL DEF Spec, ImplementsJobQueue, Pool!Spec
=============================================================================
