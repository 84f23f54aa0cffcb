# xKBEngine: specifications, checks and proofs

xKBEngine is a C++ server engine library. It is single-threaded around an epoll
loop, except for its thread pool. This directory holds TLA+ modules for the parts
with state and ordering, TLC configurations for them, and TLAPS proofs.

## 1. Inventory

| Component (under `src/libs`) | State | Operations | Module |
|---|---|---|---|
| `threadpool` ThreadPool | task queue, list of threads, list of ended thread ids, `idles_`, two atomics, three mutexes, two condition variables | `initialize`, `execute`, `worker`, `recycle`, `destroy` | ThreadPool, JobQueue; proofs in ThreadPoolProofs |
| `network` EventPoller | two handler maps, the epoll interest list | register and deregister for read and write, `processPendingEvents` | EventPoller (one descriptor), EventDispatcher (the wait) |
| `network` Channel with TCPPacketSender, TCPPacketReceiver | flags, packet queue, receive window, byte counts per tick, endpoint | `initialize`, `send`, callbacks of the poller, `processPackets`, `condemn`, `destroy` | Channel, BytePipe; proofs in ChannelProofs |
| `network` NetworkInterface, ListenerReceiver, UDPPacketReceiver | listening socket, map from address to channel | `initialize`, `closeSocket`, `registerChannel`, `deregisterChannel`, `deregisterAllChannels`, `processChannels`, accept loop | NetworkInterface; proofs in NetworkInterfaceProofs |
| `network` PacketReader, Packet | message under construction, fragment state | `processMessages` | PacketReader; proofs in PacketReaderProofs |
| `common` MemoryStream | byte vector, read and write index | `<<`, `>>`, `append`, `read_skip`, `clear`, `data_resize` | MemoryStream, StreamCodec; proofs in MemoryStreamProofs, StreamCodecProofs |
| `dispatcher` EventDispatcher, Timers; `common` Timer, TimerHandle, TimerHandler | time queue, timer states, registration counts, break state, longest wait | `addTimer`, `cancel`, `processOnce`, `processUntilBreak`, `breakProcessing`, `maxWait` | EventDispatcher; proofs in EventDispatcherProofs |
| `dispatcher` Tasks; `common` Task | vector of tasks | `add`, `cancel`, `process` | EventDispatcher; proofs in EventDispatcherProofs |
| `pyscript` ScriptStdOut, ScriptStdErr and their hooks | saved and installed output objects, reference counts, the line being written | `install`, `uninstall`, `onWrite` | ScriptOutput; proofs in ScriptOutputProofs |
| `pyscript` Script | two lasting hooks, the hooks of running calls | `install`, `uninstall`, `run_simpleString`; the rest wraps the interpreter | ScriptOutput; proofs in ScriptOutputProofs |
| `pyscript` ScriptObject, locks | table of Python types | attribute helpers over the Python C API | not modelled |
| `common` ConnectionPool | queue of connections, two counters | get, free, destructor | not modelled |
| `network` EndPoint, Address; helpers, logging | socket number | system calls | external answers inside Channel and NetworkInterface |

How they interact. The dispatcher's loop runs tasks, fires timers, then blocks in
EventPoller, which calls the handler registered for a ready descriptor:
ListenerReceiver (accepts, makes Channels, registers them in NetworkInterface),
a channel's PacketReceiver (puts packets into the receive window) or its
PacketSender (continues the queue). The program calls
`NetworkInterface::processChannels` once per tick; it drops condemned and
destroyed channels from the map and lets the others hand their window to
PacketReader, which cuts messages out of the bytes and calls the user's
MessageHandler. (The servers under `test/network` do so after each wake of
`processPendingEvents(-1)`, as long as their socket is good.) Handlers call back into all
of these. The thread pool is on its
own and is driven by client threads; so is the script layer, in which C++ runs
Python that may call C++ again.

What is hard, and what makes each part correct:

* **ThreadPool**: three mutexes, a notification outside the mutex of its condition,
  a lock guard destroyed by hand, temporary threads that time out. Tasks are
  processed once and in order, no accepted task is forgotten, `execute` and
  `destroy` return, thread lists agree, residents stay, temporaries leave.
* **Channel**: partial writes, EAGAIN, errors, thresholds that condemn, continuation by
  callbacks, and message handlers that send on, condemn or destroy the channel whose
  window is being walked. Bytes go out and are handed over in order and once; flag,
  queue and poller entry agree; a queue drains; a closed channel is silent.
* **NetworkInterface**: handlers that change the map under the iteration, descriptor
  numbers used again, peers that reconnect. No handler outlives its descriptor, each
  channel is reported once, a pass visits all.
* **EventDispatcher, Tasks**: callbacks that add and cancel timers, integer conversions of
  the wait, a vector that is erased from while it is walked. No timer is lost, released
  twice or starved; no task is skipped or run twice; a break ends the loop.
* **PacketReader, MemoryStream**: packets end anywhere, a buffer is reused. Messages
  keep their boundaries and their bytes; what is written is read back.
* **Script output**: hooks nested by calls inside calls, removed by returns, exceptions
  and half-failed installs, reference counts by hand, Python code that keeps, puts
  back and deletes output objects, errors left for somebody to print. `sys` comes back to
  what it was, nothing freed is written to, a buffer gets what was written for it.

## 2. Modules and code

Each action is one handler or one step of it; its comment names the function, and
`PROJECT.json` gives the lines. Variables keep the names of the members they model
(`idles_`, `bundles_`, `channelMap_`). Variables marked *history* in a module do not
influence the behaviour.

**ThreadPool**. One process per worker (`wpc`), per client (`cpc`) and one owner
(`opc`). A critical section of `task_lock_` or `thread_lock_` is one step, since
what they guard is never touched outside them. `stats_lock_` is modelled word by
word: `execute` runs `guard.~lock_guard()` and the guard is destroyed again at the
`return`, so a mutex is unlocked that the caller does not hold. This is undefined;
the model takes the outcome of a default pthread mutex, which clears the word. Hence
`++idles_` and `--idles_` are a load and a store, and `stolen` remembers that an
unlock hit somebody else's lock. `wait` is: join the wait set and unlock; leave it by
a notification, a deadline or spuriously; relock; learn whether it was a timeout.

**JobQueue** is what the pool promises, without threads: `Submit`, `Start` (the head of
the queue), `Finish`, and the owner's `Ask`, `Tell`, `Part` for destroy's call, its
return and the return's end; `over` says that nothing is started any more. ThreadPool
instantiates it (`ImplementsJobQueue`) with the queue `tasks_`, the tasks that workers
process and the ones they finished.

**EventPoller** is a module of operators on the entry of one descriptor; **Channel**
uses them. Channel steps the loops of `processSend` and of the receiver one system
call at a time, with every answer of the call (all, a part, EAGAIN, error, and for
`recv` also the end of the stream), and `processPackets` one packet of the window at a
time: it hands a packet to the reader (`served`) and then waits for the handler, which
may call `send` (its loop then runs with `caller = "handler"`), `condemn`, `destroy`,
return or throw. A handler that destroys the channel while its packet holds more makes
the reader log `c_str()` of a channel without endpoint. A NULL `pEndPoint_` or a failed
assert sets `fault` and stops the behaviour. Bytes are numbered as they are accepted or
received, so `wire` and `handled` show order, loss and repetition. `writable` is the
kernel's: a full socket buffer makes it FALSE, only the peer's reading (`PeerReads`) makes
it TRUE, and only then does epoll call the sender (`Writable`). The users of a channel
call `initialize`, `send`, `processPackets`, `condemn` and `destroy`, and not the other
public methods (`stopSend`, `stopRecv`, `finalise`, `initialize(false)`).

**BytePipe** is the promise of one direction: numbered bytes go in, come out in order
and once, and nothing moves after it closed. Channel instantiates it twice, as
`SendPipe` (from `send()` to the wire, closed when the channel is condemned or destroyed)
and `RecvPipe` (from `recv()` to the reader, which still gets what the running
`processPackets` has begun).

**NetworkInterface** sees of a channel what the interface sees: address, descriptor,
condemned, destroyed. Descriptor numbers are handed out lowest first and used again.
`processChannels` is stepped per channel (`Pass`), and each of its callbacks, a message
handler or `onChannelDeregister`, is user code (`pc = "handler"`) that may do, any number
of times, whatever the user may do between calls: condemn, destroy and deregister any
channel ever made, deregister all, close or initialize the socket; only a
`processChannels` inside of `processChannels` is left out. `deregisterChannel`
erases by address: given a channel that left the map, or that was refused, it erases the
one that has the address now and reports the one it was given; `reports` records both,
and whether the user or the pass called. The socket is TCP (`initialize`) or UDP
(`SetUdpEndPoint`, as in `test/network`). Erasing the channel at which the iterator
already stands leaves a dangling iterator (`fault`).

**EventDispatcher** composes loop, tasks, timers and the wait. `processOnce` is called by
`processUntilBreak`, or by the user with or without idling (`caller`), and goes through
the tasks, the timers and the poller. User code runs before the loop, in tasks, in timer
callbacks and in descriptor handlers, and may add and cancel timers, change the longest
wait and the break state in all of them. The list of tasks is protected: a derived
dispatcher changes it, in the model anywhere but inside the pass over the list. Time is
in clock units, `UnitsPerMs` of them a millisecond; `ToInt` is the conversion to a 32
bit int.

**MemoryStream** models the class's methods as operators on a record. **PacketReader**
runs the fragment automaton on such a stream, with the bytes of lengths and bodies
real, since both findings about it depend on them. **StreamCodec** writes typed
values into a stream and reads them back; a bool is its byte, a float its bits.
`skewed` remembers that an item was read whose bytes in the stream are not those that
`>>` takes: a 64 bit integer, or a text with a character inside that ends it.
`Base` stands for 256.

**ScriptOutput**. A hook and its Python object are one record with the object's reference
count. `Install` and `Uninstall` are Script's; `Run`, `RunBuffered` and `RunReturns` are
`run_simpleString` up to its first line of Python and from its last one, with the hooks
it makes and destroys and the traceback that an exception prints. Between them Python
code writes (`PyWrite`), keeps an output object (`PySave`), puts it back into `sys`
(`PyAssign`), deletes a stream from `sys` (`PyDelete`), and runs more code by way of C++
(`Run` again). A hook that is installed when there is no stream keeps NULL (`None`), and
its uninstall then leaves `sys` alone. Every import of `sys` may fail, the one of the
uninstall in `Install`'s undo included (`okUndo`), except where the code reaches none.
`error` says that Python's error indicator may be set; `SCRIPT_ERROR_CHECK` then prints,
at the end of `RunReturns` after the hooks are gone (`late`). A write that reaches the
object of a destroyed hook sets `fault`.

## 3. Runs

Seven runs must pass, five show a disagreement between sources and code. The names
are those of the `.cfg` files; `MC` modules only define constants.

| Run | What it shows | Bounds |
|---|---|---|
| pool | `ImplementsJobQueue`; `RecycleSound`, `CountsUntilStolen`, `SizeBounded`, `ResidentsStay`, `JoinWaitsForAll`; `ExecuteReturns`, `GrownTaskStarts`, `TemporariesRetire` | 1 client, 2 tasks, 1 resident, grow 1, max 2; 3 threads are never exceeded (`BoundIsEnough`) |
| channel | `ImplementsSendPipe`, `ImplementsRecvPipe`, `NothingLost`, `PollerAgrees`, `QueuedMeansSending`, `AssertsHold`, `QueueDrains` | three packets of 0 or 2 bytes, 4 bytes from the peer in pieces of at most 2, thresholds at 1 and 2 packets, 3 partial writes instead of 10 |
| interface | `HandlerOwnsDescriptor`, `ReportedOnce`, `PassVisitsAll`, `CondemnedIsReported` | 2 addresses, 2 descriptors, 3 channels; states after a fault are checked and not continued |
| dispatcher | `LiveTimerIsQueued`, `ReleasedOnce`, `NoDueTimerSkipped`, `TasksRunInOrder`, `DueTimerFires`, `BreakLeavesLoop` | 2 timers, once or repeated, 2 tasks, clock to 4 units |
| reader | `HandledFromIndex`, `FramingKept`, `AllHandled` | 3 messages of 0, 1, 3 or 4 bytes, all ways to cut them |
| codec | `ReadsBack`, `IndexesAgree` | 3 values of all types, most of them an end of their range, 64 bit integers and a text with an end inside among them |
| script | `SysIsInnermost`, `ReferencesBalance`, `ErrorsCaptured`, `RunRestores` | 5 hooks, 2 calls inside each other, 2 acts of Python code |
| pool_loses_task | violation of `AcceptedTaskStarts` | as pool: the thread that is counted must be a temporary one |
| pool_destroy_hangs | violation of `DestroyReturns` | |
| interface_assert | violation of `DeregisterAssertHolds` | |
| dispatcher_wait | violation of `WaitWithinMax` | |
| reader_drops_bytes | violation of `WholeMessages` | |

Each passing run also checks its module's `TypeOK`, but for codec and script.

Why the bounds are enough. *pool*: a client, a resident, a temporary thread and the owner
are the fewest with which a notification, a timeout, a second unlock and destroy meet;
the safety properties of the run are proved for any number of clients, tasks and threads
(section 5), so the instance is there for the liveness. *channel*: two packets that can
each be cut, an empty one, and a failure limit that is reached and also not reached; a
window of two packets, with a handler between them. *interface*: three channels on two
descriptors force a number to be used again, and two addresses let an erased entry lie
before, at and behind the iterator (what a process does after a fault is
undefined, and a faulty state has no condemned channel to report, so `CONSTRAINT Running`
takes nothing away from the liveness either). *dispatcher*: two timers give every order of two
deadlines, cancelling oneself and the other; two tasks let one end in front of another or
behind it, and let one task stand twice in the list; the int has 32 values, so the waits
that occur here fit it. *reader*: a Base of 3 makes both bytes of a length count; three
messages let one follow a message whose length was cut. *script*: Script's two hooks,
the one of a buffered call and the two of a call inside it whose first install fails are
five.
Deadlock is not checked where the program may stop: bounds used up, a fault.

Fairness. *pool*: a runnable thread is scheduled, a thread that keeps asking for
`stats_lock_` gets it, a temporary thread's deadline passes, and at some time it is
seen as passed; nothing makes clients or owner call and nothing wakes a waiter
spuriously. *channel*: a running callback goes on and handlers return; epoll, which is
level-triggered, reports a writable descriptor again and again, and since the poller is
asked between two calls of `processPackets`, a callback that is possible time and again is
made (strong fairness). The peer owes nothing: that it makes room again and again is the
hypothesis of `QueueDrains` (`[]<>writable`). With a peer that stops reading, epoll never
calls the sender, nothing counts towards the tenth failure, there is no timeout, and the
queue stays. *interface*: the accept loop and the pass go on and callbacks return.
Nothing is assumed of the caller of `processChannels`; that it is called again and again
is the hypothesis of `CondemnedIsReported` (`[]<>(pc = "pass")`). The servers under
`test/network` call it once per wake of `processPendingEvents(-1)` and stop when their
socket is not good, so there a channel condemned by its handler, with silent peers
afterwards, is not reported. *dispatcher*: the loop runs on, tasks and callbacks
return, time passes. *reader*: the loop runs on and what was sent arrives. *script* states
no liveness.

## 4. Where code and sources disagree

Shown by runs:

* `threadpool.cpp:182`: `execute` counts an idle thread (line 52), drops the lock and
  notifies. That thread may be a temporary one whose deadline passes: notified or not, it
  ends without looking at the queue (182-183) while the resident sleeps on, and the
  accepted task is never started (pool_loses_task; `AcceptedTaskStarts` excuses tasks
  accepted by a pool that is destroyed or had its lock taken away).
* `threadpool.cpp:86-90`: `notify_all` is not under `stats_lock_`. A worker between its
  test of `isDestroyed_` and its wait is never woken, and `destroy` waits for ever
  (pool_destroy_hangs).
* `network_interface.cpp:162`: a destroyed channel is deregistered after its endpoint
  was dropped, against the assert at line 52 (interface_assert).
* `event_dispatcher.cpp:153`: nanoseconds become an int of milliseconds; a far timer
  makes the wait negative, which epoll takes as unlimited (dispatcher_wait).
* `packet_reader.cpp:53`: a message whose length was cut in two is handed over with
  its read index at 2 (reader_drops_bytes). `HandledFromIndex` says that this is the
  only way a message differs from what was sent.

Known from the models, where no document says what should happen or the properties that
do hold state it:

* The second unlock in `execute` lets two threads change `idles_` at once;
  `CountsUntilStolen` says that count and exclusion hold exactly until then.
* `threadpool.h:21` promises at most `max_` threads; `SizeBounded` is `max_ - 1 + grow_`.
* After an empty message, a cut length loses its first byte and the reader never finds
  a boundary again (`PlaceLost`); `FramingKept` says nothing else causes this.
* `closeSocket`, which the destructor calls, dereferences a NULL `pEndPoint_` when
  `initialize`, called optional in `network_interface.h:53`, was not called (fault
  `nullInterface`).
* A second datagram of a UDP peer gets a new channel that `registerChannel` refuses,
  and is dropped with it; its socket is never closed.
* `network_interface.cpp:54` erases by address without a look at the channel: who
  deregisters a channel that was erased or refused before has another one of the same
  address erased, unreported, and the given one reported (again). `ReportedOnce` says
  what holds: one report per erased channel, and never across addresses.
* `packet_sender.cpp:15` is the only way a queue goes on: a peer that never reads keeps a
  queue for ever, uncondemned.
* `scriptstderr.cpp:123`: a hook that was installed when `sys` had no such stream (Python
  code deleted it) is not taken out again, and `sys` keeps the object of a destroyed hook,
  to which the next write goes (fault). `RunRestores` says so.
* `scriptstderr.h:166`: only a write that begins with a newline passes the line on. What
  comes after the last of them is lost with the hook, so the line of
  `sys.stderr.write("oops\n")` never reaches the buffer. `ErrorsCaptured` claims what was
  written up to the last such write.
* `script.cpp:119` joins the two installs of a buffered call by `&&` where the comment at
  line 116 speaks of both streams: the second hook is installed only if the first could
  not be. A buffer gets of what is written to `sys.stderr`, never what is printed
  (`RunBuffered`).
* A handler that destroys its channel while the packet holds another message makes
  PacketReader dereference the NULL `pEndPoint_` in a log line (`packet_reader.cpp:84`,
  fault `null` of Channel).
* A task that adds or cancels tasks while the list is walked leaves the vector's iterator
  dangling (`tasks.cpp:38`); `TasksRunInOrder` is about tasks that do not.
* `<<` of a 64 bit integer appends four bytes and `>>` takes eight (`Encoding`), and `>>`
  of a text stops at the first character that is not ASCII, which `<<` writes like any
  other. `ReadsBack` says that nothing else comes back wrong, and that the next
  `clear` or `done` ends the damage.

## 5. Theorems

Every safety property that a run checks and that holds is proved, the three refinements
included, for every value of the constants. The assumptions are the one of each module
that types its constants (`PoolAssumption`, `ChannelAssumption`, `InterfaceAssumption`,
`DispatcherAssumption`, `ReaderAssumption`, `CodecAssumption`, `ScriptAssumption`). They
ask no more than the code fixes: a byte has at least two values, a packet at least one
byte (200 in the code), a body fits the two bytes of its length, a timer's delay is not
0, values are of the types they are written as, and sizes and bounds are numbers.
`ThreadBound`, the number of threads ever created, is arbitrary.

`ThreadPoolProofs`, for any number of tasks, clients and threads, any `initial_`, `grow_`,
`max_` and word size
* `Typing`: `[]TypeOK`. `TypeOK` alone is not inductive: a worker must hold a
  task exactly while it processes it (`Holding`), and ids must be handed out in
  increasing order (`Numbered`), so that creating threads keeps `wpc` typed.
  `WrapTyped` gives that `idles_` stays a machine word although its updates race.
  `TypeInv`, the conjunction of the three, is the ground of the proofs of the pool.
* `CountingSound`: `[]CountsUntilStolen`. Its invariant `LockInv` says, until a second
  unlock takes the lock away from somebody else, that at most one thread is in a
  section of `stats_lock_` (`Exclusive`), the mutex word says whether one is
  (`WordTrue`), what a worker has loaded from `idles_` is still its value (`Fresh`,
  without which the store after the load could lose an update), and `idles_` counts
  the idle workers (`Counts`, modulo the word: lemmas `ModUnique`, `ModSucc`, `ModPred`).
* `Recycling`: `[]RecycleSound`, inductive next to `TypeInv`.
* `JoinSound`: the action property `JoinWaitsForAll`. The wait compares `recycle_.size()` with
  `threads_.size()`. `RecycleSound` says the ids in `recycle_` are distinct threads of
  the pool, so equal sizes make the list a surjection on `threads_`: all have ended.
* `Residence`: `[]ResidentsStay`. Needs that nothing exists before `initialize` (`Begun`),
  that a resident's wait has no deadline (`NoTimeout`), and the property from the
  moment the residents are created, not only from `isInitialize_` on (`Residing`).
* `PoolSize`: `[]SizeBounded`, from `Begun` and the cardinality of what `Spawn` adds.
* `DestroyIsFinal`: `QuietAfterJoin`. `Over` (destroyed, and every worker is before its
  test of `isDestroyed_` or past its end) is stable under every step (`OverStays`), and
  `JoinSound`'s argument gives `Over` when the wait ends.
* `Fifo`: `[]FirstInFirstOut`, inductive next to `TypeInv`.
* `OnceOnly`: `[]ProcessedOnce`. No task is pushed twice (`PushInv`: a pushed task is in
  the hands of the client that submits it or was answered), hence the head of the queue
  was never started (`HeadIsNew`), hence a worker never takes what another has (`InWork`).
* `Implements`: ThreadPool implements JobQueue. The mapping of the steps needs `Fifo` and
  `OnceOnly` (a fetch is a `Start` of a job never started before, an `execute` a `Submit`
  of a new one) and `DestroyIsFinal` (`over` comes with the end of destroy's wait and
  stays): their invariants together are `ImplInv`; each action is then one job step or a
  stutter (`FetchStarts`, `ProcessFinishes`, `ExecuteSubmits`, `OwnerAsks`, `EndIsFinal`).

`ChannelProofs`, for packets of any length, any thresholds and any bytes of the peer
* The invariant is `ChannelInv == Typing /\ PollerInv /\ SendInv /\ RecvInv`: `PollerInv`
  says at every step which of flags, handler maps and interest list may disagree,
  `SendInv` that the wire and the queue follow each other without a gap, while
  `processSend`'s loop has not erased yet what it has sent as well, `RecvInv` the same of
  what was received, what waits in the window and what was handed over.
* `Types`, `Asserts`, `Poller`, `Nothing` and `Queued` are its consequences for `TypeOK`,
  `AssertsHold`, `PollerAgrees`, `NothingLost` and `QueuedMeansSending`.
* `SendRefines` and `RecvRefines`: `ImplementsSendPipe` and `ImplementsRecvPipe`. Every
  step writes, delivers or stutters, and a closed pipe stays closed and silent.

`NetworkInterfaceProofs`, for any addresses, descriptors and channels
* The invariant is `InterfaceInv`: types (`Typing`), the two safety properties, that
  reports name channels that were made (`ReportsMade`), and what makes the pass work:
  the iterator stands at a registered channel as long as the process runs
  (`AtChannel`), and what the pass has yet to visit lies at or behind it (`Ahead`).
  `DeregisterErases` says why: a deregistration, the pass's or a callback's, erases at
  most one address, and the process has a fault if the iterator stands at it.
  `DeregisterReports` is `ReportedOnce` over the erase by address.
* `Types`, `Owned` (`HandlerOwnsDescriptor`), `Reported` (`ReportedOnce`), `Visits`
  (`PassVisitsAll`: at the end of the pass `Ahead` leaves nothing to visit).
* `MinIs` and `NextIs` give the least element from the well-foundedness of the numbers.

`EventDispatcherProofs`, for any tasks, handlers, delays, units and timers
* The invariant is `TimerInv`: types, a popped timer is not in the queue, a live timer is
  in exactly one of the two places (`Queued`), releases are cancellations
  (`ReleasedIsCancelled`), and counts are cardinalities (`CountsLive`). Every step adds a
  timer, cancels a set of timers or edits a live one: `AddIs`, `CancelIs`, `EditIs`.
* `LiveIsQueued`, `Released` (`ReleasedOnce`), `NoneSkipped` (`NoDueTimerSkipped`).
* `Types`: `[]TypeOK`, with `LoopTyping`: the iterator of `Tasks::process` is in the list
  while a task runs and at most one behind it between tasks (`RemoveAtIs`, `RemoveFirstIs`).
* `InOrder`: `[]TasksRunInOrder`. In a pass, the tasks it has run followed by those from
  the iterator on are the list it began with, and those that asked to run again followed
  by the same rest are the list now (`PassInv`). `TurnIs` is the case of a task that
  stays, `ErasedIs` that of one erased under the iterator; `RunAgainIs` and
  `RunAgainGrows` unfold the recursive function behind the property.

`PacketReaderProofs`, for any base, packet size, number and length of bodies, and any cuts
* `TypeOKThm`: `[]TypeOK`, from `Typing`, which adds the shape of the buffer in each state
  of the fragment automaton (`Form`): how large it is and where the write index stands.
* `FramingKeptThm`, `HandledFromIndexThm`: `[]FramingKept`, `[]HandledFromIndex`. The
  invariant holds until a byte of a length is lost (`PlaceLost`, which then stays). The
  bytes on the wire and those of the packet are those of the messages at their offsets
  (`Feed`), `cut` holds exactly the messages a packet ended in the length of (`Cuts`), and
  the reader is at a definite place: between two messages, between the bytes of a length
  that was cut (`AtLength`), or in a body that it has copied so far (`AtBody`), with the
  messages before it handled as `HandledFromIndex` says (`Place`).
* `EndsIs`, `EndsTyped`, `EndsRise` and `EndsGrow` are about the recursive function of the
  offsets, `TwoBytes` and `EncodeIs` about the length in front of a body.

`MemoryStreamProofs`: what the stream's operators return, for any elements. `AppendBytesIs`
(nothing before the write index changes), `PeekIs`, `ResizedIs`, `CopyIs`, `PowerIs`, and
`NumberReadBack`: a number below Base^w comes back from its w bytes, for every base and w.

`StreamCodecProofs`, for any base, characters and items
* `ReadsBackThm`, `IndexesThm`: `[]ReadsBack`, `[]IndexesAgree`. The invariant is that the
  unread bytes are the encodings of the unread items one behind the other (`Laid`), until
  something was skewed. A write extends the chain (`LaidWrite`), a read takes its
  first link whole (`ReadIs`, from `NumberIs` and `TextIs`), and an emptied stream is the
  empty chain whatever bytes `clear` left behind (`LaidNone`).

`ScriptOutputProofs`, for any nesting of calls, exceptions and failing imports
* The operations of Script are first described by what they do to `sys` and to the hooks
  they make and delete (`Restored`, `Uninstalled`, `Deleted`, `Made`, `Wrote`); with
  `Typing` and `FrameHooks` (which hooks a call has) each theorem has its own invariant.
* `ReferencesBalanceThm`: `[]ReferencesBalance`, from `Balanced`: the references of an
  object exceed its holders (`sys`, its hook, other objects) by what Python code keeps.
* `SysIsInnermostThm`: `[]SysIsInnermost`, from `Whole` (unless an import failed, every hook
  in use is complete) and `Clean`: the living hooks of a stream nest as the calls do, each
  keeps the object of the one below it, and `sys` holds that of the topmost (`Nest`); no
  error is left to print, so nothing is written after a call's hooks are gone.
* `RunRestoresThm`: the action property `RunRestores`, from `Typing` and `FrameHooks`, also
  for streams that Python code deleted.
* `ErrorsCapturedThm`: `[]ErrorsCaptured`, from `Heard`: what was written to `sys.stderr`
  during a call with a buffer is its buffer and the line of its hook, which has no write
  that begins with a newline, also while a call inside it has a hook of its own.

Recursive functions. The prover cannot do induction, so a fact about all arguments of a
recursive function is proved by the least counterexample, whose existence comes from the
well-foundedness of the numbers (`Least`, `MinIn`): first that the function of the definition
exists, then what it returns. None of the modules proved about declares an operator RECURSIVE.

What stays with TLC: all liveness (`ExecuteReturns`, `GrownTaskStarts`,
`TemporariesRetire`, `QueueDrains`, `CondemnedIsReported`, `DueTimerFires`,
`BreakLeavesLoop`, `AllHandled`), since fairness and ENABLED are beyond the prover.
The five runs that expect a violation show one behaviour each.

## 6. Not modelled

* Logging and statistics, in all parts; the spare-time count of the poller.
* EndPoint's option, multicast, connect and sendto calls: plain system calls.
* `swap`, `reserve` and `toString` of MemoryStream: used by no modelled part.
* ConnectionPool: only `test/common/connectionpool.cpp` makes one, in a single thread that
  borrows one connection; users with threads are not known. Its destructor asserts that
  all connections are back (`connection_pool.h:66`).
* Calls of a TCP channel's `stopSend`, `stopRecv`, `finalise` and `initialize(false)` from
  outside of the class: nothing under `libs` makes them.
* ScriptObject, and of Script the modules, attributes and registered methods: calls of the
  Python C API without state of their own.
* Changing the list of tasks from inside the pass over it: undefined in the code.
* Kernel, epoll, condition variables and the Python interpreter are external and
  modelled from how the code uses them.

## 7. What could follow

* PacketReader on the receive window of Channel, as one composition: Channel has the
  window and the handlers, PacketReader the fragments; what couples them is the
  handler that destroys the channel, which Channel already has.
* A stream of messages as the abstract specification that PacketReader implements
  until `PlaceLost`; the invariant of `FramingKeptThm` has what the refinement needs.
* A pool instance with two clients for the liveness: it exceeds the time of a run here.
