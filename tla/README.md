# TLA+ models of the CSI_ZLG gateway firmware

The firmware runs on a ZLG gateway beside power converters (PCS) of an energy
storage plant. A browser (H5) configures it over HTTP and watches live values
over WebSocket; a serial task polls the devices over RS-485 with Modbus. The
program is about 3400 lines of C++ under `src/src/code`, multi-threaded
throughout, without tests. These modules model its concurrent core, TLC checks
them on small instances, and TLAPS proves the safety part for every value of the
constants.

Paths below are relative to `src/src/code` unless they start with `src/`.

## The system

| part | state | operations | talks to |
|---|---|---|---|
| `common/ThreadPool` | task queue, counters `busyNum liveNum exitNum`, `shutdown`, `threadIDs` | `Add`, worker loop, manager loop (every 3 s), destructor | one static pool per message type of the message queues |
| `common/MessageQueue.hpp` | subscribers by topic, responders by topic | `subscribe`, `publish`, `service_subscribe`, `service_publish` | hands every callback to its ThreadPool |
| `webserver/HttpService` | `recv_queue`, `lastQueueSize`, `response_data` | one handler thread per open request (`handle_request`), `receive`, `send`, listen thread | httplib; polled by TaskHttp through NetWorkLayerImp |
| `webserver/NetWorkLayerImp` | device and channel tables (message queue), cache of live values `v_RTSrcInfo`, `preSn`, `v_Pre` | `operation()` dispatches on the id of a request; table edits; `sendDataToWeb` | HttpService or WebSocketService; message queue; Setting |
| `webserver/WebSocketService` | set of connections | open, close, `send` | websocketpp; TaskWebSocket |
| `task/TaskHttp`, `TaskWebSocket` | `taskstate`, `isStopThread` | the thread's loop; `start pause resume stop`, destructor | main |
| `task/TaskSerial` | device and serial lists, `protocolInfoMap`, `pit`, `is_RecvRun`, `total_recv_buf`, `pointCount` | polling thread, receiving thread, three subscriptions, `loadAllList`, decoding | Modbus, Serial_485, message queue |
| `protocol/Modbus` | `nextPkg` | `AssemblePacket`, `ParsePacket` | Serial_485 |
| `serial/Serial_485` | tty | `send`, `receive` (non-blocking) | the line |
| `src/src/main.cpp` | | starts the tasks, then loops for ever | |

`TaskSchedule` is empty, `CommonLog` only logs, `inc_plug/Setting.h` is the
header of a binary plug-in, and `src/src/inc_base` is third-party code.

### What makes each part correct, and what is hard

- **ThreadPool.** An accepted task is run once and in order; the pool stays
  between its bounds; its counters are true; nobody sleeps while work is queued;
  destruction ends. Hard: the destructor and the manager act without the mutex
  or on values sampled earlier; every wake-up is shared by several waiters.
- **HttpService and its dispatcher.** A client gets the response to its own
  request, once, and does get one. Hard: one `response_data` for all requests, a
  poll that recognises a new request by the queue's size, and a wait without a
  predicate.
- **TaskSerial.** A value is filed under the device and point it was asked
  from; polling goes on. Hard: two threads hand over a flag, a shared pointer and
  a buffer of which only the buffer has a lock, and that one unfairly; replies
  come late, in pieces, damaged or not at all; every request goes to bus address
  1, and several devices may be on one tty.
- **Tasks.** A task works when it is told to, not otherwise, and its destructor
  returns. Hard: the thread tests `taskstate` outside the mutex, waits without a
  predicate and sets `taskstate` itself when it wakes up, whatever woke it.
- **Device lists.** What is polled is what the tables say, over ports that exist.
  Hard: callbacks that compare the size of a message with that of the list kept,
  so that their order counts and an edit goes unnoticed; `loadAllList` without
  `list_mutex`; a port's name compared with its driver's; raw pointers from
  devices to ports.
- **Live values.** A browser sees values of the device it asked for, never older
  ones than before. Hard: two fields written by up to three pool threads and read
  by the task's, one cache for all devices, a set of connections changed by
  another thread.

`PROJECT.json` lists every such hazard at its line with the properties that
cover it, or a note why none does.

## Modules

| module | models | checked by | proofs |
|---|---|---|---|
| `Executor` | what a thread pool promises its callers | `pool` (refinement) | |
| `ThreadPool` | `common/ThreadPool.{h,cpp}` | `pool`, `pool_regrow` | `ThreadPoolProofs` |
| `HttpExchange` | `webserver/HttpService.cpp`, the dispatch of `NetWorkLayerImp::operation`, the loop of `TaskHttp` | `http_*` | `HttpExchangeProofs` |
| `SerialPoll` | polling and receiving in `task/TaskSerial.cpp`, with `Modbus` and `Serial_485` | `serial` | `SerialPollProofs` |
| `RegisterDecode` | from replies to named values in `task/TaskSerial.cpp` | `decode`, `decode_address` | `RegisterDecodeProofs` |
| `TaskControl` | what a task promises who controls it | `lifecycle` (refinement) | |
| `TaskLifecycle` | threads, calls and destructors of `TaskHttp`, `TaskWebSocket`, `TaskSerial` | `lifecycle` | `TaskLifecycleProofs` |
| `DeviceLists` | the callbacks and `loadAllList` of `task/TaskSerial.cpp`, fed by `MessageQueue.hpp` | `lists` | `DeviceListsProofs` |
| `Telemetry` | live values: `NetWorkLayerImp`, `TaskWebSocket`, `WebSocketService` | `telemetry` | `TelemetryProofs` |
| `MC...`, one for each | model values for TLC | | |

The modules meet at the calls between the parts. `HttpExchange` ends in the
requests that `DeviceLists` begins with (`ServicePublish`) and in the one that
`Telemetry` begins with (`GetRTData`). `DeviceLists` decides which devices
`SerialPoll` polls; `list_mutex` keeps them fixed for a cycle. `SerialPoll`
delivers the replies that `RegisterDecode` decodes, and their values are what
`Telemetry` publishes. `ThreadPool` carries every callback, as the `Executor` it
implements: in order, as many at a time as there are workers. `TaskLifecycle` is
the frame in which the loops of `HttpExchange`, `DeviceLists` and `Telemetry`
run.

Definitions whose name ends in `Slip` are plausible mistakes in the definition
that follows them. Nothing uses them: they serve to show that a property notices
(`PROJECT.json`, "mutants").

### ThreadPool

A slot of `threadIDs` and the worker in it are the same thing, since a slot is
never used twice. `worker[w]` is the worker's place in `ThreadPool::worker`,
`manager` that of the manager and `dtor` that of the destructor. A critical
section is one step unless it tests `shutdown`. The destructor writes `shutdown`
and notifies without the mutex, so it can fall between such a test and what its
owner does next, and the model has a state for each of the three places: about to
block in `cond.wait` (`toWait`), about to take a task (`toTake`, from `SeeTask` to
`TakeTask`), and about to push one (`adding`, from `AddTest` to `AddPush`).
`MutexFree` keeps everyone else out meanwhile. `ManagerSample` reads the three
counters, later steps use that `view`. `added` and `done` are history variables.

`Executor` is the promise: tasks start in the order they were submitted, at most
`Limit` at a time, and all of them if it stays open. Once it is closed, at most
one more is submitted or started (`late`): the code cannot promise less, as a task
can be taken after `shutdown` is set, by the one thread that held `mutexPool` at
that moment and had seen it unset. `ThreadPool` implements it with `running` mapped
to the tasks of running workers and `open` to `~shutdown`, with and without
fairness.

`DestructionCompletes` says that the destructor is done in the end if, at some
moment between its write of `shutdown` and its `notify_all`, no worker is in
`toWait`. The premise is the code's own race: a worker that stays there all the
time (`ThreadPool.cpp:38-42`) misses both and is joined for ever.

### HttpExchange

An element of `recv_queue` is the request that pushed it; the code only sees its
body, so comparisons go through `body`, and two requests may share one. A
response is the request it was computed for. `handler[r]` is where the handler
thread of `r` is; the task thread's `receive`, `operation` and `send` are split
wherever they touch shared state, since they take no lock (`OpEmpty`, `OpReset`,
`OpSize`, `OpCompare`, `OpFront`, `OpDispatch`, `OpSend`, `OpNotify`). `front()`
of an empty queue is undefined in C++ and yields `Garbage` or an empty string.
`Unserved` are the bodies for which `operation()` sends nothing (an unknown id).

Clients are the environment: they send whenever they like, at once or one after
the other, and nothing is assumed of the polls in between. What the code achieves
under that is less than one response for each request, and the properties say
what: the queue has an element for each handler that has yet to pop
(`OneEntryPerHandler`), of its own body (`EntriesMatchBodies`) unless two handlers
of one body have replied at the same time (`doubled`: both pop, and the second
takes an element that is not theirs); an operation is executed at most once for
each request that has arrived (`ExecutionsBounded`), because a push or a pop
behind the dispatcher's back looks like a new front; with distinct bodies the front
is a lock on the reply (`FrontOwnsReply`), and who is found while waiting is
answered with its own response (`FoundIsAnswered`). That each client gets its own
response does not hold with two of them (`http_concurrent`).

### SerialPoll

A cell is three or four bytes: two cells are the five bytes of an exception, which
are also the fewest that `ParsePacket` looks at, and three cells a reply with data.
`header` is what bytes 1 and 2 of the buffer say, the function code and the length;
`ParsePacket` has every branch of the code on them, the length field of 0 and 0x83
before any length included. Nothing else is looked at: the comparison of the CRC is
commented out (`Modbus.cpp:52-83`). A cell knows the request it answers, the code
does not.

A reply arrives in pieces, which break at cells; it may be an exception, be cut
short, or not come (`Faults`). Noise on a header, or two units of one address that
answer at once, gives a reply that says anything in bytes 1 and 2, as does a reply
that begins in the middle: its rest may be taken for the next reply. From there on
nothing can be said of which request a cell answers, so the history variable `harm`
is `garbled`, and only what does not depend on it is claimed. `Capacity` is what the
driver keeps of a tty that nobody reads.

Every request goes to bus address 1 (`Modbus.cpp:90`), whatever the address of the
device, and several devices can share a tty: `Wirings` are the ways in which they
are connected, `units` those that have address 1. `Attribution` claims that a result
is of the device polled only where that one is in `units`. Where nobody has the
address, nobody answers; where another unit on the tty has it, that one does.

`serial` is the polling thread, `reader` the receiving thread. `Ask`,
`ParseNothing` and `ParseIncomplete` clear `is_RecvRun` and notify; `ReaderTest`
and `ReaderWait` are two steps, since the flag is written without
`recv_wait_mutex` and a notification between the two is lost. `recvMutex` records
that the polling thread sleeps 200 ms with `recv_mutex` held; it takes it again at
once, so the reader may miss it for ever. `PollsForever` names that (`Starved`) as
one of two things that stop polling; the other is a reply that is incomplete when
nothing more will come (`NothingMore`), since there is no timeout.

The set of devices is fixed while they are polled: `list_mutex` is held over a
whole cycle, and every subscriber that changes the map takes it.

### RegisterDecode

Sequential: `handleAllRecvData` and `handleRecvData`, one step per iteration of
their loops. A reply is given by the registers it was asked for, its bytes by
`register`, the contents of the device; `buf[k]` behind the end of the reply
yields any byte of `Stray`. The position `count` and the point `pos` are those of
the code. An item of `v_singleRTSrcInfo` also carries the reply and the window it
came from, which only the properties read. `tmp[0] << 32` is undefined; a build
does the same each time, so `shift32` is chosen once. A title is a model name for
the Chinese string of the tables. Scaling by `factor`, units and names are left
out. A device is assumed to answer with as many registers as it was asked for;
`ParsePacket` compares the length of a frame with itself only.

`SerialPoll` ends where `RegisterDecode` begins: `PublishedComplete` and
`Attribution` are what makes `v_rtSrcInfo` a sequence of one reply per request,
which is the form of `Batches`.

### TaskLifecycle

The three tasks contain the same loop and the same four calls, so there is one
module with a `kind`. It differs where they do: `taskstate` of `TaskSerial` is
never initialised, so its first value is any; `TaskWebSocket` has an empty
destructor, and destroying a joinable `std::thread` terminates the process, as
does `TaskSerial`, which joins one of its two threads. `thread` is where the
thread is: testing without the mutex (`test`), between the test and the mutex
(`toLock`), in the wait, notified and yet to lock (`woken`), in the work. A pass of
the work need not end: `serialTaskRun` waits for a reply without a timeout, and
`operation()` for an answer of Setting. `JoinReturns` therefore says that the
destructor returns *or* that the pass under way never ends, and no more.

`TaskControl` is the promise: work begins only while the last call was one to
work, and not after the end. The code keeps it (`AsTold`) unless one of four
things has happened since that call, which `upsets` records: a pause while a
wake-up was under way, whose state the thread then overwrites (`stale`); a
resume of a cancelled task, which notifies although it changes nothing
(`revived`); a spurious wake-up; a first state that happened to be `start`. In
the other direction, a wanted task works again and again (`WantedWorks`) unless
the call fell between the thread's test and its wait (`missed`).

### DeviceLists

A table is a function from devices to their port, or from ports to the
`SerialName` of each, with `None` for what is not listed. `devTable` and
`portTable` are Setting's, `devList` and `portList` what `TaskSerial` has of them,
`infoMap` and `proto` the objects made from these. `Modbus` keeps a raw pointer to
its `Serial_485`; `dangling` are the devices whose port object is gone.

A callback holds `list_mutex` and has two parts, since others read without the
lock: it clears the flag or changes the maps (`FirstMessage`, `DevAdded`,
`DevDeleted`, `DevEdited`, and the same for ports), then replaces the list
(`TakeOver`). `half` is the message it is half through with. `loadAllList` is two
steps, one for each loop, and takes no lock, though `TaskSerial.h:30` says the lock
is there for it: a callback may come before, between or after them, and a load can
fall between the two parts of a callback. The next message handled is any of the
oldest `Workers`, so messages overtake one another.

Setting is external. It answers a request by any one change of its tables, or
none: it adds, deletes or edits a device or a port, an edit giving it another name,
another port or driver, or both. It publishes the whole table, in the order of the
requests, as the callbacks expect. Names are taken to be unique. Requests are
serial, since `TaskHttp` waits for the answer.

The callbacks compare the size of a message with that of their list, and heed no
more than that says. A message of the same size, as after any edit, only replaces
the list: a renamed device is polled on under its old name and a moved one over its
old port. Of several new entries the first is taken over, and a device only if its
port is there. The loop that removes ports compares the map's key, a port's name,
with `SerialName` (`TaskSerial.cpp:146`): where the two differ, as for every port of
`src/bin/data/csi_channeltable.json`, a deletion destroys ports that were not
deleted. `unheeded` records the devices and ports of which a message said something
that was not acted on, until it is; `lost` the ports that a message left out, or
that a deletion took for deleted. The properties say that these are the only ways:
`PortsOutliveUse` and `PolledAsListed` hold for every device and port that is in
neither, whatever overtakes what, and `ListsFollow` for the lists unless the newest
message was handled before an older one (`ahead`).

Where the code's behaviour is undefined, the model may go on as if nothing had
happened, or stop with the reason in `undefined`: `torn` (a callback and
`loadAllList` on the same lists), `iterator` (the loops that go on from an erased
iterator, `TaskSerial.cpp:56, 74, 136, 153`), `dangling` and `points` (a poll over a
destroyed port, or before any point has arrived).

No liveness is claimed of the lists: the polling thread takes `list_mutex` again as
soon as it has released it, the mutex is not fair, and a callback may wait for it
for ever.

### Telemetry

Values are a device and the number of a reading. `StoreValues` and `StoreSn` are
the two assignments of the subscriber (`NetWorkLayerImp.cpp:13-14`); `OpMatch`,
`OpCompose` and `OpKeep` are the branch of `sendDataToWeb` that reads them, with
the subscriber in between. The pool of the bus starts the callbacks in order and
runs up to `Workers` of them at once (`MQ_THREAD_MAX` is 3): any of the oldest may
store its values next, and the devices of those in `storing` come in any order. The
history variables say what that has done: `beside`, two callbacks have been under
way at once since the last that ran alone; `overtaken`, the devices of which a
reading was stored before an older one; `raced`, a callback wrote while `ws_thread`
was reading.

When two threads are on one string, vector or set and one of them writes, the
process may go wrong (`torn`) or not: the model has both. Sending to a connection
that is being closed throws; nobody catches, and the process ends (`terminated`).

A reading's device is the name under which `TaskSerial` publishes it
(`devName`), which `sendDataToWeb` compares with the `dev_sn` of the request:
the model takes a browser that asks for the former.

`preSn` becomes the device asked for even when nothing of it was kept
(line 422), so after an empty answer the next one may show what was kept of
another device. `WrongOnlyAfterEmpty` says that this, a read that a callback raced
with, and callbacks that have overlapped are the only ways; `OlderOnlyIfOvertaken`
that the cache never brings an older reading back: only the bus can.

The thread looks at `sn` every three seconds. With several devices it may find
another one there each time; `LatestIsShown` therefore only speaks of a device
that stays the last one polled.

## Runs

| run | instance | states | shows |
|---|---|---|---|
| `pool` | 1 to 3 threads, 2 at a time, 3 tasks | 275 894 | `PoolSize`, `CountersMatch`, `Ledger`, `NoSleepWhileQueued`; implements `Executor`; `TaskEventuallyRuns`, `DestructionCompletes` |
| `pool_regrow` | 1 to 2 threads, 4 tasks | violation | once shrunk, the pool never grows again (`ThreadPool.cpp:147`) |
| `http_repeat` | 3 requests, two alike, spurious wake-ups | 3 611 820 | `OneEntryPerHandler`, `EntriesMatchBodies`, `ExecutionsBounded` |
| `http_found` | 3 requests, all different, one of an unknown id | 58 185 | `FrontOwnsReply`, `FoundIsAnswered` |
| `http_concurrent` | 2 requests | violation | a client gets the empty response another one has left |
| `http_unanswered` | 1 request | violation | a request is never answered |
| `serial` | 2 devices, 2 points, 4 wirings, every fault, noise on one tty | 293 251 | `Attribution`, `PublishedComplete`, `NoResidue`, `ReaderOnlyWhileAsked`, `PollsForever` |
| `decode` | the tables of `src/bin/data`: 206 points, 11 requests, refused or not, and a whole cycle | 15 234 | `DenseExact`, `ReadWithinReply`, `DecodedOnce` |
| `decode_address` | the same | violation | a point's value is another register's |
| `lifecycle` | each of the three tasks, any calls | 1 091 | `AsTold`, `SleepsOnlyIfMissed`, `NoWorkAfterDestroy`, `WantedWorks`, `JoinReturns` |
| `lists` | 2 devices, 2 ports, 2 workers, any tables, 2 requests | 1 041 497 | `PortsOutliveUse`, `PolledAsListed`, `ListsFollow` |
| `telemetry` | 2 devices, 2 browsers, 3 readings, 3 workers | 980 673 | `WrongOnlyAfterEmpty`, `OlderOnlyIfOvertaken`, `LatestIsShown` |

Why the bounds are enough. *pool*: one to three threads is what `MessageQueue`
uses (`MQ_THREAD_MIN/MAX`), and `NUMBER` is 2 in the code; three tasks make the
manager grow the pool (queue longer than the pool), shrink it, and leave a
worker without one. *http*: three requests are the fewest with one answered, one
found and one unseen at once; repeated bodies need two alike and one other, and an
execution too many needs a queue that shrinks and grows between two polls.
*serial*: two devices so that `pit` changes and a tty can be shared, two points so
that the number of the request and the title can part; a tty holds at least one
reply and part of another, which is what garbling can leave behind. With
`Capacity` 3 and noise on both ttys the run passes too (876 019 states).
*decode* uses the program's own tables, so there is no smaller instance
to justify; a reply is decoded independently of the others, which the cycle and
the refused replies confirm. Points of type `U8` and `ASCII` do not occur in the
tables. *lifecycle* has no bound: calls come in any number. *lists*: the tables at
the start are any, and two requests are enough to add, rename, move or delete under
a device, with the message of one overtaken by that of the other; one device and
three requests pass as well (2 942 915 states), in more time than a run should
take, and the proofs depend on neither. *telemetry*: two readings of one device
so that an older one exists, one of another so that the cache can change hands,
two browsers so that one can leave while the other is being sent to, and as many
workers as readings.

Deadlock is checked in `serial`, where the threads go on for ever. In the other
models the system may stop: the tasks are a finite set and the pool is
destroyed, clients stop sending, the decoder returns, a task's thread waits for a
call or is joined, changes and readings are bounded, and undefined behaviour ends
a model.

### Fairness

`ThreadPool`: weak fairness of each worker, the manager and the destructor,
that is, the scheduler runs every runnable thread and tasks return. Not of calls
of `Add`, but one that has begun goes on (`AddPush`).
`HttpExchange`: weak fairness of each handler and the task thread. Not of clients.
`SerialPoll`: weak fairness of both threads and of the answer of a unit that has
been asked (where `"lose"` is among the faults, an answer may be empty). The
reader's turn at `recv_mutex` is weakly fair too, which gives it nothing where the
polling thread takes the mutex again and again: starvation is an outcome.
`TaskLifecycle`: weak fairness of the loop of the thread and of `join`. Not of the
end of a pass of the work, nor of calls.
`DeviceLists`: none.
`Telemetry`: weak fairness of the pool (`StoreValues`, `StoreSn`) and of
`ws_thread`. Not of readings, of browsers or of connections.
Spurious wake-ups are never fair.

## Proofs

`tlapm` checks, for all values of the constants that satisfy the assumptions
(`PoolAssumption`, `HttpAssumption`, `SerialAssumption`, `DecodeAssumption`,
`LifecycleAssumption`, `ListAssumption`, `TelemetryAssumption`):

- `ThreadPoolProofs`: `TypeCorrect`, `PoolSizeCorrect`, `CountersCorrect`,
  `NoSleepCorrect`, `LedgerCorrect`, `ThreadPoolImplementsExecutor`,
  `WakeUpReachesAll`, `JoinIsBounded`.
- `HttpExchangeProofs`: `TypeCorrect`, `QueueCorrect`,
  `HandlersFindElementCorrect`, `FrontCorrect`, `FoundNeverWrongCorrect`,
  `EntriesCorrect`, `ExecutionsCorrect`.
- `SerialPollProofs`: `TypeCorrect`, `HandOverCorrect`, `NoResidueCorrect`,
  `AttributionCorrect`, `CompletenessCorrect`, `ReplyKeptCorrect`,
  `NothingMoreIsFinal`.
- `RegisterDecodeProofs`: `TypeCorrect`, `DenseExactCorrect`, `DecodedOnceCorrect`,
  `ReadWithinReplyCorrect`.
- `TaskLifecycleProofs`: `TypeCorrect`, `SleepCorrect`, `DestroyCorrect`,
  `ImplementsControl`, `AwakeCorrect`, `JoinIsBounded`, `ReadyCorrect`,
  `WantedIsNearCorrect`.
- `DeviceListsProofs`: `TypeCorrect`, `PortsCorrect`, `PolledCorrect`,
  `ListsFollowCorrect`.
- `TelemetryProofs`: `TypeCorrect`, `OlderCorrect`, `WrongCorrect`,
  `ShownIsNewestCorrect`.

Two theorems have hypotheses on the constants besides these:

| theorem | hypothesis | why it is there |
|---|---|---|
| `FoundNeverWrongCorrect` | distinct bodies, no spurious wake-ups | a handler tells its turn only by the body at the front, and takes any wake-up for its response |
| `ReadWithinReplyCorrect` | `TablesAgree` | it is the tables that decide; TLC evaluates it for those of the repository (an `ASSUME` of `MCRegisterDecode`) |

All others hold of the specification as it stands, whatever the environment does;
their exceptions are in the properties, as history that the model records.

Few of these invariants are inductive by themselves.

- *Shape* adds to the types that the manager notifies only what it has counted,
  that a worker holds a task exactly while it runs one, and who holds `mutexPool`
  across two steps (`Holding`): one thread at most, and if it is about to take a
  task there is one to take.
- *Counters* is `CountersMatch` with `PoolSize`: retirement keeps `liveNum` above
  the minimum only if `liveNum` counts the threads, and growth stays below the
  maximum only because slots bound it.
- *Wakeful* strengthens `NoSleepWhileQueued`: nobody sleeps while a task is
  queued, and a worker returns only on shutdown, so at least `minNum` of the
  counted ones are awake.
- *Accounts* is `Ledger` with the fact that a task is added once, without which
  "queued" and "started" could overlap, also by the caller that is half through
  (`AddingIsNew`).
- *Ended* and *Told* are about the destructor. Only it writes `shutdown`. `Told`
  (shutdown is set, nobody is between test and wait, and if `notify_all` was called
  nobody sleeps) is *stable* rather than invariant: the code does not guarantee
  that it ever holds, and that is the window `DestructionCompletes` is conditional
  on. From its first moment on nobody sleeps while joined, and each step takes one
  worker nearer to its return (`ToGo`, at most four steps each, the task of a late
  one included) or lets go the caller that is inside `Add`. With the fairness of the
  run this is why the destructor ends.
- The refinement uses all of them: `Start` needs the limit on running tasks
  (from the number of slots), and that only the holder of `mutexPool` takes or
  pushes once `shutdown` is set, which happens once (`Holding`).
- *OneEntryPerHandler* is inductive with the types; that no handler calls `front()`
  or `pop()` on an empty queue follows by counting. The task thread may.
- *EntriesInv* counts the elements of one body. A pop of a handler takes the front,
  so it has to be of its body: while nothing is `doubled`, only one handler of the
  front's body replies at a time (`OneReplies`), and nobody else pops.
- *ReportInv* bounds how often a request is reported. Only the front has ever been
  reported (`Unreported`), and each report but the first needs a size other than the
  last one reported; the sizes a front can be reported at are bounded by the last
  one, by what has been answered, and so by what has arrived (`FrontReports`,
  `SizeRead`).
- *OnTheWay* follows one request from the poll that found it while its handler
  waited: found, then held as the response, then copied. No step of another
  handler or of the task thread takes it off that way, as nobody but its handler
  owns the front (`FrontOwnsReply`) and the task thread reports an element only
  while it is there (`ReportedAtFront`).
- *IInv* of `SerialPoll` takes all of it together, since each part leans on the
  others. `HandOver`: the reader rests unless the polling thread waits for a reply
  that is still incomplete; so it copies `pit` and touches a port only then, and the
  200 ms doze under `recv_mutex` is the one time the buffer is out of reach.
  `Counting`: `nextPkg` and `pointCount` agree while a device is polled, and there is
  a result for each request but the open one. These hold whatever noise does.
  `Clean` holds until a header is garbled: at most one reply is on its way, from the
  tty of `pit` only, with the header its first cell has and no more cells than that
  says (`OneReply`), and every cell answers the open request (`Owned`). So
  `ParsePacket` ends no reply early, in whichever branch (`TrueVerdict`), and line,
  chunk and buffer are empty once it is parsed (`NoResidue`).
- *Arrived* is what the tty polled has brought, wherever its cells are: in the
  buffer, in the reader's hands or still on the line. No step of the two threads
  loses, doubles or reorders any of it while it is waited for (`ReplyKept`).
- *NothingMore* is stable: with the buffer incomplete and nothing on its way, only an
  answer could change that, and nobody is asked again. This is the safety half of
  `PollsForever`.
- *Counting* of `RegisterDecode` is the loop invariant: in a dense window no byte
  has been taken before the first point, and behind a point `count` is twice the
  distance of the next register from the reply's first. The lemma `ShortsExact`
  turns that position into the register's value.
- *WalkInv* keeps the set of what has been walked through: batch by batch, window
  by window, point by point (`ItemsWalked`, `WalkedHaveItems`, `NoItemTwice`). It
  needs that the windows of a title differ, which `WindowsDistinct` proves of each.
- The bytes read so far are a cardinality, `Taken`, and not a sum, which would be a
  recursive operator: a byte is a point and a position within it. `count` never
  exceeds the number of those of the points passed, nor that of all of them, and
  `TablesAgree` bounds the latter by the length of the reply.
- *Led* of `TaskLifecycle` relates what the caller wants to where the thread is:
  while the task lives, a state of `start` and a thread that has been notified are
  each owed to a call to work, or to one of the upsets.
- *AwakeWhileJoined* is the safety half of `JoinReturns`, and inductive with the
  types: `isStopThread` is set in the critical section that notifies, and tested in
  the one that waits. While the join lasts every step but its return takes the
  thread nearer to its end.
- *WantedReady* is that of `WantedWorks`: unless the call was missed, the thread of a
  wanted task neither sleeps nor is about to, and is at most two steps from its work
  (`ToWork`). `Ready` adds that a thread only returns when it is told to, without
  which a call to work could find nobody to do it.
- *MapsInv* of `DeviceLists` ties the maps to the list that is coming (`DevComing`,
  `PortComing`: the message a callback is half through with, or the list). The maps
  agree with it wherever nothing went unheeded (`DevAgree`, `PortAgree`), a port that
  is gone from it is `lost` (`PortKept`), and a dangling device is one of the two
  (`Orphaned`), or waits for the second loop of `loadAllList` to renew its protocol.
  Before the first message of a topic there is nothing of it (`Fresh`). No hypothesis
  on the order of messages or on names is needed.
- *Ready*: the lists are merged once, and only after both flags have been cleared;
  without it a first message could fall behind a load.
- *FollowInv*: the newest message, or the list if there is none, is the table, unless
  the newest has been handled before an older one.
- *Ages* of `Telemetry` is a chain: along the values kept, those stored and the
  messages on the bus the readings of a device get newer, unless one of that device
  has overtaken another, and none is older than what was shown. Between composing an
  answer and keeping it the values kept may be: the exception is part of the
  invariant.
- *Whose* says of which device the values are that are stored, read and kept: a
  callback that runs alone leaves values and device that match, and a read that none
  raced with finds what it compared.
- *LastIsNewest* says that the end of the chain is never behind: the newest reading
  of a device is on the bus or, if it was the last stored, in `v_RTSrcInfo`. With
  *Whose* it is the safety half of `LatestIsShown`.

### Only model-checked

Liveness: `TaskEventuallyRuns`, `DestructionCompletes`, `ImplementsExecutorFairly`,
`FoundIsAnswered`, `PollsForever`, `WantedWorks`, `JoinReturns` and `LatestIsShown`,
since fairness and `ENABLED` are out of the prover's reach. Of six of them the safety
half is proved, as said above (not of `TaskEventuallyRuns` and
`ImplementsExecutorFairly`). `TablesAgree` is evaluated by TLC: it is about the
particular tables. The properties of the runs that expect a violation are false and
have no theorem. That the exceptions are needed (`doubled`, `harm`, `Starved`,
`unheeded`, `lost`, `ahead`, `beside`, `overtaken`, `raced`) was found with TLC, by
leaving out one at a time.

## Findings

Four properties state what a comment or a table of the repository says and are
violated by what it does: see "findings" in `PROJECT.json`. In short: a shrunken
pool does not regrow, an HTTP client can be left without an answer, one of two
concurrent clients can be answered with an empty response, and values are decoded
from other registers than the point table names. The passing runs say what holds
nevertheless.

## Plan

What is left is small:

1. `HttpStartup`: the hand-shake of the constructors of `HttpService` and
   `WebSocketService` with their listen threads.
2. `MessageBus`: topics and services in general, with subscribers that come while
   messages are published. The program does not do this: everything subscribes
   while it is constructed.

Theorems to add, each about a module of this list: that a call made by a constructor
finds its listener, and that no subscriber misses what is published after it came.

## Not modelled

The bytes of requests and frames, CRC included (`RegisterDecode` has those of the
data in a reply), JSON, files, logging, tty configuration; the start-up of the
two servers; `TaskSchedule` (empty) and `CommonLog`; the binary Setting plug-in,
except as the environment of `DeviceLists`; the vendored libraries, except that
httplib runs handlers concurrently and that websocketpp refuses to send on a
connection that is closing.

What a broadcast promises (`WebSocketService.cpp:55`) has no property: a send to a
connection that is closing ends the process, which `Telemetry` has as an outcome,
and of the rest there is nothing to say but what its loop says.

The vendored headers under `src/src/inc_base` are 85 000 of the 89 000 lines of the
repository; the models cover the state and control of the 3400 lines that are its
own, of which the greater part of the rest is the reading and writing of JSON fields.
