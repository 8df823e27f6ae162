# A verification project for clibdpa

clibdpa sends DPA requests (IQRF's Direct Peripheral Access protocol) to a
network of radio nodes through a coordinator that hangs on a SPI or USB CDC
channel. It is a small library whose difficulty is all in its threads: a user
thread that waits for a result, a worker thread that executes one transaction
after the other, and a channel thread that delivers what the network says, at
any time and with no identity that ties it to a request. These modules model
that part of the code in TLA+, check it with TLC and prove part of it with
TLAPS.

Contents: [1 inventory](#1-inventory), [2 modules](#2-modules-and-their-code),
[3 runs](#3-runs), [4 findings](#4-where-code-and-comments-differ),
[5 fairness](#5-fairness), [6 proofs](#6-what-is-proved), [7 limits](#7-what-is-not-modelled),
[8 plan](#8-plan).

## 1 Inventory

### Components

| component | code | state | operations |
|---|---|---|---|
| `DpaTransaction2` | `src/Dpa/DpaTransaction2.*` | `m_state`, `m_finish`, the three timeouts, `m_infinitTimeout`, network parameters, a mutex, a condition variable, the result it owns | constructor, `execute()`, `processReceivedMessage()`, `abort()`, `get()` |
| `DpaTransactionResult2` | `src/Dpa/DpaTransactionResult2.*` | error code, response code, confirmed and responded flags, messages, timestamps | setters, `getErrorCode()`, `getErrorString()` |
| timing estimates | `DpaTransaction2.cpp:472-617` | `m_hops`, `m_timeslotLength`, `m_hopsResponse` as `int8_t` | `EstimateStdTimeout()`, `EstimateLpTimeout()`, `getFrcTimeout()` |
| `TaskQueue<T>` | `src/include/TaskQueue.h` | queue, `m_taskPushed`, `m_runWorkerThread`, worker thread | `pushToQueue()`, `stopQueue()`, destructor, worker loop |
| `DpaHandler2` | `src/Dpa/DpaHandler2.cpp` | pending transaction, a `TaskQueue` of transactions, two handler tables, mode and timing parameters | `executeDpaTransaction()`, `ResponseMessageHandler()`, (un)registration, destructor |
| `DpaMessage` | `src/include/DpaMessage.h` | a buffer of 64 bytes and a length | filling, classification |
| `IqrfSpiChannel` | `src/IqrfSpiChannel/` | run flag, buffer, mutex and condition variable, a `TaskQueue` of messages | `sendTo()`, `listen()` thread, (un)registration |
| `IqrfCdcChannel` | `src/IqrfCdcChannel/` | receive handler, the serial port object of another library | `sendTo()`, (un)registration |
| tracer, example, build | `src/IqrfTracer/`, `src/DpaExamples/`, ... | log file | out of scope |

### How they interact

1. `DpaHandler2::executeDpaTransaction()` makes a transaction and pushes it to
   the handler's `TaskQueue`. The user calls `get()` on it.
2. The queue's worker makes it the pending transaction and calls `execute()`,
   or `execute(TRN_ERROR_IFACE_QUEUE_FULL)` when too many are behind it.
   `execute()` holds the transaction's mutex while it calls the sender, which
   ends in the channel's `sendTo()`, and then waits on the condition variable
   for the expected duration, again and again, until the state is final.
3. The channel's thread calls the handler's `ResponseMessageHandler()`, which
   hands confirmations and responses to `processReceivedMessage()` of whatever
   transaction is pending: it changes the state and the expected duration and
   wakes everybody.
4. `execute()` stores the error code in the result, sets `m_finish` and wakes
   `get()`, which moves the result out of the transaction.
5. `abort()` may come from any thread; the handler's destructor calls it.
6. `ResponseMessageHandler()` first shows every message to the any-message
   handlers, then sends requests and unasked responses to the asynchronous
   handler; only the rest goes to the pending transaction. The user's functions
   run in the channel's thread, with the mutex of their table held.
7. The SPI channel reads the bus in a thread of its own and hands what it read
   to a `TaskQueue`, whose worker is then the channel's thread of point 3. The
   CDC channel is called by the serial port object, from that object's thread.

### What is hard here, and what makes each component right

* **Transaction.** Four threads meet at one mutex and one condition variable.
  `wait_for()` without a predicate tells only whether its deadline had passed
  when the mutex was taken again, not what happened in between. Messages have
  no identity, so a late answer to an earlier, equal request is taken for an
  answer to this one. It is right when there is one verdict, decided once and
  backed by something that happened; when a timeout is neither early nor
  reported over a response; and when everybody who waits is released.
* **Estimates.** Bytes go through `int8_t` and back, a length through `int8_t`
  with -1 as a marker. They are right when they are positive for every input,
  a correction by the response never lengthens them, and they grow with the
  length of the response.
* **TaskQueue.** Notifications come after the mutex is released, the flag that
  is waited for is cleared before the queue is looked at, and the run flag is
  read without the mutex. It is right when it is a FIFO executor that misses
  no push and whose destructor returns.
* **Handler.** The pending transaction is a bare pointer that the worker
  changes, the channel's thread follows and the destructor tests; the limit of
  the queue is applied at its other end; the destructor has to get past
  whatever is executing. It is right when answers reach only transactions that
  asked for them, each transaction is executed once and keeps its contract
  among its neighbours, every user is served, and the destructor returns.
* **Message handlers.** Two tables, two mutexes that are held while the user's
  functions run, and a message that is parsed twice. It is right when only
  registered functions run, a message goes where its first parse has sent it,
  and neither a registration nor the receiver is blocked unless a function of
  the user has misbehaved.
* **SPI channel.** One mutex for the bus, one condition variable for two
  different purposes, waits without a predicate, a device that has data when
  somebody wants to write, and a destructor. It is right when a message is
  written at most once, what was read is neither lost nor reordered, everybody
  gets the bus in the end, and nothing happens after the destructor.
* **CDC channel.** A bounded number of attempts, and a receive function that is
  emptied under the feet of the listener. It is right when `sendTo()` tells the
  truth and unregistration is harmless: the latter is not so (section 4).

The hazards in `PROJECT.json` list each difficulty at its line, with the
properties that cover it.

## 2 Modules and their code

| module | models | kind |
|---|---|---|
| `DpaTransactionObject` | the object `DpaTransaction2` with its result as a record; every method as an operator on records | operators |
| `DpaTransactionObjectProofs` | what each method returns and which fields it changes | lemmas |
| `DpaTransaction` | one transaction with the threads that call it, its environment and time; extends `DpaTransactionObject` | state machine, properties |
| `TransactionContract` | what a transaction promises to the caller of `get()` | abstract specification |
| `MCDpaTransaction` | instances for TLC | model checking |
| `DpaTransactionProofs` | type correctness, verdicts, refinement, no early timeout, no lost response, full waits, nothing slept through, no endless loop | proofs |
| `DpaHandler` | `DpaHandler2::Imp`: many objects, a queue that is an instance of `FifoExecutor`, the pending pointer, the destructor; extends `DpaTransactionObject` | state machine, properties |
| `MCDpaHandler` | instances for TLC | model checking |
| `DpaHandlerProofs` | type correctness, the queue used as a FIFO executor, each transaction once, answers only where asked for, no null pointer for them, the worker ends first | proofs |
| `DpaHandlerContractProofs` | every transaction keeps its contract, none is dropped, a recorded response decides | proofs |
| `DpaTiming` | the two estimate functions and the members between them | state machine, properties |
| `DpaTimingProofs` | their bounds for all inputs | proofs |
| `DpaMessage` | the buffer's length and the two bytes that classify it; filling, copying, classification | operators |
| `DpaTransactionResult` | the result with its messages, codes and text; extends `DpaMessage` | operators |
| `MessageHandlers` | the receiving side of `DpaHandler2::Imp`; extends `DpaTransactionResult` | state machine, properties |
| `CdcChannel` | `IqrfCdcChannel` with the serial port around it | state machine, properties |
| `ReceivePath` | `MessageHandlers` behind an instance of `CdcChannel` | composition |
| `MCReceivePath` | instance for TLC | model checking |
| `ReceivePathProofs` | the composition implements both parts; the safety properties of both, who can block whom, when an unregistration does harm | proofs |
| `SpiChannel` | `IqrfSpiChannel::Imp` with the bus, on an instance of `FifoExecutor` | state machine, properties |
| `MCSpiChannel` | instance for TLC | model checking |
| `SpiChannelProofs` | type correctness, written once, nothing lost, reception as one FIFO executor, `sendTo()` terminates, quiet when gone, safe unregistration | proofs |
| `TaskQueue` | `TaskQueue<T>` with producers, worker and owner | state machine, properties |
| `FifoExecutor` | what `TaskQueue` promises | abstract specification |
| `MCTaskQueue` | instance for TLC | model checking |
| `TaskQueueProofs` | type correctness, no lost wake-up, FIFO refinement, a stopped worker ends | proofs |

Definitions whose comment starts with `(mutant)` are plausible bugs of the
definition that follows them. No specification uses them: they serve to see
that each property can fail.

### DpaTransactionObject and DpaTransaction

`tran` is the C++ object. Its fields are the members: `state` is `m_state`,
`finish` is `m_finish`, `expected` is `m_expectedDurationMs`, `userTimeout` is
`m_userTimeoutMs`, `infinite` is `m_infinitTimeout`, `defaultError` is
`m_defaultError`; `errorCode`, `confirmed`, `responded` and `responseCode` are
those of the result. `addr` and `cmd` are the classes of the request that the
constructor tells apart.

Each action is one stretch of one thread between taking and releasing
`m_conditionVariableMutex`, except that `execute()` is cut at the call of the
sender, which takes long; as the mutex stays taken, nothing but `SendReturns`
or `SendFails` can happen then (`MutexFree`).

| action | code |
|---|---|
| `ExecuteSend`, `SendReturns`, `SendFails` | `execute()` up to the loop, sender called |
| `ExecuteRefuse` | `execute()` with an error of the handler or of the transaction: no wait, decided at once |
| `Evaluate` | return from `wait_for()`, the `switch`, and either the end of `execute()` or the next wait |
| `SpuriousWakeup` | `wait_for()` returning for no reason |
| `DeviceConfirms`, `DeviceResponds`, `StaleMessage` | `processReceivedMessage()`, by who sent the message |
| `Abort` | `abort()` |
| `GetCall`, `GetStartWaitOver`, `GetReturn` | `get()` |
| `Tick` | time, while the executor waits or has been woken and waits for the mutex |

`exec = "woken"` stands for a thread that left `wait_for()`'s sleep and needs
the mutex. Time passes in it, which is what makes the deadline race of
`DpaTransaction2.cpp:266` part of the model: the status is computed from the
clock after the mutex is taken again, as libstdc++ does.

Abstractions: a message is its direction, whether it matches the request, the
estimate it would give, and a response code. Estimates are positive numbers of
a small set: that the functions never return less than 80 is proved in
`DpaTimingProofs`, so the branches for a duration that is not positive
(`DpaTransaction2.cpp:447`, 264) are kept in `AfterResponse` and not reached.
Time is in units, with the default timeout at two. The clocks `sinceSent` and
`quiet` and the flag `aborted` are there for the properties and never guard an
action of the program (`aborted` limits `abort()` to one call). The time that
passes before the request is out is not measured: no property needs it. While
the executor is at its deadline, time waits for it; `sinceSent` and `quiet` are
thus the least that can have passed.

### TransactionContract

Phase, what was heard, whether an abort was asked for, and the verdict. The
refinement maps the phase from `user`, `m_finish` and `exec`, the response from
`responded` and `responseCode`, and the verdict from `getErrorCode()` once
`m_finish` is set. It has no threads, no timers and no states of the
transaction: that the wait loop, the races on the state and the default values
of the result never produce a verdict without ground is what the refinement
says. A verdict 0 without a response is allowed for a confirmed broadcast only.

### DpaHandler

`tran` is the objects of all transactions, each as in `DpaTransactionObject`;
`queue`, `running` and `stopped` are the `FifoExecutor` that `TaskQueue` is
shown to implement; `pending` is `m_pendingTransaction`.

| action | code |
|---|---|
| `Submit` | `executeDpaTransaction()`; an empty request is not queued |
| `Take`, `Measure` | the function given to the queue: publish the transaction, look at the length |
| `ExecuteSend`, `SendReturns`, `Evaluate` | `execute()`; the sender is `sendRequest()`, which swallows the channel's exception |
| `ExecuteRefused` | `execute()` with the queue-full error or the transaction's own |
| `Confirm`, `Respond`, `EarlyMessage` | the channel calls `ResponseMessageHandler()`, which reads the pending pointer (`Deliver`) |
| `Process` | `processReceivedMessage()` of what was read, when its mutex is free |
| `Abort`, `GetReturn` | the user's `abort()` and the return of `get()` |
| `DestructorLooks`, `DestructorAborts`, `DestructorStops`, `DestructorJoins` | `~Imp()`, line by line |

The pointer is read in one step and used in a later one, so that the worker can
have moved on in between. A message is what it answers (`key` stands for
address, peripheral and command) and a code. When a deadline passes is left
open: `DeadlinePasses` may happen at any time of a wait, which includes every
timing of `DpaTransaction`. The estimate of a message is the same for all, as
the time does not matter. Objects are never freed. A message that finds no
pending transaction stays with the receiver for ever, because what the null
pointer does is undefined. The channel is silent once the handler is gone: the
destructor does not unregister, so its owner has to see to that. The first wait
of `get()`, which ends by itself, is left out here (`DpaTransaction` has it).

Three behaviours show in the actions and have no run of their own: the length
is tested when a transaction leaves the queue (`Measure`,
`DpaHandler2.cpp:46`), so the queue has no bound and the oldest transactions
are refused; the user of an empty request waits for ever (`Submit`, 130-134, as
the comment there says); and a message before the first transaction meets a
null pointer (`Deliver`, 119).

### DpaTiming

Parameters of a confirmation as `int8_t`, the estimates of both modes and both
OS versions, the casts at each call. A response may come without a
confirmation, with any length a response can have. `FrcTimeout` is
`getFrcTimeout()`, which has no caller at present (`DpaTransaction2.cpp` has the
call in a comment).

### TaskQueue and FifoExecutor

`worker` says where the worker is: `outer` before the unlocked test of the run
flag, `lock` about to take the mutex and evaluate the predicate of `wait()`,
`waiting` in it, `processing` in the callback, `relock` before the `lock()` at
the end of the inner loop. Pushing and stopping are two steps each: what is
done under the mutex, and the notification after it. The test of the run flag
without the mutex is a data race; once the flag is cleared the worker may read
either value there. The owner is the thread that destroys the queue; nobody is
inside a method when the destructor begins, as C++ demands.

### SpiChannel

`commMutex` names the owner of `m_commMutex`, `status` what the owner has read
from the bus. A wait on `m_commCondition` is the absence of its thread from the
mutex: both waits have a timeout and no predicate, so they may end at any time
and a notification makes nothing possible that is not possible without it. The
notifications (177, 233) are therefore part of the actions that give the mutex
back and leave no trace. `queue`, `running` and `stopped` are the
`FifoExecutor` that `TaskQueue` is shown to implement.

| action | code |
|---|---|
| `SendBegins`, `SendAttempts` | `sendTo()` up to the reading of the status (139-155) |
| `SendWrites`, `SendRetries`, `SendPostpones`, `SendResumes`, `SendDrops` | the outcomes of an attempt (156-187) |
| `QueryBegins`, `QueryEnds` | `getState()` |
| `ListenLoops`, `ListenWakes` | `listen()` up to the reading of the status (197-208) |
| `ListenReads`, `ListenReadFails`, `ListenIdles`, `ListenPushes` | what it finds, and the push after the mutex is released (209-239) |
| `WorkerTests`, `WorkerHandsOver` | the function given to the queue (54-62) |
| `Register`, `Unregister` | one assignment each, without a lock |
| `DestructorBegins`, `DestructorJoins` | `~Imp()` |
| `Produce` | the device |

After a failed reading, `status` is uninitialized in `sendTo()` (150, 173): the
code may find data ready in it or not, and both follow. Data that are too long
for the buffer (222-224) stay unread with a warning, as after a failed reading,
and are one with it (`ListenReadFails`); a device that goes on reporting them is
as little modelled as one whose reading never succeeds. When the worker calls a
handler that was emptied between its test and the call (56-57), the program
ends (`terminated`); the liveness properties except that. The listening thread's
buffer `m_rx` is used by one thread only and is the one message in `rx`.

`Reception` is a second use of `FifoExecutor`, one level up: its queue is
`OnTheWay`, what is queued, in `m_rx` or still in the device. `ReceivesInOrder`
says that the channel implements it: a message enters when the device has it
ready, the worker starts the oldest one, and everything in between, a failed
reading, a reading that is put off for a writer, the push after the mutex is
released, is a stutter.

### MessageHandlers, DpaMessage, DpaTransactionResult

A message is its length, its command and its response code: the bytes that the
classification reads. `raw` is what the channel delivers, `msg` the object made
of it; the same data are parsed once more for the asynchronous handler and for
the transaction (`Constructed`).

| action | code |
|---|---|
| `Receive` | `ResponseMessageHandler()` up to the parsed message (85-100) |
| `LockAny`, `CallAny`, `AnyReturns`, `UnlockAny` | `processAnyMessage()`, then the routing (102-117) |
| `LockAsync`, `AsyncReturns` | `processAsynchronousMessage()` |
| `Process` | `processReceivedMessage()` as far as it reaches the result (117-124) |
| `Throws`, `CallsBackOwn`, `CallsBackOther` | functions of the user that do not just return |
| `BeginCall`, `EndCall` | the four (un)registrations, from other threads |
| `Decide` | the end of `execute()` |

The loop over the table is in no particular order; the code's is that of the
ids. A second registration of an id throws and changes nothing (`EndCall` on a
service that is registered). An exception of a user's function leaves
`ResponseMessageHandler()`; the any table's `lock_guard` is released, the
asynchronous mutex stays locked for ever (`asyncLeft`,
`DpaHandler2.cpp:202-208`). A function that calls back a method of its own kind
would lock a mutex its thread holds: `stuckAny`, `stuckAsync`. One that calls
back a method of the other kind goes on afterwards, with one exception: an
any-message function that needs `m_asyncMessageMutex` (197, 215) after an
exception has left it locked waits for ever, and the loop around it
(230-233) keeps `m_anyMessageMutex`: `stuckOnLeft`. These are the ways in which
somebody is blocked for ever, and `CallsReturn` and `ReceiverReturns` name them
all. There is one transaction here and every confirmation and response matches its request; which
one is pending, and what else a message does to it, is in `DpaHandler` and
`DpaTransaction`.

### CdcChannel and ReceivePath

`sendTo()` is one action for each answer of `sendData()`. The port may call the
listener whenever it is registered: `Enter` if the function is there, and
`EnterEmpty` if it is not, which throws in the port's thread. `ReceivePath`
binds `Enter` to `Receive` and `Leave` to the return of
`ResponseMessageHandler()`, be it by an exception of a user's function or not:
what the port's library does with an exception of its listener is not in this
repository. After a function of the user has thrown, the model lets the port go
on, which leaves more to go wrong (the next message meets the mutex that was
left locked); after the empty function has thrown, it ends there (`broken`), as
what is of interest is that this was reached. No property tells the two apart.
What is sent is the request of the pending
transaction: nothing is delivered before it begins to be sent (a message
before it would meet a null pointer), and `execute()` decides after `sendTo()` is
over, as it holds the transaction's mutex meanwhile.

## 3 Runs

| run | shows | bounds |
|---|---|---|
| `transaction_nominal` | `TypeOK`, no timeout over a recorded response, `get()` returns, a response ends an infinite transaction, an abort ends a started one | a device that answers in order, one spurious wake-up, one abort, the sender may throw, every class of request, four user timeouts |
| `transaction_stale` | a timeout is not early, an undisturbed wait is a full one, the executor sleeps through nothing, the contract is implemented | the same with two arbitrary messages at any time from before the start to after the end |
| `task_queue` | `TypeOK`, no lost wake-up, refinement of `FifoExecutor` with liveness, the destructor returns | two producers, two pushes each, unbounded spurious wake-ups |
| `timing` | the bounds and the monotonicity of the estimates | bytes 0, 1, 20, 127, 128, 255; lengths around every limit of the tables, 7 included |
| `handler_nominal` | `TypeOK`, a recorded response is what the user gets, every user is served, the destructor returns | three different requests (node, coordinator, broadcast), queue limit one, destruction at any time |
| `spi_channel` | `TypeOK`, a message is written once or dropped after the last attempt, nothing that was read is lost, `sendTo()` and the destructor return, what the device has reaches the worker, nothing happens after the destructor | two callers, two attempts, two messages, one fault of the reader, one `getState()`, the bus busy or failing for the writers at will |
| `receive_path` | `TypeOK`, only registered functions run, the parses agree, the result fits the messages, the text fits the code, `sendTo()` tells the truth, an unregistration does harm only between its two statements, calls and the receiver return | two services, two messages out of four kinds, two registrations by the services, three functions that throw or call back (and register), one request, two attempts, one unregistration of the channel |
| `handler_equal` | answers reach only transactions that asked for them, only an answer of an earlier run can meet the null pointer, each transaction keeps `TransactionContract` | two equal requests, one created with an error, an empty one, an abort, a throwing channel, one answer of an earlier run |
| four others | one finding each | see section 4 |

Why the bounds are enough. *Times*: the default timeout is 2, so a wait can be
disturbed before, in and at its end; a user timeout can be none (-1), infinite
(0), shorter (1) or longer (3) than the default; an estimate can be shorter (1)
or longer (3); the bonding timeout (4) is longer than all. `Horizon` = 5 is
longer than every one of them, so no comparison with a clock is cut off.
*Stale messages*: two are enough for a confirmation after a response and for a
message before the start followed by one after it. `transaction_stale` leaves
out spurious wake-ups and one user timeout, as a message that changes nothing
of interest wakes the executor too. *Response codes*: one success and one
error. *Queue*: with two producers of two tasks, a push or a stop meets the
worker at every place of its loops, a second push can come between the first
and its notification, and order among and within producers shows.

*Handler*: with a limit of one and three transactions, one can be refused with
another behind it, accepted after a refusal, or find the answer of either of two
predecessors. `handler_equal` gives the equal requests the places where they
follow each other directly or with a third one between them. `handler_nominal`
needs different requests: among equal ones a late confirmation of the first can
undo the response of the second, as in `transaction_nominal`.

*SPI*: eight attempts differ from two only in number, as an attempt keeps
nothing from the one before it; two callers can meet each other, the listening
thread and `getState()` at the mutex; with two messages one can be read while
the other is pushed. *Receive path*: two services can register, be called and
unregister around each other, and one can remove the other's asynchronous
handler; the second message meets what the first has left behind (a mutex, a
stored response). With three functions that throw or call back, an any-message
function can register its service for asynchronous messages, the asynchronous
handler can throw while it handles the first message, and the any-message
function can call back again in the second: the receiver then waits for the
mutex left locked, and a registration of the other service, the second one, for
the receiver. The four kinds are a response with an error, one that nobody has
asked for, a confirmation, and 256 bytes; a request takes the way of a response
that nobody has asked for, and the proofs have it. The services differ in
nothing, so the run leaves out the behaviours in which `b` is the first to call
(`FirstCallIsA`): with the names exchanged they are among the others, and no
property and no fairness condition tells the services apart. The only verdict is
`TRN_OK`, the one that `setErrorCode()` treats in a special way; the proofs
have all. `CHECK_DEADLOCK FALSE` is in the configurations in which the program
may come to rest: when everything was sent and received, or when it hangs in one
of the ways the properties name.

`transaction_nominal` has `MaxStale = 0` because `NoTimeoutAfterResponse` holds
only then: a confirmation after the response takes the state back to
`kConfirmation` (`DpaTransaction2.cpp:383`), and the wait may then end in a
timeout although the response was recorded.

## 4 Where code and comments differ

Each is a run that is expected to find a violation of what a comment says.

| run | code | comment |
|---|---|---|
| `transaction_abort_overwritten` | a message processed before the executor looks overwrites `kAborted` | `IDpaTransaction2.h:67` |
| `handler_busy` | a finite transaction behind an infinite one leaves its user waiting: the branch for it can not be reached | `DpaTransaction2.cpp:44` |
| `handler_destructor` | an infinite transaction taken after the destructor has looked, or aborted before it is sent, is joined for ever | `DpaHandler2.cpp:76` |
| `channel_unregister` | the CDC channel's function is emptied (67) before the listener that calls it is removed (68): data in between call an empty function | `IChannel.h:56` |

How far `channel_unregister` reaches is proved: `HarmOnlyInTheWindow` confines
the empty call to data that come between the two statements, and
`NeverUnregisteredNeverHarmed` says that a handler that stays registered, as
`DpaHandler2` leaves its own, never meets it.

`transaction_abort_overwritten` and `channel_unregister` are safety properties
and need no fairness; the other two are checked under `DpaHandler!FairSpec`.

Met on the way, and allowed by the models without a run of their own:

* A response that arrives just after the deadline of the wait ends the
  transaction at once (`DpaTransaction2.cpp:266`, against
  `DpaTransaction2.h:56`, "response was received wait for expected time"), and
  a confirmation then is followed by a timeout (279).
* A request to a node without a confirmation times out after the default
  timeout, not the longer one of the user (`DpaTransaction2.cpp:122`, against
  `IDpaHandler2.h:44`, "0 < timeout - user value").
* A request that the channel refuses ends as a timeout, because
  `sendRequest()` swallows the exception (`DpaHandler2.cpp:258`, against
  `DpaTransaction2.h:64`).
* An `abort()` before the start is overwritten by `execute()`
  (`DpaTransaction2.cpp:224`); the infinite timeout is granted to every
  coordinator request of another peripheral (95, against the comment at 94); a
  message processed before the start leaves its duration behind (446, against
  121).
* The SPI channel's `sendTo()` drops a message after eight attempts and returns
  as if it were sent (184; `IChannel.h:43` speaks of a result). An
  unregistration between the worker's test and its call ends the program (56);
  `UnregisteringBetweenMessages` proves that one between messages never does.
  The receive queue is neither stopped nor deleted by the destructor.
* `DataToBuffer()` returns for no data (`DpaMessage.h:205`) where its comment
  (197) says that it throws; a `DpaMessage` constructed from an empty string
  has a length that nobody has set. 257 to 320 bytes from a channel are taken
  for a message of up to 64 (`DpaHandler2.cpp:95`).
* A response that ends before its code counts as a success
  (`DpaTransactionResult2.cpp:104`).
* Every service may replace or remove the asynchronous handler of another
  (`DpaHandler2.cpp:198`, 216).
* After `overrideErrorCode(TRN_OK)`, `getErrorString()` says "ok" while
  `getErrorCode()` still gives the code of the response
  (`DpaTransactionResult2.cpp:34`, 49). Nobody calls it here, and
  `StringFitsCode` is about results that nobody has changed.

## 5 Fairness

`DpaTransaction!Fairness`: the executor's and the user's threads run when they
can (weak fairness of `Evaluate`, `GetReturn`, `GetStartWaitOver`, whose wait
has a timeout), the sender returns or throws (the channels' `sendTo()` are
bounded loops), and time passes (`Tick`). Nothing is assumed of the device, of
`abort()`, or of the queue that has to start the transaction: the liveness
properties speak of started transactions only, because a transaction behind an
infinite one may never start.

`DpaHandler!Fairness`: the worker goes on, deadlines pass, the receiver gets
the mutex it waits for, users call `get()` and a destructor that has begun goes
on. Nobody has to submit, abort, answer or destroy. Infinite transactions have
their deadlines too; these do not end them.

`TaskQueue!Fairness`: the worker runs and its callback returns; a producer or
an owner that has begun a push, a stop or the destructor goes on. Nobody has to
push, stop or destroy.

`SpiChannel!Fairness`: `m_commMutex` is taken by many, so a thread that waits
for it is only assumed to get it when it is free again and again (strong
fairness of the steps of `sendTo()` and of `ListenWakes`); the listening thread
goes on otherwise, a critical section ends, the worker runs and the handler
returns. Nobody has to call a method, the device owes nothing, and the bus may
be busy or fail for a writer for ever; the reader's failures are limited
(`MaxFaults`), or nothing would ever be received.

`MessageHandlers!HandlersFairness`: the receiver goes on and the user's
functions return (weak fairness); a registration gets its mutex when it is free
again and again (strong fairness). Nothing has to be called, to come or to be
decided.

## 6 What is proved

All proofs are for every value of the constants that satisfies the named
assumptions: `TimeoutAssumption` (the two timeouts are positive),
`SpiAssumption` (at least one attempt; the callers' names differ from those of
the threads), `MessageHandlersAssumption` and `ReceivePathAssumption` (data are
data, verdicts are codes, bounds are numbers),
`HandlerAssumption` (requests are requests, timeouts and errors integers, the
limit is positive), `TransactionAssumption` (the sets of timeouts, errors, estimates and codes have
the right types, estimates are positive, `Horizon` is at least as long as the
timeouts), `MaxPushesAssumption`, `BytesAssumption` (bytes), `LengthsAssumption`
(lengths 0 to 64). Any number of stale messages, wake-ups, producers and pushes
is covered.

* `DpaTransactionProofs!TypeCorrect`: `TypeOK` is inductive; one lemma per
  operator of the object says what it returns.
* `DpaTransactionProofs!VerdictIsBacked`: `EvidenceInv` relates the state, the
  result and the threads. It is needed because the contract speaks of what was
  heard while the code decides from `m_state`: the invariant says that every
  state the executor may find is backed (`kProcessed` by a response or a
  confirmed broadcast, `kAborted` by a call of `abort()`, `kTimeout` only in
  a decided finite transaction), that the response code is `TRN_OK` as long as
  there is no response, and that `m_finish` is set exactly when the executor
  is done.
* `DpaTransactionProofs!ContractImplemented`: initial states map to initial
  states and every step to a step of `TransactionContract` or a stutter, under
  that invariant.
* `DpaTransactionProofs!NoEarlyTimeout`: `TimeoutNotEarly`. The invariant
  `PatienceInv` says that, as long as no response was heard, the expected
  duration never falls below the guaranteed one, and that the time since the
  request was sent plus what is left of the current wait covers it.
* `DpaTransactionProofs!ResponseIsKept`: `NoTimeoutAfterResponse`, assuming
  `MaxStale = 0`. Without the assumption it is false: a stale confirmation after
  the response makes the transaction await an answer again. `AnsweredInv` says
  that the response is the device's last word and that the state does not await
  an answer once it is recorded.
* `DpaTransactionProofs!WaitIsFull`: `UndisturbedWaitIsFull`, assuming that the
  clocks reach every estimate (`ClocksReach`; they stop at `Horizon`). `WaitInv`
  adds what has passed since the last message to what is left of the wait.
* `DpaTransactionProofs!SleepsRightly`: `NothingMissed`. `SleepInv` says that
  whoever sleeps does so over an unfinished state; every message and abort that
  would change this wakes the executor, and a refused transaction never sleeps.
* `DpaTransactionProofs!NoEndlessLoop`: `EveryStepCounts`. The measure is, in
  this order, the messages, wake-ups and the abort that may still come, the
  place of the executor in `execute()`, and what is left of the wait: a message
  may restart the wait, but there is one message less. The one exception, an
  infinite transaction that waits again, is part of the property.
* `DpaHandlerProofs!TypeCorrect`: `TypeOK`, with the worker's position tied to
  what it processes and the pending pointer to both.
* `DpaHandlerProofs!ExecutedOnce`: `OnceInv`, no transaction is queued twice,
  queued and executing, or executing when decided.
* `DpaHandlerProofs!AnswersFit`: `AnswersMatch`. The invariant adds `OnceInv`
  (what the device has answered is not asked again), `AskedInv` (a device was
  asked only by a transaction that is waiting or decided) and `ReceivedInv`
  (the same of a message on its way to the transaction that was pending when it
  came), because the pointer may be stale when it is used.
* `DpaHandlerProofs!QueueIsFifo`: the handler's steps are steps or stutters of
  the `FifoExecutor` that `TaskQueueProofs!FifoOrder` shows `TaskQueue` to
  implement, which is what lets the handler be modelled on top of it.
* `DpaHandlerProofs!AnswersFindTransaction`: `NullOnlyEarly`. `PendingInv` adds
  that a device was asked only once something had been published: the pointer
  never becomes null again.
* `DpaHandlerProofs!WorkerEndsFirst`: `QuietWhenGone` of the handler. `OwnerInv`
  ties the last steps of the destructor to the stopped queue and the idle worker.
* `DpaHandlerContractProofs!NothingDropped`: `NoneForgotten`, on top of `StepOf`
  below: where a transaction is can change only together with its verdict.
* `DpaHandlerContractProofs!ContractsKept`: `KeepsContracts`. `StepOf` says what
  any step of the handler does to one transaction: it leaves it alone, aborts,
  sends, refuses, decides or answers it. `ObjectsInv` (theorem `ObjectsAgree`) is
  what `EvidenceInv` is for a transaction alone; with it each of these six is a
  step or a stutter of that transaction's contract.
* `DpaHandlerContractProofs!ResponseDecides`: `ResponseWins`, assuming that no
  two requests have the same key and that nothing comes from an earlier run
  (`EarlyMessages = 0`). Without these a late answer can reach a transaction that
  is not waiting yet, and the refusal or a later confirmation replaces it.
  `WinsInv` says that a confirmation is on its way only while the response is
  not, so nothing makes the transaction await an answer again.
* `TaskQueueProofs!TypeCorrect`, `WakeupNeverLost`, `FifoOrder`. The
  strengthening of `NoLostWakeup`: work or a stop that the worker does not know
  of implies that the flag it waits for is set or that somebody is about to
  notify. `StopReachesWorker` proves `StoppedWorkerEnds` from its first half
  (`FlagShowsWork`): the flag is set whenever the worker may still wait, so the
  predicate of `wait()` lets a stopped worker through. It ends within two steps
  from wherever it is.
* `DpaTimingProofs!TypeCorrect`, `EstimatesPositive`, `WorstCaseIsWorst`: the
  invariant remembers that the members are those of the last confirmation, for
  which `worst` was computed. `LongerResponses` and `FrcTimeoutsGrow` are
  about the operators and hold in every state.
* `SpiChannelProofs!TypeCorrect`, `WritesOnce`, `LosesNothing`,
  `QuietAfterDestructor`. `TypeOK` holds the key: exactly the thread between
  reading the status and acting on it owns the mutex, so the status is that
  thread's own and `Head(device)` exists when it says "data". `WritesOnce`
  counts the attempts and ties a written message to a returned call;
  `QuietAfterDestructor` adds that after the destructor has begun no call is
  open and after its end the listening thread has stopped.
* `SpiChannelProofs!ReceptionIsFifo`: `ReceivesInOrder`. The device's head that
  the listening thread reads is the next message in the order of `OnTheWay`, so
  a reading and a push leave the concatenation as it is.
* `SpiChannelProofs!SendsTerminate`: `SendGetsNearer`. `FreshInv` (no attempt is
  counted before the first) makes `Remaining` a bound: three steps for each
  attempt and two more, whatever the bus answers.
* `SpiChannelProofs!UnregisteringBetweenMessages` is about the behaviours in
  which no message is being handed over when the handler is unregistered:
  `TestedHolds` (what the worker has tested is still so) is an invariant of
  those, and of those only.
* `ReceivePathProofs!HandlersImplemented`, `ChannelImplemented`: every step of
  the composition is a step or a stutter of each part. The safety properties of
  the parts are then proved of the parts and hold of the whole: `TypeCorrect`,
  `OnlyRegisteredAreCalled` (the functions the loop still owes are in the table
  as long as its mutex is held), `ParsesAgree` (inside
  `ResponseMessageHandler()` the data are never of a length that the second
  construction would skip), `ResultsFit`, `StringsFit` (a decided success has
  no error of the device behind it), `SendsTellTruth`.
* `ReceivePathProofs!ReceiverTerminates`: `ReceiverGetsNearer`. What is left is
  a number only if the tables are finite. `FiniteInv` proves that they are,
  without an assumption on `Services`: every entry was put in by one
  registration.
* `ReceivePathProofs!MischiefBlocks`: `OnlyMischiefBlocks`, which counts what the
  three ways to block somebody cost (a mutex left locked, a receiver that waits
  for its own mutex, and one that waits for the mutex left locked) and is
  inductive with the types of the counters. Two conclusions: `BothKindsTakeTwo`,
  calls of both kinds are blocked at once only after two functions have
  misbehaved, and `WellBehavedBlockNobody`, for functions that just return
  (`MaxMischief = 0`): the exceptions that the liveness properties make do not
  occur.
* `ReceivePathProofs!HarmOnlyInTheWindow`, `NeverUnregisteredNeverHarmed` (for
  `MaxUnregisters = 0`): `ListenerInv` says that outside of a registration or an
  unregistration a listener has its function.

Only model-checked: everything with fairness (`FiniteReturns`, `ResponseEnds`,
`AbortEnds`, `Served`, the three `DestructorReturns`, `SendReturns`,
`Received`, `CallsReturn`, `ReceiverReturns`, the liveness half of
`ImplementsFifo`), which is out of the prover's reach.

Only proved: what these rest on besides fairness, as far as it can be said of
single steps. Each thread gets nearer to its end (`EveryStepCounts`,
`StoppedWorkerEnds`, `SendGetsNearer`, `ReceiverGetsNearer`), no transaction is
dropped (`NoneForgotten`), and nobody is blocked but by a misbehaving function
(`OnlyMischiefBlocks`). The runs have the liveness instead, and leave these to
the theorems, which cover the instances of the runs too. The same goes for
`ReceivesInOrder`, which says what `NothingLost` says as a refinement,
`DpaHandler!QuietWhenGone`, and `FrcGrows`, which is about a function without a
caller. That no one is left asleep (`NoLostWakeup`, `NothingMissed`) is checked
and proved.

## 7 What is not modelled

* A second `get()` on one transaction: it returns a null pointer; one user and
  one `get()` are modelled.
* Functions of the user that never return, or that wait for something that only
  the receiver can bring about, such as the end of a transaction: they block
  what is behind them, which no property of the handler can prevent.
* The reads that change nothing: `size()`, the getters, `getState()` of the CDC
  channel.
* Timestamps, the stored request, and logging: the tracer writes to a file under
  a mutex of its own, and no other component reads its state.
* `overrideErrorCode()`: for the owner of the finished result.
* The handler's setters: single assignments to members that the constructor of
  a later transaction copies. Their races with it are data races on a struct
  with a string, whose outcomes no model bounds.
* `setCommunicationMode()` of the SPI channel, which calls the SPI library
  without `m_commMutex`: what the library then does is not in this repository.
* Torn reads of `m_pendingTransaction` and of the receive functions: the models
  have the old or the new value.
* What the SPI channel's worker does after the channel is gone: it uses freed
  memory.
* A `wait_for()` that reports what woke it instead of the clock: other
  libraries may do so and have fewer races.
* Unsigned conversion of `m_userTimeoutMs`: the constructor leaves no negative
  value in it.
* The example program and the build files.

## 8 Plan

1. A contract of `IChannel` (what is sent, what is received, when the receive
   function may be called), implemented by `SpiChannel` and `CdcChannel` through
   refinement mappings of their own, so that the parts above them rest on it.
2. `DpaHandler` and `MessageHandlers` in one specification, so that the message
   handlers run before the pending pointer is read; too many states for TLC
   without an abstraction of the transaction.
3. The response that ends before its code (`DpaTransactionResult2.cpp:104`):
   a property of the result object that names what may be read.
